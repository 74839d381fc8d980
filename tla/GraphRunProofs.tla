---------------------------- MODULE GraphRunProofs ----------------------------
(***************************************************************************)
(* The parent's counter is the number of its active nodes, for any graphs, *)
(* jumps included, and any number of workers.  Where no node jumps, every  *)
(* node is activated once in a round, by the last of its predecessors to   *)
(* arrive, and the counters implement the rounds of GraphRounds.           *)
(***************************************************************************)
EXTENDS GraphRun, SequenceFacts, TLAPS

-----------------------------------------------------------------------------
(* The slots.  They are conserved by every step; that the parent goes on   *)
(* only when there are none left (Turn) is what lets a round begin with    *)
(* nothing but its sources.                                                *)

Pcs == {"idle", "round", "invoke", "body", "arrive", "force", "addSlots", "publish", "release"}

WorkerStates ==
  [pc : Pcs, node : Nodes \cup {Nil}, cache : Nodes \cup {Nil},
   todo : SUBSET Nodes, ready : SUBSET Nodes]

Types ==
  /\ graph \in Graphs
  /\ queue \in [Nodes -> Nat]
  /\ parent \in {"new", "preempted", "done"}
  /\ at \in [Workers -> WorkerStates]
  /\ \A w \in Workers : IsFiniteSet(at[w].ready)

\* A worker that is busy has a node, or has handed it over and has another one.
NodeInHand ==
  \A w \in Workers :
    /\ at[w].pc \in {"invoke", "body", "arrive", "force", "release"} => at[w].node \in Nodes
    /\ at[w].pc \in {"addSlots", "publish"} => at[w].cache \in Nodes

\* The parent goes on in one worker, and only without an active node.
Turn ==
  /\ parent # "preempted" => slots = 0
  /\ \A w \in Workers : at[w].pc = "round" =>
       /\ slots = 0 /\ parent = "preempted"
       /\ \A v \in Workers \ {w} : at[v].pc # "round"

Counted ==
  /\ IsFiniteSet(Units(queue, Nodes)) /\ IsFiniteSet(Units(Active, Workers))
  /\ SlotsConserved

SInv == Types /\ NodeInHand /\ Turn /\ Counted

-----------------------------------------------------------------------------
(* Without jumps.  begun tells which nodes have been activated in this     *)
(* round.  A predecessor has passed n when it can reach it no more; once n *)
(* is activated all have, and so it is not activated again.                *)

Jumpless(g) == \A n \in Nodes : Invoker[g.kind[n]].strong

\* A worker in state r has n to start, or is running it.
Holds(r, n) ==
  \/ r.pc \in {"invoke", "body"} /\ r.node = n
  \/ n = r.cache
  \/ n \in r.ready

\* The same, or it is reaching the successors of n.
Engages(r, n) == Holds(r, n) \/ (r.pc = "arrive" /\ r.node = n)

\* It has n and has not invoked it.
Waits(r, n) ==
  \/ r.pc = "invoke" /\ r.node = n
  \/ n = r.cache
  \/ n \in r.ready

\* It will reach n from p.
Reaches(r, p, n) == r.node = p /\ n \in r.todo

\* n has been activated and not been invoked.
Pending(n) == queue[n] > 0 \/ \E w \in Workers : Waits(at[w], n)

Passed(p, n) ==
  /\ p \in begun /\ queue[p] = 0
  /\ \A w \in Workers : ~Holds(at[w], p) /\ ~Reaches(at[w], p, n)

Arrived(n) == {p \in Preds(n) : tokens[<<p, n>>] = 1}

\* What a worker has in its hands at each point.
Free(r) ==
  /\ r.pc # "force"
  /\ r.pc # "arrive" => r.todo = {}
  /\ r.pc \notin {"arrive", "addSlots", "publish"} => r.cache = Nil /\ r.ready = {}
  /\ r.pc = "arrive" => r.todo \subseteq graph.succ[r.node]
  /\ r.pc \in {"idle", "round", "addSlots", "publish"} => r.node = Nil
  /\ r.cache = Nil => r.ready = {}
  /\ r.cache \notin r.ready
  /\ r.pc = "arrive" => r.node # r.cache /\ r.node \notin r.ready

HandsFree == \A w \in Workers : Free(at[w])

\* Every node is in one place, and activated, when it is active.
Once ==
  \A n \in Nodes :
    /\ queue[n] <= 1
    /\ queue[n] > 0 => n \in begun
    /\ \A w \in Workers : Engages(at[w], n) =>
         /\ n \in begun /\ queue[n] = 0
         /\ \A v \in Workers : Engages(at[v], n) => v = w

\* The arrivals at a node that is not activated yet are those its counter
\* lacks; at one that is none is to come.
Joined ==
  /\ begun \subseteq graph.nodes
  /\ IF rounds = 0 THEN begun = {} ELSE Sources \subseteq begun
  /\ \A n \in begun \ Sources : \A p \in Preds(n) : Passed(p, n)
  /\ rounds > 0 => \A n \in graph.nodes \ begun :
       /\ join[n] = Cardinality(Preds(n)) - Cardinality(Arrived(n))
       /\ Arrived(n) # Preds(n)
       /\ \A p \in Arrived(n) : Passed(p, n)

\* Each arrival is used by the activation it took part in.
Caused ==
  /\ tokens \in [Nodes \X Nodes -> {0, 1}]
  /\ forced \subseteq Sources
  /\ rounds = 0 => tokens = [e \in Nodes \X Nodes |-> 0] /\ forced = {}
  /\ \A n \in begun :
       /\ Pending(n) => IF n \in Sources THEN n \in forced ELSE Arrived(n) = Preds(n)
       /\ ~Pending(n) => n \notin forced /\ \A p \in Preds(n) : tokens[<<p, n>>] = 0

Others ==
  /\ join \in [Nodes -> Int] /\ rounds \in 0..MaxRounds
  /\ failed \in BOOLEAN /\ stop \in BOOLEAN /\ jumps = 0
  /\ excepted \subseteq Nodes /\ begun \subseteq Nodes
  /\ excepted # {} => failed
  /\ parent = "new" => ~failed /\ rounds = 0

JInv ==
  /\ SInv /\ Jumpless(graph)
  /\ Others /\ HandsFree /\ Once /\ Joined /\ Caused

-----------------------------------------------------------------------------
(* The slots are conserved.                                                *)

\* What a worker stands for is a number.
LEMMA ActiveIsNat == ASSUME Types, NEW w \in Workers PROVE Active[w] \in Nat
BY FS_CardinalityType DEF Types, Active

\* When one worker goes on and the queue changes, the sum follows.
LEMMA CountStep ==
  ASSUME Types, Types', Counted, NEW w \in Workers, \A v \in Workers \ {w} : at'[v] = at[v],
         IsFiniteSet(Units(queue, Nodes))',
         slots' = slots + Total(queue, Nodes)' - Total(queue, Nodes) + Active'[w] - Active[w]
  PROVE  Counted'
<1>1. /\ IsFiniteSet(Units(queue, Nodes)) /\ IsFiniteSet(Units(Active, Workers))
      /\ slots = Total(queue, Nodes) + Total(Active, Workers)
  BY DEF Counted, SlotsConserved
<1> DEFINE f == Active
           h == Active'
<1>2. /\ f[w] \in Nat /\ h[w] \in Nat /\ \A v \in Workers \ {w} : h[v] = f[v]
  <2>1. IsFiniteSet(at'[w].ready)
    BY DEF Types
  <2>2. Active'[w] \in Nat
    BY <2>1, FS_CardinalityType DEF Active
  <2> QED BY <2>2, ActiveIsNat DEF Active
<1>3. IsFiniteSet(Units(f, Workers))
  BY <1>1
<1> HIDE DEF f, h
<1>4. /\ IsFiniteSet(Units(h, Workers))
      /\ Cardinality(Units(h, Workers)) = Cardinality(Units(f, Workers)) - f[w] + h[w]
  BY <1>2, <1>3, UnitsUpdate
<1>5. IsFiniteSet(Units(Active, Workers)') /\ Total(Active, Workers)' = Total(Active, Workers) - f[w] + h[w]
  BY <1>4 DEF f, h, Total
<1>6. /\ Total(queue, Nodes) \in Nat /\ Total(Active, Workers) \in Nat
      /\ Total(queue, Nodes)' \in Nat
  BY <1>1, FS_CardinalityType DEF Total
<1>7. slots' = slots + Total(queue, Nodes)' - Total(queue, Nodes) + h[w] - f[w]
  BY DEF f, h
<1>8. slots' = Total(queue, Nodes)' + Total(Active, Workers)'
  BY <1>1, <1>2, <1>5, <1>6, <1>7
<1> QED BY <1>5, <1>8 DEF Counted, SlotsConserved

\* While a node is active the parent has been preempted, and nobody resumes it.
LEMMA Busy ==
  ASSUME SInv, \/ \E w \in Workers : at[w].pc \notin {"idle", "round"}
               \/ \E n \in Nodes : queue[n] > 0
  PROVE  slots >= 1 /\ parent = "preempted" /\ \A w \in Workers : at[w].pc # "round"
<1>1. /\ IsFiniteSet(Units(queue, Nodes)) /\ IsFiniteSet(Units(Active, Workers))
      /\ slots = Total(queue, Nodes) + Total(Active, Workers) /\ Types /\ Turn
  BY DEF SInv, Counted, SlotsConserved
<1>2. Total(queue, Nodes) \in Nat /\ Total(Active, Workers) \in Nat
  BY <1>1, FS_CardinalityType DEF Total
<1>3. slots >= 1
  <2>1. CASE \E w \in Workers : at[w].pc \notin {"idle", "round"}
    <3>1. PICK w \in Workers : at[w].pc \notin {"idle", "round"}
      BY <2>1
    <3>2. Active[w] \in Nat /\ Active[w] >= 1
      BY <1>1, <3>1, FS_CardinalityType DEF Types, Active
    <3>3. Total(Active, Workers) >= 1
      BY <1>1, <1>2, <3>2, UnitsPart DEF Total
    <3> QED BY <1>1, <1>2, <3>3
  <2>2. CASE \E n \in Nodes : queue[n] > 0
    <3>1. PICK n \in Nodes : queue[n] > 0
      BY <2>2
    <3>2. queue[n] \in Nat
      BY <1>1 DEF Types
    <3>3. Total(queue, Nodes) >= 1
      BY <1>1, <1>2, <3>1, <3>2, UnitsPart DEF Total
    <3> QED BY <1>1, <1>2, <3>3
  <2> QED BY <2>1, <2>2
<1> QED BY <1>1, <1>3 DEF Turn

\* What a worker in state r stands for.
Weight(r) ==
  IF r.pc \in {"idle", "round"} THEN 0
  ELSE IF r.pc = "publish" THEN 1 + Cardinality(r.ready) ELSE 1

Hands(r) ==
  /\ r \in WorkerStates /\ IsFiniteSet(r.ready)
  /\ r.pc \in {"invoke", "body", "arrive", "force", "release"} => r.node \in Nodes
  /\ r.pc \in {"addSlots", "publish"} => r.cache \in Nodes

\* What a step of one worker has to see to.
LEMMA WorkerStep ==
  ASSUME SInv, NEW w \in Workers, NEW r, Hands(r), at' = [at EXCEPT ![w] = r],
         graph' = graph, parent' \in {"new", "preempted", "done"}, Turn',
         queue' \in [Nodes -> Nat], IsFiniteSet(Units(queue, Nodes))',
         slots' = slots + Total(queue, Nodes)' - Total(queue, Nodes) + Weight(r) - Active[w]
  PROVE  SInv'
<1>1. Types /\ NodeInHand /\ Counted
  BY DEF SInv
<1>2. /\ at'[w] = r /\ \A v \in Workers \ {w} : at'[v] = at[v]
      /\ at' \in [Workers -> WorkerStates]
  BY <1>1 DEF Types, Hands
<1>3. Types'
  BY <1>1, <1>2 DEF Types, Hands
<1>4. NodeInHand'
  BY <1>1, <1>2 DEF NodeInHand, Hands
<1>5. Active'[w] = Weight(r)
  BY <1>2 DEF Active, Weight
<1>6. Counted'
  BY <1>1, <1>2, <1>3, <1>5, CountStep
<1> QED BY <1>3, <1>4, <1>6 DEF SInv

\* One that runs nodes leaves the parent alone.
LEMMA BusyStep ==
  ASSUME SInv, NEW w \in Workers, at[w].pc \notin {"idle", "round"},
         NEW r, Hands(r), r.pc # "round", at' = [at EXCEPT ![w] = r],
         graph' = graph, parent' = parent,
         queue' \in [Nodes -> Nat], IsFiniteSet(Units(queue, Nodes))',
         slots' = slots + Total(queue, Nodes)' - Total(queue, Nodes) + Weight(r) - Active[w]
  PROVE  SInv'
<1>1. parent = "preempted" /\ \A v \in Workers : at[v].pc # "round"
  BY Busy
<1>2. at \in [Workers -> WorkerStates]
  BY DEF SInv, Types
<1>3. Turn'
  BY <1>1, <1>2 DEF Turn
<1> QED BY <1>1, <1>3, WorkerStep

\* One that leaves the slots and the queue alone, too.
LEMMA PlainStep ==
  ASSUME SInv, NEW w \in Workers, at[w].pc \notin {"idle", "round", "publish"},
         NEW r, Hands(r), r.pc \notin {"idle", "round", "publish"}, at' = [at EXCEPT ![w] = r],
         graph' = graph, parent' = parent, queue' = queue, slots' = slots
  PROVE  SInv'
<1>1. /\ queue' \in [Nodes -> Nat] /\ IsFiniteSet(Units(queue, Nodes))'
      /\ Total(queue, Nodes)' = Total(queue, Nodes) /\ Total(queue, Nodes) \in Nat
  BY FS_CardinalityType DEF SInv, Types, Counted, Total
<1>2. Weight(r) = 1 /\ Active[w] = 1
  BY DEF Weight, Active
<1>3. slots \in Int
  BY <1>1, FS_CardinalityType DEF SInv, Counted, SlotsConserved, Total
<1>4. slots' = slots + Total(queue, Nodes)' - Total(queue, Nodes) + Weight(r) - Active[w]
  BY <1>1, <1>2, <1>3
<1> QED BY <1>1, <1>4, BusyStep

\* What is known of the graph that runs.
LEMMA GraphFacts ==
  ASSUME graph \in Graphs
  PROVE  /\ graph.nodes \subseteq Nodes /\ IsFiniteSet(graph.nodes)
         /\ graph.succ \in [Nodes -> SUBSET graph.nodes]
         /\ graph.kind \in [Nodes -> NodeKinds]
         /\ IsFiniteSet(Sources) /\ Sources \subseteq graph.nodes
         /\ \A n \in Nodes : /\ IsFiniteSet(Preds(n)) /\ Preds(n) \subseteq graph.nodes
                             /\ IsFiniteSet(StrongPreds(n))
<1>1. /\ graph.nodes \subseteq Nodes /\ IsFiniteSet(graph.nodes)
      /\ graph.succ \in [Nodes -> SUBSET graph.nodes]
      /\ graph.kind \in [Nodes -> NodeKinds]
  BY GraphAssumption
<1>2. Sources \in SUBSET graph.nodes /\ \A n \in Nodes : /\ Preds(n) \in SUBSET graph.nodes
                                                         /\ StrongPreds(n) \in SUBSET graph.nodes
  BY DEF Sources, Preds, StrongPreds
<1> QED BY <1>1, <1>2, FS_Subset

\* The invariant of the slots holds initially.
LEMMA InitSInv == Init => SInv
<1> SUFFICES ASSUME Init PROVE SInv
  OBVIOUS
<1>1. at = [w \in Workers |-> Idle] /\ queue = [n \in Nodes |-> 0] /\ slots = 0
  BY DEF Init
<1>2. Types
  <2>1. Idle \in WorkerStates
    BY DEF Idle, WorkerStates, Pcs
  <2>2. IsFiniteSet(Idle.ready)
    BY FS_EmptySet DEF Idle
  <2> QED BY <1>1, <2>1, <2>2 DEF Types, Init
<1>3. NodeInHand /\ Turn
  BY <1>1 DEF NodeInHand, Turn, Idle, Init
<1>4. \A w \in Workers : Active[w] = 0
  BY <1>1 DEF Active, Idle
<1>5. \A n \in Nodes : queue[n] = 0
  BY <1>1
<1>6. IsFiniteSet(Units(queue, Nodes)) /\ Cardinality(Units(queue, Nodes)) = 0
  BY <1>5, UnitsEmpty
<1>7. IsFiniteSet(Units(Active, Workers)) /\ Cardinality(Units(Active, Workers)) = 0
  BY <1>4, UnitsEmpty
<1>8. Counted
  BY <1>1, <1>6, <1>7 DEF Counted, SlotsConserved, Total
<1> QED BY <1>2, <1>3, <1>8 DEF SInv

\* The parent: its steps neither find nor leave an active node uncounted.
LEMMA ParentStep ==
  ASSUME SInv, NEW w \in Workers, Launch(w) \/ Finish(w) \/ Round(w) PROVE SInv'
<1>1. /\ Types /\ Turn /\ at \in [Workers -> WorkerStates] /\ IsFiniteSet(at[w].ready)
      /\ queue \in [Nodes -> Nat] /\ IsFiniteSet(Units(queue, Nodes))
      /\ Total(queue, Nodes) \in Nat
  BY FS_CardinalityType DEF SInv, Types, Counted, Total
<1>2. CASE Launch(w)
  <2> DEFINE r == [at[w] EXCEPT !.pc = "round"]
  <2>1. /\ at' = [at EXCEPT ![w] = r] /\ parent = "new" /\ parent' = "preempted" /\ at[w].pc = "idle"
        /\ UNCHANGED <<graph, slots, queue>>
    BY <1>2 DEF Launch, Goto
  <2>2. Hands(r)
    BY <1>1 DEF Hands, WorkerStates, Pcs
  <2>3. slots = 0 /\ \A v \in Workers : at[v].pc # "round"
    BY <1>1, <2>1 DEF Turn
  <2>4. Weight(r) = 0 /\ Active[w] = 0
    BY <1>1, <2>1 DEF Weight, Active, WorkerStates
  <2>5. Turn'
    BY <1>1, <2>1, <2>3 DEF Turn
  <2>6. slots' = slots + Total(queue, Nodes)' - Total(queue, Nodes) + Weight(r) - Active[w]
    BY <1>1, <2>1, <2>3, <2>4
  <2> HIDE DEF r
  <2> QED BY <1>1, <2>1, <2>2, <2>5, <2>6, WorkerStep
<1>3. CASE Finish(w)
  <2>1. /\ at' = [at EXCEPT ![w] = Idle] /\ parent' = "done" /\ at[w].pc = "round"
        /\ UNCHANGED <<graph, slots, queue>>
    BY <1>3 DEF Finish
  <2>2. Hands(Idle)
    BY FS_EmptySet DEF Hands, WorkerStates, Pcs, Idle
  <2>3. slots = 0 /\ \A v \in Workers \ {w} : at[v].pc # "round"
    BY <1>1, <2>1 DEF Turn
  <2>4. Weight(Idle) = 0 /\ Active[w] = 0
    BY <2>1 DEF Weight, Active, Idle
  <2>5. Turn'
    BY <1>1, <2>1, <2>3 DEF Turn, Idle
  <2>6. slots' = slots + Total(queue, Nodes)' - Total(queue, Nodes) + Weight(Idle) - Active[w]
    BY <1>1, <2>1, <2>3, <2>4
  <2> QED BY <1>1, <2>1, <2>2, <2>5, <2>6, WorkerStep
<1>4. CASE Round(w)
  <2>1. PICK c \in Sources : HandOut(w, c, Sources \ {c})
    BY <1>4 DEF Round
  <2>2. /\ at[w].pc = "round" /\ slots' = Cardinality(Sources) /\ UNCHANGED <<graph, parent, queue>>
    BY <1>4 DEF Round
  <2>3. slots = 0 /\ parent = "preempted" /\ \A v \in Workers \ {w} : at[v].pc # "round"
    BY <1>1, <2>2 DEF Turn
  <2> DEFINE R == Sources \ {c}
             r == IF R = {} THEN Handed(c)
                  ELSE [Idle EXCEPT !.pc = "publish", !.cache = c, !.ready = R]
  <2>4. IsFiniteSet(Sources) /\ Sources \subseteq Nodes
    BY <1>1, GraphFacts DEF Types
  <2>5. IsFiniteSet(R) /\ Cardinality(R) = Cardinality(Sources) - 1
    BY <2>4, FS_RemoveElement
  <2>6. at' = [at EXCEPT ![w] = r]
    BY <2>1 DEF HandOut
  <2>7. Hands(r) /\ Weight(r) = Cardinality(Sources) /\ r.pc # "round"
    <3>1. CASE R = {}
      <4>1. r = Handed(c)
        BY <3>1
      <4>2. Cardinality(Sources) \in Nat /\ Cardinality(R) = 0
        BY <2>4, <3>1, FS_EmptySet, FS_CardinalityType
      <4>3. Hands(r) /\ Weight(r) = 1 /\ r.pc # "round"
        BY <2>4, <4>1, FS_EmptySet DEF Hands, WorkerStates, Pcs, Idle, Handed, Weight
      <4> HIDE DEF r, R
      <4> QED BY <2>5, <4>2, <4>3
    <3>2. CASE R # {}
      <4>1. r = [Idle EXCEPT !.pc = "publish", !.cache = c, !.ready = R]
        BY <3>2
      <4>2. Cardinality(Sources) \in Nat
        BY <2>4, FS_CardinalityType
      <4>3. R \subseteq Nodes /\ c \in Nodes
        BY <2>4
      <4> HIDE DEF r, R
      <4>4. Hands(r) /\ Weight(r) = 1 + Cardinality(R) /\ r.pc # "round"
        BY <2>5, <4>1, <4>3 DEF Hands, WorkerStates, Pcs, Idle, Weight
      <4> QED BY <2>5, <4>2, <4>4
    <3> QED BY <3>1, <3>2
  <2>8. Active[w] = 0
    BY <2>2 DEF Active
  <2> HIDE DEF r, R
  <2>9. Turn'
    BY <1>1, <2>2, <2>3, <2>6, <2>7 DEF Turn
  <2>10. slots' = slots + Total(queue, Nodes)' - Total(queue, Nodes) + Weight(r) - Active[w]
    <3>1. Cardinality(Sources) \in Nat
      BY <2>4, FS_CardinalityType
    <3> QED BY <1>1, <2>2, <2>3, <2>7, <2>8, <3>1
  <2>11. parent' \in {"new", "preempted", "done"} /\ graph' = graph /\ queue' \in [Nodes -> Nat]
         /\ IsFiniteSet(Units(queue, Nodes))'
    BY <1>1, <2>2, <2>3
  <2> QED BY <2>6, <2>7, <2>9, <2>10, <2>11, WorkerStep
<1> QED BY <1>2, <1>3, <1>4

\* A worker takes a node out of the queue and has it in hand.
LEMMA TakeStep == ASSUME SInv, NEW w \in Workers, Take(w) PROVE SInv'
<1>1. PICK n \in Nodes : /\ queue[n] > 0 /\ queue' = [queue EXCEPT ![n] = @ - 1]
                         /\ at' = [at EXCEPT ![w] = Handed(n)]
  BY DEF Take
<1>2. /\ at[w].pc = "idle" /\ UNCHANGED <<graph, slots, parent>>
      /\ queue \in [Nodes -> Nat] /\ at \in [Workers -> WorkerStates]
      /\ IsFiniteSet(Units(queue, Nodes))
  BY DEF Take, SInv, Types, Counted
<1>3. parent = "preempted" /\ slots \in Int /\ \A v \in Workers : at[v].pc # "round"
  BY <1>1, Busy, FS_CardinalityType DEF SInv, Counted, SlotsConserved, Total
<1>4. Hands(Handed(n)) /\ Weight(Handed(n)) = 1 /\ Active[w] = 0 /\ Handed(n).pc = "invoke"
  BY <1>2, FS_EmptySet DEF Hands, WorkerStates, Pcs, Idle, Handed, Weight, Active
<1>5. Turn'
  BY <1>1, <1>2, <1>3, <1>4 DEF Turn
<1>6. queue' \in [Nodes -> Nat] /\ queue'[n] = queue[n] - 1 /\ \A m \in Nodes \ {n} : queue'[m] = queue[m]
  BY <1>1, <1>2
<1>7. /\ IsFiniteSet(Units(queue, Nodes))'
      /\ Total(queue, Nodes)' = Total(queue, Nodes) - 1
      /\ Total(queue, Nodes) \in Nat
  <2> DEFINE h == queue'
  <2>1. queue[n] \in Nat /\ h[n] \in Nat /\ h[n] = queue[n] - 1 /\ \A m \in Nodes \ {n} : h[m] = queue[m]
    BY <1>2, <1>6
  <2> HIDE DEF h
  <2>2. /\ IsFiniteSet(Units(h, Nodes))
        /\ Cardinality(Units(h, Nodes)) = Cardinality(Units(queue, Nodes)) - queue[n] + h[n]
    BY <1>2, <2>1, UnitsUpdate
  <2>3. Cardinality(Units(queue, Nodes)) \in Nat
    BY <1>2, FS_CardinalityType
  <2>4. Cardinality(Units(h, Nodes)) = Cardinality(Units(queue, Nodes)) - 1
    BY <2>1, <2>2, <2>3
  <2> QED BY <2>2, <2>3, <2>4 DEF h, Total
<1>8. slots' = slots + Total(queue, Nodes)' - Total(queue, Nodes) + Weight(Handed(n)) - Active[w]
  BY <1>2, <1>3, <1>4, <1>7
<1>9. graph' = graph /\ parent' \in {"new", "preempted", "done"}
  BY <1>2, <1>3
<1> QED BY <1>1, <1>4, <1>5, <1>6, <1>7, <1>8, <1>9, WorkerStep

\* The node is started, and its body ends.
LEMMA BodyStep ==
  ASSUME SInv, NEW w \in Workers, Invoke(w) \/ Throw(w) \/ Complete(w) PROVE SInv'
<1>1. at \in [Workers -> WorkerStates] /\ IsFiniteSet(at[w].ready) /\ NodeInHand
  BY DEF SInv, Types
<1>2. CASE Invoke(w)
  <2> DEFINE r == [at[w] EXCEPT !.pc = IF stop /\ Inv(at[w].node).stoppable THEN "release" ELSE "body"]
  <2>1. at' = [at EXCEPT ![w] = r] /\ at[w].pc = "invoke" /\ UNCHANGED <<graph, slots, parent, queue>>
    BY <1>2 DEF Invoke, Goto
  <2>2. Hands(r) /\ r.pc \in {"release", "body"}
    BY <1>1, <2>1 DEF Hands, WorkerStates, Pcs, NodeInHand
  <2> HIDE DEF r
  <2> QED BY <2>1, <2>2, PlainStep
<1>3. CASE Throw(w)
  <2> DEFINE r == [at[w] EXCEPT !.pc = "release"]
  <2>1. at' = [at EXCEPT ![w] = r] /\ at[w].pc = "body" /\ UNCHANGED <<graph, slots, parent, queue>>
    BY <1>3 DEF Throw, Goto
  <2>2. Hands(r) /\ r.pc = "release"
    BY <1>1, <2>1 DEF Hands, WorkerStates, Pcs, NodeInHand
  <2> HIDE DEF r
  <2> QED BY <2>1, <2>2, PlainStep
<1>4. CASE Complete(w)
  <2>1. PICK S \in IF at[w].node \in excepted THEN {{}} ELSE Selections(at[w].node) :
          at' = [at EXCEPT ![w].todo = S,
                           ![w].pc = IF S = {} THEN "release"
                                     ELSE IF at[w].node \in Jumps THEN "force" ELSE "arrive"]
    BY <1>4 DEF Complete
  <2>2. at[w].pc = "body" /\ UNCHANGED <<graph, slots, parent, queue>>
    BY <1>4 DEF Complete
  <2>3. at[w].node \in Nodes
    BY <1>1, <2>2 DEF NodeInHand
  <2>4. S \subseteq Nodes
    <3>1. graph.succ[at[w].node] \subseteq Nodes
      BY <2>3, GraphFacts DEF SInv, Types
    <3> QED BY <2>1, <3>1 DEF Selections
  <2> DEFINE r == [at[w] EXCEPT !.todo = S,
                                !.pc = IF S = {} THEN "release"
                                       ELSE IF at[w].node \in Jumps THEN "force" ELSE "arrive"]
  <2>5. at' = [at EXCEPT ![w] = r]
    BY <1>1, <2>1 DEF WorkerStates
  <2>6. Hands(r) /\ r.pc \in {"release", "force", "arrive"}
    BY <1>1, <2>3, <2>4 DEF Hands, WorkerStates, Pcs
  <2> HIDE DEF r
  <2> QED BY <2>2, <2>5, <2>6, PlainStep
<1> QED BY <1>2, <1>3, <1>4

\* What is left in hand when a successor has been reached.
LEMMA ScanHands ==
  ASSUME SInv, NEW w \in Workers, at[w].pc \in {"arrive", "force"},
         NEW m \in at[w].todo, NEW isReady \in BOOLEAN, Scan(w, m, isReady)
  PROVE  \E r : /\ Hands(r) /\ r.pc \notin {"idle", "round", "publish"}
                /\ at' = [at EXCEPT ![w] = r]
<1> DEFINE todo == at[w].todo \ {m}
           cache == IF isReady /\ at[w].cache = Nil THEN m ELSE at[w].cache
           ready == IF isReady /\ at[w].cache # Nil THEN at[w].ready \cup {m} ELSE at[w].ready
<1>1. /\ at \in [Workers -> WorkerStates] /\ IsFiniteSet(at[w].ready)
      /\ at[w].node \in Nodes /\ m \in Nodes
  BY DEF SInv, Types, NodeInHand, WorkerStates
<1>2. /\ todo \subseteq Nodes /\ cache \in Nodes \cup {Nil} /\ ready \subseteq Nodes /\ IsFiniteSet(ready)
  <2>1. IsFiniteSet(at[w].ready \cup {m})
    BY <1>1, FS_AddElement
  <2> QED BY <1>1, <2>1 DEF WorkerStates
<1>3. CASE todo # {}
  <2> DEFINE r == [at[w] EXCEPT !.todo = todo, !.cache = cache, !.ready = ready]
  <2>1. at' = [at EXCEPT ![w].todo = todo, ![w].cache = cache, ![w].ready = ready]
    BY <1>3 DEF Scan
  <2> HIDE DEF todo, cache, ready
  <2>2. at' = [at EXCEPT ![w] = r]
    BY <1>1, <2>1 DEF WorkerStates
  <2>3. Hands(r) /\ r.pc \in {"arrive", "force"}
    BY <1>1, <1>2 DEF Hands, WorkerStates, Pcs
  <2> HIDE DEF r
  <2> QED BY <2>2, <2>3
<1>4. CASE todo = {}
  <2> DEFINE r == IF cache = Nil THEN [Idle EXCEPT !.pc = "release", !.node = at[w].node]
                  ELSE IF ready = {} THEN Handed(cache)
                  ELSE [Idle EXCEPT !.pc = "addSlots", !.cache = cache, !.ready = ready]
  <2>1. at' = [at EXCEPT ![w] = r]
    BY <1>4 DEF Scan, Scanned
  <2> HIDE DEF todo, cache, ready
  <2>2. Hands(r) /\ r.pc \in {"release", "invoke", "addSlots"}
    BY <1>1, <1>2, FS_EmptySet DEF Hands, WorkerStates, Pcs, Idle, Handed
  <2> HIDE DEF r
  <2> QED BY <2>1, <2>2
<1> QED BY <1>3, <1>4

\* The successors are reached one by one.
LEMMA ScanStep == ASSUME SInv, NEW w \in Workers, Arrive(w) \/ JumpTo(w) PROVE SInv'
<1>1. at[w].pc \in {"arrive", "force"} /\ UNCHANGED <<graph, slots, parent, queue>>
  BY DEF Arrive, JumpTo
<1>2. \E m \in at[w].todo, isReady \in BOOLEAN : Scan(w, m, isReady)
  BY DEF Arrive, JumpTo
<1>3. PICK r : /\ Hands(r) /\ r.pc \notin {"idle", "round", "publish"}
               /\ at' = [at EXCEPT ![w] = r]
  BY <1>1, <1>2, ScanHands
<1> QED BY <1>1, <1>3, PlainStep

\* The ready nodes are counted before the first of them can be taken.
LEMMA AddSlotsStep == ASSUME SInv, NEW w \in Workers, AddSlots(w) PROVE SInv'
<1> DEFINE r == [at[w] EXCEPT !.pc = "publish"]
<1>1. /\ at' = [at EXCEPT ![w] = r] /\ at[w].pc = "addSlots"
      /\ slots' = slots + Cardinality(at[w].ready) /\ UNCHANGED <<graph, parent, queue>>
  BY DEF AddSlots, Goto
<1>2. /\ at \in [Workers -> WorkerStates] /\ IsFiniteSet(at[w].ready) /\ NodeInHand
      /\ queue \in [Nodes -> Nat] /\ IsFiniteSet(Units(queue, Nodes))
      /\ Total(queue, Nodes) \in Nat /\ Total(Active, Workers) \in Nat
      /\ slots = Total(queue, Nodes) + Total(Active, Workers)
  BY FS_CardinalityType DEF SInv, Types, Counted, SlotsConserved, Total
<1>3. Hands(r) /\ r.pc = "publish" /\ r.ready = at[w].ready
  BY <1>1, <1>2 DEF Hands, WorkerStates, Pcs, NodeInHand
<1> HIDE DEF r
<1>4. Weight(r) = 1 + Cardinality(at[w].ready) /\ Active[w] = 1 /\ Cardinality(at[w].ready) \in Nat
  BY <1>1, <1>2, <1>3, FS_CardinalityType DEF Weight, Active
<1>5. /\ queue' \in [Nodes -> Nat] /\ IsFiniteSet(Units(queue, Nodes))'
      /\ Total(queue, Nodes)' = Total(queue, Nodes)
  BY <1>1, <1>2 DEF Total
<1>6. slots' = slots + Total(queue, Nodes)' - Total(queue, Nodes) + Weight(r) - Active[w]
  BY <1>1, <1>2, <1>4, <1>5
<1> QED BY <1>1, <1>3, <1>5, <1>6, BusyStep

\* A published node stands for itself, and no longer for the worker's.
LEMMA PublishStep == ASSUME SInv, NEW w \in Workers, Publish(w) PROVE SInv'
<1>1. PICK S \in (SUBSET at[w].ready) \ {{}} :
        /\ queue' = [n \in Nodes |-> IF n \in S THEN queue[n] + 1 ELSE queue[n]]
        /\ HandOut(w, at[w].cache, at[w].ready \ S)
  BY DEF Publish
<1>2. /\ at[w].pc = "publish" /\ UNCHANGED <<graph, slots, parent>>
      /\ at \in [Workers -> WorkerStates] /\ IsFiniteSet(at[w].ready) /\ NodeInHand
      /\ queue \in [Nodes -> Nat] /\ IsFiniteSet(Units(queue, Nodes))
      /\ Total(queue, Nodes) \in Nat /\ Total(Active, Workers) \in Nat
      /\ slots = Total(queue, Nodes) + Total(Active, Workers)
  BY FS_CardinalityType DEF Publish, SInv, Types, Counted, SlotsConserved, Total
<1> DEFINE c == at[w].cache
           R == at[w].ready \ S
           r == IF R = {} THEN Handed(c)
                ELSE [Idle EXCEPT !.pc = "publish", !.cache = c, !.ready = R]
<1>3. at' = [at EXCEPT ![w] = r]
  BY <1>1 DEF HandOut
<1>4. /\ S \subseteq at[w].ready /\ S \in SUBSET Nodes /\ at[w].ready \subseteq Nodes /\ c \in Nodes
  BY <1>1, <1>2 DEF WorkerStates, NodeInHand
<1>5. /\ IsFiniteSet(S) /\ IsFiniteSet(R) /\ R \subseteq Nodes
      /\ Cardinality(S) \in Nat /\ Cardinality(R) \in Nat /\ Cardinality(at[w].ready) \in Nat
      /\ Cardinality(R) = Cardinality(at[w].ready) - Cardinality(S)
  <2>1. IsFiniteSet(S) /\ IsFiniteSet(R) /\ R \subseteq Nodes
    BY <1>2, <1>4, FS_Subset
  <2>2. Cardinality(R) = Cardinality(at[w].ready) - Cardinality(at[w].ready \cap S)
    BY <1>2, FS_Difference
  <2>3. at[w].ready \cap S = S
    BY <1>4
  <2> QED BY <1>2, <2>1, <2>2, <2>3, FS_CardinalityType
<1>6. Hands(r) /\ Weight(r) = 1 + Cardinality(R) /\ r.pc # "round"
  <2>1. CASE R = {}
    <3>1. r = Handed(c) /\ Cardinality(R) = 0
      BY <2>1, FS_EmptySet
    <3> HIDE DEF r, R, c
    <3>2. Hands(r) /\ Weight(r) = 1 /\ r.pc # "round"
      BY <1>4, <3>1, FS_EmptySet DEF Hands, WorkerStates, Pcs, Idle, Handed, Weight
    <3> QED BY <3>1, <3>2
  <2>2. CASE R # {}
    <3>1. r = [Idle EXCEPT !.pc = "publish", !.cache = c, !.ready = R]
      BY <2>2
    <3> HIDE DEF r, R, c
    <3> QED BY <1>4, <1>5, <3>1 DEF Hands, WorkerStates, Pcs, Idle, Weight
  <2> QED BY <2>1, <2>2
<1>7. Active[w] = 1 + Cardinality(at[w].ready)
  BY <1>2 DEF Active
<1> HIDE DEF r, R, c
<1>8. /\ queue' \in [Nodes -> Nat] /\ IsFiniteSet(Units(queue, Nodes))'
      /\ Total(queue, Nodes)' = Total(queue, Nodes) + Cardinality(S)
  <2> DEFINE h == queue'
  <2>1. /\ \A n \in S : queue[n] \in Nat /\ queue[n] + 1 = h[n]
        /\ \A n \in Nodes \ S : h[n] = queue[n]
        /\ h \in [Nodes -> Nat]
    BY <1>1, <1>2, <1>4
  <2> HIDE DEF h
  <2>2. /\ IsFiniteSet(Units(h, Nodes))
        /\ Cardinality(Units(h, Nodes)) = Cardinality(Units(queue, Nodes)) + Cardinality(S)
    BY <1>2, <1>4, <1>5, <2>1, UnitsRaise
  <2> QED BY <2>1, <2>2 DEF h, Total
<1>9. slots' = slots + Total(queue, Nodes)' - Total(queue, Nodes) + Weight(r) - Active[w]
  BY <1>2, <1>5, <1>6, <1>7, <1>8
<1> QED BY <1>2, <1>3, <1>6, <1>8, <1>9, BusyStep

\* The last slot given back resumes the parent, and then only.
LEMMA ReleaseStep == ASSUME SInv, NEW w \in Workers, Release(w) PROVE SInv'
<1>1. /\ at[w].pc = "release" /\ slots' = slots - 1 /\ UNCHANGED <<graph, parent, queue>>
      /\ at \in [Workers -> WorkerStates]
      /\ queue \in [Nodes -> Nat] /\ IsFiniteSet(Units(queue, Nodes))
      /\ Total(queue, Nodes) \in Nat /\ Total(Active, Workers) \in Nat
      /\ slots = Total(queue, Nodes) + Total(Active, Workers)
  BY FS_CardinalityType DEF Release, SInv, Types, Counted, SlotsConserved, Total
<1>2. parent = "preempted" /\ \A v \in Workers : at[v].pc # "round"
  BY <1>1, Busy
<1> DEFINE r == IF slots = 1 THEN [Idle EXCEPT !.pc = "round"] ELSE Idle
<1>3. at' = [at EXCEPT ![w] = r]
  BY DEF Release
<1>4. /\ Hands(r) /\ r.pc = IF slots = 1 THEN "round" ELSE "idle"
  BY FS_EmptySet DEF Hands, WorkerStates, Pcs, Idle
<1> HIDE DEF r
<1>5. Weight(r) = 0 /\ Active[w] = 1
  BY <1>1, <1>4 DEF Weight, Active
<1>6. Turn'
  <2>1. \A v \in Workers \ {w} : at'[v] = at[v]
    BY <1>1, <1>3
  <2>2. at'[w].pc = "round" => slots' = 0
    BY <1>1, <1>3, <1>4
  <2> QED BY <1>1, <1>2, <2>1, <2>2 DEF Turn
<1>7. slots' = slots + Total(queue, Nodes)' - Total(queue, Nodes) + Weight(r) - Active[w]
  BY <1>1, <1>5
<1>8. /\ queue' \in [Nodes -> Nat] /\ IsFiniteSet(Units(queue, Nodes))'
      /\ graph' = graph /\ parent' \in {"new", "preempted", "done"}
  BY <1>1, <1>2
<1> QED BY <1>3, <1>4, <1>6, <1>7, <1>8, WorkerStep

\* Every step, of a worker or of the environment, keeps the invariant of the slots.
LEMMA StepSInv == SInv /\ [Next]_vars => SInv'
<1> SUFFICES ASSUME SInv, [Next]_vars PROVE SInv'
  OBVIOUS
<1>1. CASE RequestStop \/ UNCHANGED vars
  <2>1. UNCHANGED <<graph, queue, parent, at, slots>>
    BY <1>1 DEF RequestStop, vars
  <2>2. Active' = Active
    BY <2>1 DEF Active
  <2> QED BY <2>1, <2>2 DEF SInv, Types, NodeInHand, Turn, Counted, SlotsConserved
<1>2. CASE \E w \in Workers : Step(w)
  <2>1. PICK w \in Workers : Step(w)
    BY <1>2
  <2> QED BY <2>1, ParentStep, TakeStep, BodyStep, ScanStep, AddSlotsStep, PublishStep, ReleaseStep
      DEF Step
<1> QED BY <1>1, <1>2 DEF Next

\* The parent's counter is the number of its active nodes, whatever nodes
\* branch, jump, throw or are stopped, and while a node is active, queued or
\* about to be queued the parent neither starts another round nor ends
\* (executor.hpp, _schedule_parent and the slots added before a push).
THEOREM SlotsAreConserved == Spec => [](SlotsConserved /\ Turn)
<1>1. Spec => []SInv
  BY InitSInv, StepSInv, PTL DEF Spec
<1>2. SInv => SlotsConserved /\ Turn
  BY DEF SInv, Counted
<1> QED BY <1>1, <1>2, PTL

-----------------------------------------------------------------------------
(* Without jumps, one activation of each node in a round.                  *)

\* All predecessors count.
LEMMA NoJumps ==
  ASSUME JInv
  PROVE  /\ Jumps = {} /\ graph.nodes \subseteq Nodes /\ IsFiniteSet(graph.nodes)
         /\ graph.succ \in [Nodes -> SUBSET graph.nodes]
         /\ Sources \subseteq graph.nodes
         /\ \A n \in Nodes :
              /\ StrongPreds(n) = Preds(n) /\ Preds(n) \subseteq graph.nodes /\ IsFiniteSet(Preds(n))
              /\ JoinWeight(n) = Cardinality(Preds(n)) /\ JoinWeight(n) \in Nat
<1>1. graph \in Graphs
  BY DEF JInv, SInv, Types
<1>2. Jumps = {}
  BY <1>1, GraphFacts DEF JInv, Jumpless, Jumps, Inv
<1>3. \A n \in Nodes : StrongPreds(n) = Preds(n)
  BY <1>2 DEF StrongPreds
<1>4. \A n \in Nodes : IsFiniteSet(Preds(n)) /\ JoinWeight(n) = Cardinality(Preds(n))
  BY <1>1, <1>3, GraphFacts DEF JoinWeight
<1>5. \A n \in Nodes : JoinWeight(n) \in Nat
  BY <1>4, FS_CardinalityType
<1> QED BY <1>1, <1>2, <1>3, <1>4, <1>5, GraphFacts

\* No node is empty-handed.
LEMMA NilIsNoNode == Nil \notin Nodes
BY GraphAssumption

\* Without jumps, the invariant of the rounds holds initially.
LEMMA InitJInv == (\A g \in Graphs : Jumpless(g)) /\ Init => JInv
<1> SUFFICES ASSUME \A g \in Graphs : Jumpless(g), Init PROVE JInv
  OBVIOUS
<1>1. SInv /\ Jumpless(graph)
  BY InitSInv DEF Init
<1>2. /\ \A w \in Workers : at[w] = Idle
      /\ \A n \in Nodes : queue[n] = 0
      /\ begun = {} /\ forced = {} /\ tokens = [e \in Nodes \X Nodes |-> 0] /\ rounds = 0
  BY DEF Init
<1>3. Others
  <2>1. MaxRounds \in Nat
    BY GraphAssumption
  <2>2. /\ rounds = 0 /\ failed = FALSE /\ stop = FALSE /\ jumps = 0
        /\ excepted = {} /\ begun = {} /\ join = [n \in Nodes |-> 0]
    BY DEF Init
  <2>3. rounds \in 0..MaxRounds /\ join \in [Nodes -> Int]
    BY <2>1, <2>2
  <2> QED BY <2>2, <2>3 DEF Others
<1>4. HandsFree
  <2>1. Free(Idle)
    BY DEF Free, Idle
  <2> QED BY <1>2, <2>1 DEF HandsFree
<1>5. Once
  <2>1. \A n \in Nodes : ~Engages(Idle, n)
    BY NilIsNoNode DEF Engages, Holds, Idle
  <2> QED BY <1>2, <2>1 DEF Once
<1>6. Joined /\ Caused
  BY <1>2 DEF Joined, Caused
<1> QED BY <1>1, <1>3, <1>4, <1>5, <1>6 DEF JInv

\* A worker goes on without an activation, an arrival or an invocation: what
\* it has in hand it had before, or took out of the queue.
LEMMA Handover ==
  ASSUME JInv, SInv', Others', NEW w \in Workers, NEW r, at' = [at EXCEPT ![w] = r], Free(r),
         UNCHANGED <<graph, tokens, forced, begun, rounds>>,
         rounds > 0 => \A n \in graph.nodes \ begun : join'[n] = join[n],
         queue' \in [Nodes -> Nat],
         \A n \in Nodes :
           /\ Engages(r, n) => queue'[n] = 0 /\ (Engages(at[w], n) \/ queue[n] > 0)
           /\ Holds(r, n) => Holds(at[w], n) \/ queue[n] > 0
           /\ queue'[n] <= 1 /\ (queue'[n] > 0 => queue[n] > 0 \/ Holds(at[w], n))
           /\ queue'[n] > 0 \/ Waits(r, n) <=> queue[n] > 0 \/ Waits(at[w], n)
           /\ \A m \in Nodes : Reaches(r, n, m) => Reaches(at[w], n, m) \/ Holds(at[w], n)
  PROVE  JInv'
<1>1. /\ SInv /\ Others /\ HandsFree /\ Once /\ Joined /\ Caused /\ Jumpless(graph)
      /\ at \in [Workers -> WorkerStates] /\ queue \in [Nodes -> Nat]
      /\ at'[w] = r /\ \A v \in Workers \ {w} : at'[v] = at[v]
  BY DEF JInv, SInv, Types
<1>2. HandsFree'
  BY <1>1 DEF HandsFree, Free
<1>3. Once'
  <2> SUFFICES ASSUME NEW n \in Nodes
               PROVE  /\ queue'[n] <= 1
                      /\ queue'[n] > 0 => n \in begun
                      /\ \A v \in Workers : Engages(at'[v], n) =>
                           /\ n \in begun /\ queue'[n] = 0
                           /\ \A u \in Workers : Engages(at'[u], n) => u = v
    BY DEF Once
  <2>1. queue'[n] <= 1 /\ queue[n] \in Nat /\ queue'[n] \in Nat
    BY <1>1
  <2>2. \A v \in Workers : Engages(at[v], n) =>
          n \in begun /\ queue[n] = 0 /\ \A u \in Workers : Engages(at[u], n) => u = v
    BY <1>1 DEF Once
  <2>3. queue[n] > 0 => n \in begun
    BY <1>1 DEF Once
  <2>4. Holds(at[w], n) => Engages(at[w], n)
    BY DEF Engages
  <2>5. queue'[n] > 0 => n \in begun
    BY <2>2, <2>3, <2>4
  <2>6. ASSUME NEW v \in Workers, Engages(at'[v], n)
        PROVE  n \in begun /\ queue'[n] = 0 /\ \A u \in Workers : Engages(at'[u], n) => u = v
    <3>1. CASE v = w
      <4>1. queue'[n] = 0 /\ (Engages(at[w], n) \/ queue[n] > 0)
        BY <1>1, <2>6, <3>1
      <4>2. \A u \in Workers \ {w} : ~Engages(at[u], n)
        BY <2>1, <2>2, <4>1
      <4> QED BY <1>1, <2>2, <2>3, <3>1, <4>1, <4>2
    <3>2. CASE v # w
      <4>1. n \in begun /\ queue[n] = 0 /\ ~Engages(at[w], n)
        BY <1>1, <2>2, <2>6, <3>2
      <4>2. ~Engages(r, n) /\ queue'[n] = 0
        BY <2>1, <2>4, <4>1
      <4> QED BY <1>1, <2>2, <2>6, <3>2, <4>1, <4>2
    <3> QED BY <3>1, <3>2
  <2> QED BY <2>1, <2>5, <2>6
<1>4. \A p \in Nodes, n \in Nodes : Passed(p, n) => Passed(p, n)'
  <2> SUFFICES ASSUME NEW p \in Nodes, NEW n \in Nodes, Passed(p, n) PROVE Passed(p, n)'
    OBVIOUS
  <2>1. /\ p \in begun /\ queue[p] = 0
        /\ \A v \in Workers : ~Holds(at[v], p) /\ ~Reaches(at[v], p, n)
    BY DEF Passed
  <2>2. queue'[p] = 0 /\ ~Holds(r, p) /\ ~Reaches(r, p, n)
    <3>1. queue'[p] \in Nat
      OBVIOUS
    <3> QED BY <2>1, <3>1
  <2> QED BY <1>1, <2>1, <2>2 DEF Passed
<1>5. \A n \in Nodes : Pending(n)' <=> Pending(n)
  BY <1>1 DEF Pending
<1>6. Sources' = Sources /\ \A n \in Nodes : Preds(n)' = Preds(n) /\ Arrived(n)' = Arrived(n)
  BY DEF Sources, Preds, Arrived
<1>7. graph.nodes \subseteq Nodes /\ \A n \in Nodes : Preds(n) \subseteq Nodes
  BY NoJumps
<1>8. Joined'
  <2>1. begun' \subseteq graph'.nodes /\ IF rounds' = 0 THEN begun' = {} ELSE Sources' \subseteq begun'
    BY <1>1, <1>6 DEF Joined
  <2>2. ASSUME NEW n \in begun \ Sources, NEW p \in Preds(n) PROVE Passed(p, n)'
    BY <1>1, <1>4, <1>7, <2>2 DEF Joined
  <2>3. ASSUME rounds > 0, NEW n \in graph.nodes \ begun
        PROVE  /\ join'[n] = Cardinality(Preds(n)) - Cardinality(Arrived(n))
               /\ Arrived(n) # Preds(n)
               /\ \A p \in Arrived(n) : Passed(p, n)'
    <3>1. /\ join[n] = Cardinality(Preds(n)) - Cardinality(Arrived(n))
          /\ Arrived(n) # Preds(n) /\ \A p \in Arrived(n) : Passed(p, n)
      BY <1>1, <2>3 DEF Joined
    <3>2. n \in Nodes /\ Arrived(n) \subseteq Nodes
      BY <1>7, <2>3 DEF Arrived
    <3> QED BY <1>4, <2>3, <3>1, <3>2
  <2>4. \A n \in Nodes : Preds(n)' = Preds(n) /\ Arrived(n)' = Arrived(n) /\ Preds(n) \subseteq Nodes
    BY <1>6, <1>7
  <2>5. \A n \in begun' \ Sources' : \A p \in Preds(n)' : Passed(p, n)'
    BY <1>1, <1>6, <2>2, <2>4 DEF Others
  <2>6. rounds' > 0 => \A n \in graph'.nodes \ begun' :
          /\ join'[n] = Cardinality(Preds(n)') - Cardinality(Arrived(n)')
          /\ Arrived(n)' # Preds(n)'
          /\ \A p \in Arrived(n)' : Passed(p, n)'
    BY <1>7, <2>3, <2>4
  <2> QED BY <2>1, <2>5, <2>6 DEF Joined
<1>9. Caused'
  <2>1. begun \subseteq Nodes
    BY <1>1 DEF Others
  <2> QED BY <1>1, <1>5, <1>6, <2>1 DEF Caused
<1> QED BY <1>1, <1>2, <1>3, <1>8, <1>9 DEF JInv, Jumpless

\* What the other variables hold.
LEMMA OthersKept == ASSUME JInv, NEW w \in Workers, Step(w) PROVE Others'
<1>1. /\ SInv /\ HandsFree /\ Types /\ NodeInHand
      /\ join \in [Nodes -> Int] /\ rounds \in 0..MaxRounds /\ failed \in BOOLEAN /\ stop \in BOOLEAN
      /\ jumps = 0 /\ excepted \subseteq Nodes /\ begun \subseteq Nodes
      /\ (excepted # {} => failed) /\ (parent = "new" => ~failed /\ rounds = 0)
  BY DEF JInv, SInv, Others
<1>2. MaxRounds \in Nat
  BY GraphAssumption
<1>3. /\ Jumps = {} /\ Sources \subseteq Nodes /\ \A n \in Nodes : JoinWeight(n) \in Nat
  BY NoJumps
<1>4. at[w].pc # "idle" /\ at[w].pc # "round" => parent = "preempted"
  BY <1>1, Busy
<1>5. at[w].pc = "round" => parent = "preempted"
  BY <1>1 DEF SInv, Turn
<1>6. at[w].pc \in {"body", "arrive"} => at[w].node \in Nodes
  BY <1>1 DEF NodeInHand
<1>7. at[w].todo \subseteq Nodes
  BY <1>1 DEF Types, WorkerStates
<1>8. CASE Launch(w)
  <2>1. join' \in [Nodes -> Int]
    BY <1>1, <1>3, <1>8 DEF Launch
  <2> QED BY <1>1, <1>8, <2>1 DEF Launch, history, Others
<1>9. CASE Finish(w)
  BY <1>1, <1>9 DEF Finish, history, Others
<1>10. CASE Round(w)
  <2>1. join' \in [Nodes -> Int]
    BY <1>1, <1>3, <1>10 DEF Round
  <2>2. rounds' \in 0..MaxRounds
    BY <1>1, <1>2, <1>10 DEF Round
  <2> QED BY <1>1, <1>3, <1>5, <1>10, <2>1, <2>2 DEF Round, Others
<1>11. CASE Take(w) \/ AddSlots(w) \/ Publish(w) \/ Release(w)
  BY <1>1, <1>11 DEF Take, AddSlots, Publish, Release, history, Others
<1>12. CASE Invoke(w)
  BY <1>1, <1>12 DEF Invoke, Others
<1>13. CASE Throw(w)
  <2>1. /\ at[w].pc = "body" /\ excepted' = excepted \cup {at[w].node} /\ failed' = TRUE
        /\ join' = [join EXCEPT ![at[w].node] = @ + JoinWeight(at[w].node)]
        /\ UNCHANGED <<rounds, parent, stop, jumps, begun>>
    BY <1>13 DEF Throw, history
  <2>2. join' \in [Nodes -> Int] /\ parent' = "preempted" /\ excepted' \subseteq Nodes
    BY <1>1, <1>3, <1>4, <1>6, <2>1
  <2> QED BY <1>1, <2>1, <2>2 DEF Others
<1>14. CASE Complete(w)
  <2>1. /\ at[w].pc = "body" /\ jumps' = jumps
        /\ join' = [join EXCEPT ![at[w].node] = @ + JoinWeight(at[w].node)]
        /\ UNCHANGED <<rounds, parent, stop, begun, failed, excepted>>
    BY <1>3, <1>14 DEF Complete, history
  <2>2. join' \in [Nodes -> Int]
    BY <1>1, <1>3, <1>6, <2>1
  <2> QED BY <1>1, <2>1, <2>2 DEF Others
<1>15. CASE Arrive(w)
  <2>1. PICK m \in at[w].todo : /\ join' = [join EXCEPT ![m] = @ - 1]
                                /\ begun' = IF join[m] = 1 THEN begun \cup {m} ELSE begun
    BY <1>15 DEF Arrive
  <2>2. /\ at[w].pc = "arrive" /\ UNCHANGED <<rounds, parent, stop, jumps, failed, excepted>>
    BY <1>15 DEF Arrive
  <2>3. join' \in [Nodes -> Int] /\ begun' \subseteq Nodes
    BY <1>1, <1>7, <2>1
  <2> QED BY <1>1, <2>2, <2>3 DEF Others
<1>16. CASE JumpTo(w)
  BY <1>1, <1>16 DEF JumpTo, HandsFree, Free
<1> QED BY <1>8, <1>9, <1>10, <1>11, <1>12, <1>13, <1>14, <1>15, <1>16 DEF Step

\* No worker that is not at it reaches anybody.
LEMMA NothingHeld ==
  ASSUME NEW r, Free(r), r.pc \in {"idle", "round", "release"}
  PROVE  \A n \in Nodes : /\ ~Engages(r, n) /\ ~Holds(r, n) /\ ~Waits(r, n)
                          /\ \A m \in Nodes : ~Reaches(r, n, m)
BY NilIsNoNode DEF Free, Engages, Holds, Waits, Reaches

\* The parent launched or finished, a slot given back.
LEMMA EmptyHandedStep ==
  ASSUME JInv, NEW w \in Workers, Launch(w) \/ Finish(w) \/ Release(w) PROVE JInv'
<1>1. /\ SInv' /\ Others'
  BY StepSInv, OthersKept DEF JInv, Step, Next
<1>2. /\ Free(at[w]) /\ queue \in [Nodes -> Nat] /\ at \in [Workers -> WorkerStates]
      /\ parent = "new" => rounds = 0
      /\ \A n \in Nodes : queue[n] <= 1
  BY DEF JInv, HandsFree, SInv, Types, Others, Once
<1>3. /\ at[w].pc \in {"idle", "round", "release"}
      /\ UNCHANGED <<graph, tokens, forced, begun, rounds, queue>>
      /\ rounds > 0 => \A n \in graph.nodes \ begun : join'[n] = join[n]
  BY <1>2 DEF Launch, Finish, Release, history
<1>4. \E r : at' = [at EXCEPT ![w] = r] /\ Free(r) /\ r.pc \in {"idle", "round", "release"}
  <2>1. CASE Launch(w)
    <3> DEFINE r == [at[w] EXCEPT !.pc = "round"]
    <3>1. at' = [at EXCEPT ![w] = r] /\ at[w].pc = "idle"
      BY <2>1 DEF Launch, Goto
    <3>2. Free(r) /\ r.pc = "round"
      BY <1>2, <3>1 DEF Free, WorkerStates, Pcs
    <3> HIDE DEF r
    <3> QED BY <3>1, <3>2
  <2>2. CASE Finish(w)
    <3>1. at' = [at EXCEPT ![w] = Idle] /\ Free(Idle) /\ Idle.pc = "idle"
      BY <2>2 DEF Finish, Free, Idle
    <3> QED BY <3>1
  <2>3. CASE Release(w)
    <3> DEFINE r == IF slots = 1 THEN [Idle EXCEPT !.pc = "round"] ELSE Idle
    <3>1. at' = [at EXCEPT ![w] = r]
      BY <2>3 DEF Release
    <3>2. Free(r) /\ r.pc \in {"idle", "round"}
      BY DEF Free, Idle
    <3> HIDE DEF r
    <3> QED BY <3>1, <3>2
  <2> QED BY <2>1, <2>2, <2>3
<1>5. PICK r : at' = [at EXCEPT ![w] = r] /\ Free(r) /\ r.pc \in {"idle", "round", "release"}
  BY <1>4
<1>6. \A n \in Nodes : /\ ~Engages(r, n) /\ ~Holds(r, n) /\ ~Waits(r, n)
                       /\ \A m \in Nodes : ~Reaches(r, n, m)
  BY <1>5, NothingHeld
<1>7. \A n \in Nodes : ~Waits(at[w], n)
  BY <1>2, <1>3, NothingHeld
<1>8. queue' \in [Nodes -> Nat] /\ queue' = queue
  BY <1>2, <1>3
<1> QED BY <1>1, <1>2, <1>3, <1>5, <1>6, <1>7, <1>8, Handover

\* Taking a node from a queue keeps the invariant of the rounds.
LEMMA TakeKeeps == ASSUME JInv, NEW w \in Workers, Take(w) PROVE JInv'
<1>1. PICK n \in Nodes : /\ queue[n] > 0 /\ queue' = [queue EXCEPT ![n] = @ - 1]
                         /\ at' = [at EXCEPT ![w] = Handed(n)]
  BY DEF Take
<1>2. /\ SInv' /\ Others'
  BY StepSInv, OthersKept DEF JInv, Step, Next
<1>3. /\ Free(at[w]) /\ queue \in [Nodes -> Nat] /\ \A m \in Nodes : queue[m] <= 1
      /\ at[w].pc = "idle" /\ UNCHANGED <<graph, tokens, forced, begun, rounds, join>>
  BY DEF JInv, HandsFree, SInv, Types, Once, Take, history
<1> DEFINE r == Handed(n)
<1>4. /\ Free(r) /\ Holds(r, n) /\ Waits(r, n)
      /\ \A m \in Nodes \ {n} : ~Engages(r, m) /\ ~Holds(r, m) /\ ~Waits(r, m)
      /\ \A m, p \in Nodes : ~Reaches(r, p, m)
  BY NilIsNoNode DEF Free, Handed, Idle, Engages, Holds, Waits, Reaches
<1>5. \A m \in Nodes : ~Waits(at[w], m)
  BY <1>3, NothingHeld
<1>6. /\ queue' \in [Nodes -> Nat] /\ queue'[n] = 0 /\ \A m \in Nodes \ {n} : queue'[m] = queue[m]
  BY <1>1, <1>3
<1>7. at' = [at EXCEPT ![w] = r]
  BY <1>1
<1> HIDE DEF r
<1>8. \A m \in Nodes :
        /\ Engages(r, m) => queue'[m] = 0 /\ (Engages(at[w], m) \/ queue[m] > 0)
        /\ Holds(r, m) => Holds(at[w], m) \/ queue[m] > 0
        /\ queue'[m] <= 1 /\ (queue'[m] > 0 => queue[m] > 0 \/ Holds(at[w], m))
        /\ queue'[m] > 0 \/ Waits(r, m) <=> queue[m] > 0 \/ Waits(at[w], m)
        /\ \A p \in Nodes : ~Reaches(r, m, p)
  BY <1>1, <1>3, <1>4, <1>5, <1>6
<1> QED BY <1>2, <1>3, <1>4, <1>6, <1>7, <1>8, Handover

\* The body ends: the node restores its own counter, to which no arrival
\* is to come in this round.
LEMMA EndKeeps == ASSUME JInv, NEW w \in Workers, Throw(w) \/ Complete(w) PROVE JInv'
<1> DEFINE n == at[w].node
<1>1. /\ SInv' /\ Others'
  BY StepSInv, OthersKept DEF JInv, Step, Next
<1>2. /\ Free(at[w]) /\ queue \in [Nodes -> Nat] /\ \A m \in Nodes : queue[m] <= 1
      /\ at[w].pc = "body" /\ n \in Nodes /\ at[w] \in WorkerStates /\ join \in [Nodes -> Int]
      /\ UNCHANGED <<graph, tokens, forced, begun, rounds, queue>>
      /\ join' = [join EXCEPT ![n] = @ + JoinWeight(n)]
      /\ graph.nodes \subseteq Nodes
  BY NoJumps DEF JInv, HandsFree, SInv, Types, NodeInHand, Once, Others, Throw, Complete, history
<1>3. n \in begun /\ queue[n] = 0
  BY <1>2 DEF JInv, Once, Engages, Holds
<1>4. at[w].cache = Nil /\ at[w].ready = {} /\ at[w].todo = {}
  BY <1>2 DEF Free
<1>5. \E r : /\ at' = [at EXCEPT ![w] = r] /\ Free(r) /\ r.pc \in {"release", "arrive"}
             /\ r.node = n /\ r.cache = Nil /\ r.ready = {}
  <2>1. CASE Throw(w)
    <3> DEFINE r == [at[w] EXCEPT !.pc = "release"]
    <3>1. at' = [at EXCEPT ![w] = r]
      BY <2>1 DEF Throw, Goto
    <3>2. Free(r) /\ r.pc = "release" /\ r.node = n /\ r.cache = Nil /\ r.ready = {}
      BY <1>2, <1>4 DEF Free, WorkerStates
    <3> HIDE DEF r
    <3> QED BY <3>1, <3>2
  <2>2. CASE Complete(w)
    <3>1. PICK S \in IF at[w].node \in excepted THEN {{}} ELSE Selections(at[w].node) :
            at' = [at EXCEPT ![w].todo = S,
                             ![w].pc = IF S = {} THEN "release"
                                       ELSE IF at[w].node \in Jumps THEN "force" ELSE "arrive"]
      BY <2>2 DEF Complete
    <3>2. S \subseteq graph.succ[n]
      BY <3>1 DEF Selections
    <3>3. Jumps = {}
      BY NoJumps
    <3> DEFINE r == [at[w] EXCEPT !.todo = S, !.pc = IF S = {} THEN "release" ELSE "arrive"]
    <3>4. at' = [at EXCEPT ![w] = r]
      BY <1>2, <3>1, <3>3 DEF WorkerStates
    <3>5. /\ r.pc = (IF S = {} THEN "release" ELSE "arrive") /\ r.todo = S
          /\ r.node = n /\ r.cache = Nil /\ r.ready = {}
      BY <1>2, <1>4 DEF WorkerStates
    <3> HIDE DEF r, n
    <3>6. Free(r)
      BY <1>2, <3>2, <3>5, NilIsNoNode DEF Free
    <3> QED BY <3>4, <3>5, <3>6
  <2> QED BY <2>1, <2>2
<1>6. PICK r : /\ at' = [at EXCEPT ![w] = r] /\ Free(r) /\ r.pc \in {"release", "arrive"}
               /\ r.node = n /\ r.cache = Nil /\ r.ready = {}
  BY <1>5
<1>7. Holds(at[w], n) /\ Engages(at[w], n) /\ \A m \in Nodes : ~Waits(at[w], m)
  BY <1>2, <1>4, NilIsNoNode DEF Holds, Engages, Waits
<1>8. \A m \in Nodes : ~Holds(r, m) /\ ~Waits(r, m) /\ (Engages(r, m) => m = n)
  BY <1>6, NilIsNoNode DEF Holds, Engages, Waits
<1>9. \A p, m \in Nodes : Reaches(r, p, m) => p = n
  BY <1>6 DEF Reaches
<1>10. \A m \in graph.nodes \ begun : join'[m] = join[m]
  BY <1>2, <1>3
<1> HIDE DEF n
<1>11. queue' \in [Nodes -> Nat] /\ queue' = queue
  BY <1>2
<1>12. \A m \in Nodes :
        /\ Engages(r, m) => queue'[m] = 0 /\ (Engages(at[w], m) \/ queue[m] > 0)
        /\ Holds(r, m) => Holds(at[w], m) \/ queue[m] > 0
        /\ queue'[m] <= 1 /\ (queue'[m] > 0 => queue[m] > 0 \/ Holds(at[w], m))
        /\ queue'[m] > 0 \/ Waits(r, m) <=> queue[m] > 0 \/ Waits(at[w], m)
        /\ \A p \in Nodes : Reaches(r, m, p) => Reaches(at[w], m, p) \/ Holds(at[w], m)
  BY <1>2, <1>3, <1>7, <1>8, <1>9, <1>11
<1> QED BY <1>1, <1>2, <1>6, <1>10, <1>11, <1>12, Handover

\* The ready nodes are counted, then queued.
LEMMA AddSlotsKeeps == ASSUME JInv, NEW w \in Workers, AddSlots(w) PROVE JInv'
<1> DEFINE r == [at[w] EXCEPT !.pc = "publish"]
<1>1. /\ SInv' /\ Others'
  BY StepSInv, OthersKept DEF JInv, Step, Next
<1>2. /\ Free(at[w]) /\ queue \in [Nodes -> Nat] /\ \A m \in Nodes : queue[m] <= 1
      /\ at[w].pc = "addSlots" /\ at[w] \in WorkerStates
      /\ \A m \in Nodes : Engages(at[w], m) => queue[m] = 0
      /\ UNCHANGED <<graph, tokens, forced, begun, rounds, queue, join>>
  BY DEF JInv, HandsFree, SInv, Types, Once, AddSlots, history
<1>3. at' = [at EXCEPT ![w] = r]
  BY DEF AddSlots, Goto
<1>4. /\ Free(r)
      /\ \A m \in Nodes :
           /\ Engages(r, m) <=> Engages(at[w], m)
           /\ Holds(r, m) <=> Holds(at[w], m)
           /\ Waits(r, m) <=> Waits(at[w], m)
           /\ \A p \in Nodes : ~Reaches(r, m, p)
  BY <1>2 DEF Free, Engages, Holds, Waits, Reaches, WorkerStates
<1> HIDE DEF r
<1>5. queue' \in [Nodes -> Nat] /\ queue' = queue
  BY <1>2
<1> QED BY <1>1, <1>2, <1>3, <1>4, <1>5, Handover

\* Publishing the ready successors keeps the invariant of the rounds.
LEMMA PublishKeeps == ASSUME JInv, NEW w \in Workers, Publish(w) PROVE JInv'
<1>1. PICK S \in (SUBSET at[w].ready) \ {{}} :
        /\ queue' = [n \in Nodes |-> IF n \in S THEN queue[n] + 1 ELSE queue[n]]
        /\ HandOut(w, at[w].cache, at[w].ready \ S)
  BY DEF Publish
<1>2. /\ SInv' /\ Others'
  BY StepSInv, OthersKept DEF JInv, Step, Next
<1>3. /\ Free(at[w]) /\ queue \in [Nodes -> Nat] /\ \A m \in Nodes : queue[m] <= 1
      /\ at[w].pc = "publish" /\ at[w] \in WorkerStates /\ at[w].cache \in Nodes
      /\ \A m \in Nodes : Engages(at[w], m) => queue[m] = 0
      /\ UNCHANGED <<graph, tokens, forced, begun, rounds, join>>
  BY DEF JInv, HandsFree, SInv, Types, NodeInHand, Once, Publish, history
<1> DEFINE c == at[w].cache
           R == at[w].ready \ S
           r == IF R = {} THEN Handed(c)
                ELSE [Idle EXCEPT !.pc = "publish", !.cache = c, !.ready = R]
<1>4. at' = [at EXCEPT ![w] = r]
  BY <1>1 DEF HandOut
<1>5. c \in Nodes /\ c \notin at[w].ready /\ S \subseteq at[w].ready /\ at[w].ready \subseteq Nodes
  BY <1>1, <1>3 DEF Free, WorkerStates
<1>6. \A m \in Nodes : /\ Holds(at[w], m) <=> m = c \/ m \in at[w].ready
                       /\ Waits(at[w], m) <=> m = c \/ m \in at[w].ready
                       /\ Engages(at[w], m) <=> m = c \/ m \in at[w].ready
  BY <1>3 DEF Holds, Waits, Engages
<1> HIDE DEF c
<1>7. /\ Free(r)
      /\ \A m \in Nodes : /\ Holds(r, m) <=> m = c \/ m \in R
                          /\ Waits(r, m) <=> m = c \/ m \in R
                          /\ Engages(r, m) <=> m = c \/ m \in R
                          /\ \A p \in Nodes : ~Reaches(r, m, p)
  <2>1. c \notin R /\ c \in Nodes
    BY <1>5
  <2>2. IF R = {} THEN /\ r.pc = "invoke" /\ r.node = c /\ r.cache = Nil /\ r.todo = {} /\ r.ready = {}
        ELSE /\ r.pc = "publish" /\ r.node = Nil /\ r.cache = c /\ r.todo = {} /\ r.ready = R
    <3> HIDE DEF R
    <3> QED BY DEF Handed, Idle
  <2> HIDE DEF R, r
  <2>3. Free(r)
    BY <2>1, <2>2, NilIsNoNode DEF Free
  <2>4. \A m \in Nodes : /\ Holds(r, m) <=> m = c \/ m \in R
                         /\ Waits(r, m) <=> m = c \/ m \in R
                         /\ Engages(r, m) <=> m = c \/ m \in R
                         /\ \A p \in Nodes : ~Reaches(r, m, p)
    BY <2>2, NilIsNoNode DEF Holds, Waits, Engages, Reaches
  <2> QED BY <2>3, <2>4
<1> HIDE DEF r
<1>8. \A m \in Nodes : /\ m \in at[w].ready => queue[m] = 0
                       /\ m = c => queue[m] = 0
                       /\ queue'[m] = IF m \in S THEN queue[m] + 1 ELSE queue[m]
  BY <1>1, <1>3, <1>6
<1>9. queue' \in [Nodes -> Nat]
  BY <1>1, <1>3
<1>10. ASSUME NEW m \in Nodes
       PROVE  /\ Engages(r, m) => queue'[m] = 0 /\ (Engages(at[w], m) \/ queue[m] > 0)
              /\ Holds(r, m) => Holds(at[w], m) \/ queue[m] > 0
              /\ queue'[m] <= 1 /\ (queue'[m] > 0 => queue[m] > 0 \/ Holds(at[w], m))
              /\ queue'[m] > 0 \/ Waits(r, m) <=> queue[m] > 0 \/ Waits(at[w], m)
              /\ \A p \in Nodes : ~Reaches(r, m, p)
  <2>1. m \in R <=> m \in at[w].ready /\ m \notin S
    OBVIOUS
  <2>2. m \in S => m \in at[w].ready /\ m # c
    BY <1>5
  <2>3. queue[m] \in Nat /\ queue[m] <= 1
    BY <1>3
  <2>4. queue'[m] = IF m \in S THEN 1 ELSE queue[m]
    BY <1>8, <2>2
  <2> HIDE DEF R
  <2> QED BY <1>6, <1>7, <1>8, <2>1, <2>2, <2>3, <2>4
<1>11. rounds > 0 => \A n \in graph.nodes \ begun : join'[n] = join[n]
  BY <1>3
<1>12. Free(r)
  BY <1>7
<1>13. UNCHANGED <<graph, tokens, forced, begun, rounds>>
  BY <1>3
<1>14. \A n \in Nodes :
        /\ Engages(r, n) => queue'[n] = 0 /\ (Engages(at[w], n) \/ queue[n] > 0)
        /\ Holds(r, n) => Holds(at[w], n) \/ queue[n] > 0
        /\ queue'[n] <= 1 /\ (queue'[n] > 0 => queue[n] > 0 \/ Holds(at[w], n))
        /\ queue'[n] > 0 \/ Waits(r, n) <=> queue[n] > 0 \/ Waits(at[w], n)
        /\ \A m \in Nodes : Reaches(r, n, m) => Reaches(at[w], n, m) \/ Holds(at[w], n)
  BY <1>10
<1> HIDE DEF R
<1> QED BY <1>2, <1>4, <1>9, <1>11, <1>12, <1>13, <1>14, Handover

\* A predicate of a node and one of those before it that has passed it.
LEMMA StaysPassed ==
  ASSUME JInv, NEW w \in Workers, NEW r, at' = [at EXCEPT ![w] = r], NEW p \in Nodes, NEW n \in Nodes,
         Passed(p, n), p \in begun', queue'[p] = 0, Holds(r, p) => Holds(at[w], p),
         Reaches(r, p, n) => Reaches(at[w], p, n)
  PROVE  Passed(p, n)'
<1>1. at \in [Workers -> WorkerStates]
  BY DEF JInv, SInv, Types
<1>2. at'[w] = r /\ \A v \in Workers \ {w} : at'[v] = at[v]
  BY <1>1
<1> QED BY <1>2 DEF Passed

\* A node is invoked: its activation uses the arrivals that caused it.
LEMMA InvokeKeeps == ASSUME JInv, NEW w \in Workers, Invoke(w) PROVE JInv'
<1>0. PICK n \in Nodes : n = at[w].node
  BY DEF JInv, SInv, NodeInHand, Invoke
<1> DEFINE r == [at[w] EXCEPT !.pc = IF stop /\ Inv(n).stoppable THEN "release" ELSE "body"]
<1>1. SInv' /\ Others'
  BY StepSInv, OthersKept DEF JInv, Step, Next
<1>2. /\ HandsFree /\ Free(at[w]) /\ queue \in [Nodes -> Nat] /\ Once /\ Joined /\ Caused /\ Jumpless(graph)
      /\ at[w].pc = "invoke" /\ at \in [Workers -> WorkerStates] /\ begun \subseteq Nodes
      /\ UNCHANGED <<graph, begun, rounds, queue, join>>
  BY DEF JInv, HandsFree, SInv, Types, NodeInHand, Others, Invoke
<1>3. at' = [at EXCEPT ![w] = r]
  BY <1>0 DEF Invoke, Goto
<1>4. at[w].cache = Nil /\ at[w].ready = {} /\ at[w].todo = {}
  BY <1>2 DEF Free
<1>5. Holds(at[w], n) /\ Waits(at[w], n) /\ Engages(at[w], n) /\ \A m \in Nodes \ {n} : ~Waits(at[w], m)
  BY <1>0, <1>2, <1>4, NilIsNoNode DEF Holds, Engages, Waits
<1>6. /\ r.pc \in {"release", "body"} /\ r.node = n /\ r.cache = Nil /\ r.ready = {} /\ r.todo = {}
  BY <1>0, <1>2, <1>4 DEF WorkerStates
<1>7. /\ n \in begun /\ queue[n] = 0 /\ \A v \in Workers \ {w} : ~Engages(at[v], n)
  BY <1>2, <1>5 DEF Once
<1> HIDE DEF r
<1>8. /\ Free(r)
      /\ \A m \in Nodes : /\ (Holds(r, m) => m = n) /\ (Engages(r, m) => m = n) /\ ~Waits(r, m)
                          /\ \A p \in Nodes : ~Reaches(r, m, p)
  BY <1>2, <1>6, NilIsNoNode DEF Free, Holds, Engages, Waits, Reaches
<1>9. at'[w] = r /\ \A v \in Workers \ {w} : at'[v] = at[v]
  BY <1>2, <1>3
<1>10. HandsFree'
  BY <1>2, <1>8, <1>9 DEF HandsFree, Free
<1>11. Once'
  BY <1>2, <1>5, <1>8, <1>9 DEF Once
<1>12. Pending(n) /\ ~Pending(n)' /\ \A m \in Nodes \ {n} : Pending(m)' <=> Pending(m)
  <2>1. Pending(n)
    BY <1>5 DEF Pending
  <2>2. \A v \in Workers \ {w} : ~Waits(at[v], n)
    BY <1>7 DEF Engages, Holds, Waits
  <2>3. ~Pending(n)'
    BY <1>2, <1>7, <1>8, <1>9, <2>2 DEF Pending
  <2>4. \A m \in Nodes \ {n} : Pending(m)' <=> Pending(m)
    BY <1>2, <1>5, <1>8, <1>9 DEF Pending
  <2> QED BY <2>1, <2>3, <2>4
<1>13. \A p \in Nodes, m \in Nodes : Passed(p, m) => Passed(p, m)'
  <2> SUFFICES ASSUME NEW p \in Nodes, NEW m \in Nodes, Passed(p, m) PROVE Passed(p, m)'
    OBVIOUS
  <2>1. p \in begun' /\ queue'[p] = 0
    BY <1>2 DEF Passed
  <2>2. (Holds(r, p) => Holds(at[w], p)) /\ ~Reaches(r, p, m)
    BY <1>5, <1>8
  <2> QED BY <1>3, <2>1, <2>2, StaysPassed
<1>14. Sources' = Sources /\ \A m \in Nodes : Preds(m)' = Preds(m)
  BY <1>2 DEF Sources, Preds
<1>15. \A m \in Nodes : Preds(m) \subseteq Nodes /\ StrongPreds(m) = Preds(m)
  BY NoJumps
<1>16. n \in Sources <=> n \in forced
  BY <1>2, <1>7, <1>12 DEF Caused
<1>17. n \notin Sources => Arrived(n) = Preds(n)
  BY <1>2, <1>7, <1>12 DEF Caused
<1>18. /\ forced' = forced \ {n}
       /\ \A p \in Nodes, m \in Nodes :
            tokens'[<<p, m>>] = IF m = n /\ p \in Preds(n) THEN 0 ELSE tokens[<<p, m>>]
       /\ tokens' \in [Nodes \X Nodes -> {0, 1}]
  <2>1. tokens \in [Nodes \X Nodes -> {0, 1}] /\ forced \subseteq Sources
    BY <1>2 DEF Caused
  <2>2. CASE n \in Sources
    <3>1. Preds(n) = {}
      BY <2>2 DEF Sources
    <3>2. forced' = forced \ {n} /\ tokens' = tokens
      BY <1>0, <1>16, <2>2 DEF Invoke
    <3> QED BY <2>1, <3>1, <3>2
  <2>3. CASE n \notin Sources
    <3>1. /\ tokens' = [e \in Nodes \X Nodes |-> IF e[2] = n /\ e[1] \in Preds(n) THEN tokens[e] - 1 ELSE tokens[e]]
          /\ forced' = forced /\ n \notin forced
      BY <1>0, <1>2, <1>15, <1>16, <2>3 DEF Invoke
    <3>2. \A p \in Preds(n) : tokens[<<p, n>>] = 1
      BY <1>17, <2>3 DEF Arrived
    <3>3. \A e \in Nodes \X Nodes : tokens'[e] = IF e[2] = n /\ e[1] \in Preds(n) THEN 0 ELSE tokens[e]
      BY <3>1, <3>2
    <3>4. \A p \in Nodes, m \in Nodes :
            tokens'[<<p, m>>] = IF m = n /\ p \in Preds(n) THEN 0 ELSE tokens[<<p, m>>]
      BY <3>3
    <3>5. tokens' \in [Nodes \X Nodes -> {0, 1}]
      BY <2>1, <3>1, <3>3
    <3> QED BY <3>1, <3>4, <3>5
  <2> QED BY <2>2, <2>3
<1>19. \A m \in Nodes \ {n} : Arrived(m)' = Arrived(m)
  BY <1>14, <1>15, <1>18 DEF Arrived
<1>20. Joined'
  <2>1. begun' \subseteq graph'.nodes /\ IF rounds' = 0 THEN begun' = {} ELSE Sources' \subseteq begun'
    BY <1>2, <1>14 DEF Joined
  <2>2. \A m \in begun' \ Sources' : \A p \in Preds(m)' : Passed(p, m)'
    BY <1>2, <1>13, <1>14, <1>15 DEF Joined
  <2>3. ASSUME rounds > 0, NEW m \in graph.nodes \ begun
        PROVE  /\ join'[m] = Cardinality(Preds(m)) - Cardinality(Arrived(m))
               /\ Arrived(m) # Preds(m) /\ \A p \in Arrived(m) : Passed(p, m)'
    <3>1. /\ join[m] = Cardinality(Preds(m)) - Cardinality(Arrived(m))
          /\ Arrived(m) # Preds(m) /\ \A p \in Arrived(m) : Passed(p, m)
      BY <1>2, <2>3 DEF Joined
    <3>2. m \in Nodes /\ Arrived(m) \subseteq Nodes
      BY <1>15, <2>3, NoJumps DEF Arrived
    <3> QED BY <1>2, <1>13, <3>1, <3>2
  <2>4. \A m \in graph.nodes \ begun : m \in Nodes \ {n}
    BY <1>7, NoJumps
  <2>5. rounds' > 0 => \A m \in graph'.nodes \ begun' :
          /\ join'[m] = Cardinality(Preds(m)') - Cardinality(Arrived(m)')
          /\ Arrived(m)' # Preds(m)' /\ \A p \in Arrived(m)' : Passed(p, m)'
    BY <1>2, <1>14, <1>19, <2>3, <2>4
  <2> QED BY <2>1, <2>2, <2>5 DEF Joined
<1>21. Caused'
  <2>1. rounds' = 0 => tokens' = [e \in Nodes \X Nodes |-> 0] /\ forced' = {}
    BY <1>2, <1>7 DEF Joined
  <2>2. ASSUME NEW m \in begun'
        PROVE  /\ Pending(m)' => IF m \in Sources' THEN m \in forced' ELSE Arrived(m)' = Preds(m)'
               /\ ~Pending(m)' => m \notin forced' /\ \A p \in Preds(m)' : tokens'[<<p, m>>] = 0
    <3>1. m \in Nodes /\ m \in begun
      BY <1>2, <2>2
    <3>2. CASE m = n
      BY <1>12, <1>14, <1>15, <1>18, <3>1, <3>2
    <3>3. CASE m # n
      <4>1. /\ Pending(m) => IF m \in Sources THEN m \in forced ELSE Arrived(m) = Preds(m)
            /\ ~Pending(m) => m \notin forced /\ \A p \in Preds(m) : tokens[<<p, m>>] = 0
        BY <1>2, <3>1 DEF Caused
      <4>2. \A p \in Preds(m) : tokens'[<<p, m>>] = tokens[<<p, m>>]
        BY <1>15, <1>18, <3>1, <3>3
      <4> QED BY <1>12, <1>14, <1>18, <1>19, <3>1, <3>3, <4>1, <4>2
    <3> QED BY <3>2, <3>3
  <2>3. forced' \subseteq Sources'
    BY <1>2, <1>14, <1>18 DEF Caused
  <2> QED BY <1>18, <2>1, <2>2, <2>3 DEF Caused
<1>22. Jumpless(graph)'
  BY <1>2 DEF Jumpless
<1> QED BY <1>1, <1>10, <1>11, <1>20, <1>21, <1>22 DEF JInv

\* When the parent goes on, nobody has a node.
LEMMA NobodyActive ==
  ASSUME JInv, NEW w \in Workers, at[w].pc = "round"
  PROVE  /\ parent = "preempted"
         /\ \A n \in Nodes : queue[n] = 0 /\ ~Pending(n)
         /\ \A v \in Workers : /\ at[v].pc \in {"idle", "round"} /\ at[v].cache = Nil
                               /\ at[v].ready = {} /\ at[v].todo = {} /\ at[v].node = Nil
<1>1. SInv /\ HandsFree
  BY DEF JInv
<1>2. slots = 0 /\ parent = "preempted"
  BY <1>1 DEF SInv, Turn
<1>3. \A v \in Workers : at[v].pc \in {"idle", "round"}
  BY <1>1, <1>2, Busy
<1>4. \A n \in Nodes : ~(queue[n] > 0) /\ queue[n] \in Nat
  BY <1>1, <1>2, Busy DEF SInv, Types
<1>5. \A v \in Workers : at[v].cache = Nil /\ at[v].ready = {} /\ at[v].todo = {} /\ at[v].node = Nil
  BY <1>1, <1>3 DEF HandsFree, Free
<1>6. \A n \in Nodes, v \in Workers : ~Waits(at[v], n)
  BY <1>3, <1>5, NilIsNoNode DEF Waits
<1> QED BY <1>2, <1>3, <1>4, <1>5, <1>6 DEF Pending

\* A round begins with the sources, whatever the last one left.
LEMMA RoundKeeps == ASSUME JInv, NEW w \in Workers, Round(w) PROVE JInv'
<1>1. PICK c \in Sources : HandOut(w, c, Sources \ {c})
  BY DEF Round
<1>2. SInv' /\ Others'
  BY StepSInv, OthersKept DEF JInv, Step, Next
<1>3. /\ at[w].pc = "round" /\ rounds \in Nat /\ rounds' = rounds + 1
      /\ join' = [n \in Nodes |-> IF n \in graph.nodes \ Sources THEN JoinWeight(n) ELSE join[n]]
      /\ tokens' = [e \in Nodes \X Nodes |-> 0]
      /\ forced' = Sources /\ begun' = Sources /\ UNCHANGED <<graph, queue>>
      /\ at \in [Workers -> WorkerStates] /\ Jumpless(graph)
      /\ HandsFree
  BY DEF JInv, SInv, Types, Others, Round
<1>4. /\ \A n \in Nodes : queue[n] = 0
      /\ \A v \in Workers : /\ at[v].pc \in {"idle", "round"} /\ at[v].cache = Nil
                            /\ at[v].ready = {} /\ at[v].todo = {} /\ at[v].node = Nil
  BY <1>3, NobodyActive
<1>5. /\ Sources \subseteq graph.nodes /\ graph.nodes \subseteq Nodes
      /\ \A n \in Nodes : /\ Preds(n) \subseteq Nodes /\ IsFiniteSet(Preds(n))
                          /\ JoinWeight(n) = Cardinality(Preds(n)) /\ JoinWeight(n) \in Nat
  BY NoJumps
<1> DEFINE R == Sources \ {c}
           r == IF R = {} THEN Handed(c)
                ELSE [Idle EXCEPT !.pc = "publish", !.cache = c, !.ready = R]
<1>6. at' = [at EXCEPT ![w] = r]
  BY <1>1 DEF HandOut
<1>7. /\ Free(r)
      /\ \A m \in Nodes : /\ Holds(r, m) <=> m \in Sources
                          /\ Waits(r, m) <=> m \in Sources
                          /\ Engages(r, m) <=> m \in Sources
                          /\ \A p \in Nodes : ~Reaches(r, m, p)
  <2>1. c \notin R /\ c \in Nodes /\ \A m \in Nodes : m \in Sources <=> m = c \/ m \in R
    BY <1>5
  <2>2. IF R = {} THEN /\ r.pc = "invoke" /\ r.node = c /\ r.cache = Nil /\ r.todo = {} /\ r.ready = {}
        ELSE /\ r.pc = "publish" /\ r.node = Nil /\ r.cache = c /\ r.todo = {} /\ r.ready = R
    <3> HIDE DEF R
    <3> QED BY DEF Handed, Idle
  <2> HIDE DEF R, r
  <2>3. Free(r)
    BY <2>1, <2>2, NilIsNoNode DEF Free
  <2>4. \A m \in Nodes : /\ Holds(r, m) <=> m \in Sources
                         /\ Waits(r, m) <=> m \in Sources
                         /\ Engages(r, m) <=> m \in Sources
                         /\ \A p \in Nodes : ~Reaches(r, m, p)
    BY <2>1, <2>2, NilIsNoNode DEF Holds, Waits, Engages, Reaches
  <2> QED BY <2>3, <2>4
<1> HIDE DEF r
<1>8. at'[w] = r /\ \A v \in Workers \ {w} : at'[v] = at[v]
  BY <1>3, <1>6
<1>9. \A v \in Workers, n \in Nodes : ~Engages(at[v], n)
  BY <1>4, NilIsNoNode DEF Engages, Holds
<1>10. HandsFree'
  BY <1>3, <1>7, <1>8 DEF HandsFree, Free
<1>11. Once'
  BY <1>3, <1>4, <1>7, <1>8, <1>9 DEF Once
<1>12. Sources' = Sources /\ \A n \in Nodes : Preds(n)' = Preds(n)
  BY <1>3 DEF Sources, Preds
<1>13. \A n \in Nodes : Arrived(n)' = {}
  BY <1>3, <1>5, <1>12 DEF Arrived
<1>14. Joined'
  <2>1. rounds' > 0 /\ rounds' # 0
    BY <1>3
  <2>2. ASSUME NEW n \in graph.nodes \ Sources
        PROVE  /\ join'[n] = Cardinality(Preds(n)') - Cardinality(Arrived(n)')
               /\ Arrived(n)' # Preds(n)' /\ Arrived(n)' = {}
    <3>1. n \in Nodes /\ Preds(n) # {}
      BY <1>5, <2>2 DEF Sources
    <3>2. join'[n] = JoinWeight(n)
      BY <1>3, <2>2, <3>1
    <3>3. Cardinality(Arrived(n)') = 0
      BY <1>13, <3>1, FS_EmptySet
    <3> QED BY <1>5, <1>12, <1>13, <3>1, <3>2, <3>3
  <2> QED BY <1>3, <1>5, <1>12, <2>1, <2>2 DEF Joined
<1>15. Caused'
  <2>1. ASSUME NEW n \in Sources PROVE Pending(n)' /\ n \in forced' /\ n \in Sources'
    BY <1>3, <1>5, <1>7, <1>8, <1>12, <2>1 DEF Pending
  <2>2. tokens' \in [Nodes \X Nodes -> {0, 1}] /\ forced' \subseteq Sources' /\ rounds' # 0
    BY <1>3, <1>12
  <2> QED BY <1>3, <2>1, <2>2 DEF Caused
<1>16. Jumpless(graph)'
  BY <1>3 DEF Jumpless
<1> QED BY <1>2, <1>10, <1>11, <1>14, <1>15, <1>16 DEF JInv

\* A node that is reached has not been activated in this round: the one that
\* reaches it has not passed it.
LEMMA TargetIsNew ==
  ASSUME JInv, NEW w \in Workers, at[w].pc = "arrive", NEW m \in at[w].todo
  PROVE  /\ at[w].node \in begun /\ at[w].node \in Nodes /\ queue[at[w].node] = 0
         /\ \A v \in Workers : Engages(at[v], at[w].node) => v = w
         /\ m \in graph.nodes \ begun /\ m \in Nodes /\ m \notin Sources /\ rounds > 0
         /\ at[w].node \in Preds(m) \ Arrived(m) /\ m # at[w].node
         /\ queue[m] = 0 /\ \A v \in Workers : ~Engages(at[v], m)
         /\ join[m] = Cardinality(Preds(m)) - Cardinality(Arrived(m))
<1>1. /\ Free(at[w]) /\ at[w].node \in Nodes /\ Once /\ Joined /\ rounds \in Nat /\ queue \in [Nodes -> Nat]
  BY DEF JInv, HandsFree, SInv, NodeInHand, Types, Others
<1>2. PICK p \in Nodes : p = at[w].node
  BY <1>1
<1>3. m \in graph.succ[p] /\ Engages(at[w], p) /\ Reaches(at[w], p, m)
  BY <1>1, <1>2 DEF Free, Engages, Reaches
<1>4. p \in begun /\ queue[p] = 0 /\ \A v \in Workers : Engages(at[v], p) => v = w
  BY <1>1, <1>3 DEF Once
<1>5. m \in graph.nodes /\ m \in Nodes /\ p \in Preds(m) /\ m \notin Sources
  <2>1. p \in graph.nodes
    BY <1>1, <1>4 DEF Joined
  <2> QED BY <1>2, <1>3, <2>1, NoJumps DEF Preds, Sources
<1>6. ~Passed(p, m)
  BY <1>3 DEF Passed
<1>7. m \notin begun
  BY <1>1, <1>5, <1>6 DEF Joined
<1>8. rounds > 0
  BY <1>1, <1>4 DEF Joined
<1>9. p \notin Arrived(m) /\ join[m] = Cardinality(Preds(m)) - Cardinality(Arrived(m))
  BY <1>1, <1>5, <1>6, <1>7, <1>8 DEF Joined
<1>10. queue[m] = 0 /\ \A v \in Workers : ~Engages(at[v], m)
  BY <1>1, <1>5, <1>7 DEF Once
<1> QED BY <1>2, <1>4, <1>5, <1>7, <1>8, <1>9, <1>10

\* What the scan leaves in hand.
LEMMA ScanResult ==
  ASSUME JInv, NEW w \in Workers, at[w].pc = "arrive",
         NEW m \in at[w].todo, NEW isReady \in BOOLEAN, Scan(w, m, isReady)
  PROVE  \E r : /\ at' = [at EXCEPT ![w] = r] /\ Free(r) /\ r.pc # "body"
                /\ \A x \in Nodes :
                     /\ Holds(r, x) <=> Holds(at[w], x) \/ (isReady /\ x = m)
                     /\ Waits(r, x) <=> Waits(at[w], x) \/ (isReady /\ x = m)
                     /\ Engages(r, x) => Engages(at[w], x) \/ (isReady /\ x = m)
                     /\ \A y \in Nodes : Reaches(r, x, y) <=> Reaches(at[w], x, y) /\ y # m
<1>1. PICK p \in Nodes : p = at[w].node
  BY DEF JInv, SInv, NodeInHand
<1>2. /\ at[w] \in WorkerStates /\ Free(at[w])
      /\ m \in Nodes /\ m # p /\ ~Engages(at[w], m)
  BY <1>1, TargetIsNew DEF JInv, SInv, Types, HandsFree
<1>3. /\ at[w].cache \in Nodes \cup {Nil} /\ (at[w].cache = Nil => at[w].ready = {})
      /\ at[w].cache \notin at[w].ready /\ p # at[w].cache /\ p \notin at[w].ready
      /\ at[w].todo \subseteq graph.succ[p] /\ m # at[w].cache /\ m \notin at[w].ready
      /\ at[w].ready \subseteq Nodes
  BY <1>1, <1>2 DEF Free, WorkerStates, Engages, Holds
<1> DEFINE todo == at[w].todo \ {m}
           cache == IF isReady /\ at[w].cache = Nil THEN m ELSE at[w].cache
           ready == IF isReady /\ at[w].cache # Nil THEN at[w].ready \cup {m} ELSE at[w].ready
<1>4. /\ cache \in Nodes \cup {Nil} /\ (cache = Nil => ready = {}) /\ cache \notin ready
      /\ p # cache /\ p \notin ready /\ todo \subseteq graph.succ[p] /\ ready \subseteq Nodes
      /\ todo \subseteq at[w].todo
  BY <1>2, <1>3, NilIsNoNode
<1>5. \A x \in Nodes :
        /\ Holds(at[w], x) <=> x = at[w].cache \/ x \in at[w].ready
        /\ Waits(at[w], x) <=> x = at[w].cache \/ x \in at[w].ready
        /\ Engages(at[w], x) <=> x = p \/ x = at[w].cache \/ x \in at[w].ready
        /\ \A y \in Nodes : Reaches(at[w], x, y) <=> x = p /\ y \in at[w].todo
  BY <1>1 DEF Holds, Waits, Engages, Reaches
<1>6. \A x \in Nodes : x = cache \/ x \in ready <=> x = at[w].cache \/ x \in at[w].ready \/ (isReady /\ x = m)
  BY <1>3, NilIsNoNode
<1>7. \E r : /\ at' = [at EXCEPT ![w] = r] /\ Free(r) /\ r.pc # "body"
             /\ \A x \in Nodes :
                  /\ Holds(r, x) <=> x = cache \/ x \in ready
                  /\ Waits(r, x) <=> x = cache \/ x \in ready
                  /\ Engages(r, x) => x = p \/ x = cache \/ x \in ready
                  /\ \A y \in Nodes : Reaches(r, x, y) <=> x = p /\ y \in todo
  <2>1. CASE todo # {}
    <3> DEFINE r == [at[w] EXCEPT !.todo = todo, !.cache = cache, !.ready = ready]
    <3>1. at' = [at EXCEPT ![w].todo = todo, ![w].cache = cache, ![w].ready = ready]
      BY <2>1 DEF Scan
    <3> HIDE DEF todo, cache, ready
    <3>2. at' = [at EXCEPT ![w] = r]
      BY <1>2, <3>1 DEF WorkerStates
    <3>3. r.pc = "arrive" /\ r.node = p /\ r.todo = todo /\ r.cache = cache /\ r.ready = ready
      BY <1>1, <1>2 DEF WorkerStates
    <3> HIDE DEF r
    <3>4. Free(r)
      BY <1>4, <3>3 DEF Free
    <3>5. \A x \in Nodes :
                  /\ Holds(r, x) <=> x = cache \/ x \in ready
                  /\ Waits(r, x) <=> x = cache \/ x \in ready
                  /\ Engages(r, x) => x = p \/ x = cache \/ x \in ready
                  /\ \A y \in Nodes : Reaches(r, x, y) <=> x = p /\ y \in todo
      BY <3>3 DEF Holds, Waits, Engages, Reaches
    <3> QED BY <3>2, <3>3, <3>4, <3>5
  <2>2. CASE todo = {}
    <3> DEFINE r == IF cache = Nil THEN [Idle EXCEPT !.pc = "release", !.node = at[w].node]
                    ELSE IF ready = {} THEN Handed(cache)
                    ELSE [Idle EXCEPT !.pc = "addSlots", !.cache = cache, !.ready = ready]
    <3>1. at' = [at EXCEPT ![w] = r]
      BY <2>2 DEF Scan, Scanned
    <3> HIDE DEF todo, cache, ready
    <3>2. /\ r.todo = {}
          /\ IF cache = Nil THEN r.pc = "release" /\ r.node = p /\ r.cache = Nil /\ r.ready = {}
             ELSE IF ready = {} THEN r.pc = "invoke" /\ r.node = cache /\ r.cache = Nil /\ r.ready = {}
             ELSE r.pc = "addSlots" /\ r.node = Nil /\ r.cache = cache /\ r.ready = ready
      BY <1>1 DEF Idle, Handed
    <3> HIDE DEF r
    <3>3. Free(r) /\ r.pc # "body"
      BY <1>4, <3>2, NilIsNoNode DEF Free
    <3>4. \A x \in Nodes :
                  /\ Holds(r, x) <=> x = cache \/ x \in ready
                  /\ Waits(r, x) <=> x = cache \/ x \in ready
                  /\ Engages(r, x) => x = p \/ x = cache \/ x \in ready
                  /\ \A y \in Nodes : Reaches(r, x, y) <=> x = p /\ y \in todo
      <4>1. CASE cache = Nil
        BY <1>4, <2>2, <3>2, <4>1, NilIsNoNode DEF Holds, Waits, Engages, Reaches
      <4>2. CASE cache # Nil /\ ready = {}
        BY <1>4, <2>2, <3>2, <4>2, NilIsNoNode DEF Holds, Waits, Engages, Reaches
      <4>3. CASE cache # Nil /\ ready # {}
        BY <1>4, <2>2, <3>2, <4>3, NilIsNoNode DEF Holds, Waits, Engages, Reaches
      <4> QED BY <4>1, <4>2, <4>3
    <3> QED BY <3>1, <3>3, <3>4
  <2> QED BY <2>1, <2>2
<1>8. PICK r : /\ at' = [at EXCEPT ![w] = r] /\ Free(r) /\ r.pc # "body"
               /\ \A x \in Nodes :
                    /\ Holds(r, x) <=> x = cache \/ x \in ready
                    /\ Waits(r, x) <=> x = cache \/ x \in ready
                    /\ Engages(r, x) => x = p \/ x = cache \/ x \in ready
                    /\ \A y \in Nodes : Reaches(r, x, y) <=> x = p /\ y \in todo
  BY <1>7
<1>9. \A y \in Nodes : y \in todo <=> y \in at[w].todo /\ y # m
  OBVIOUS
<1> HIDE DEF todo, cache, ready
<1>10. \A x \in Nodes :
         /\ Holds(r, x) <=> Holds(at[w], x) \/ (isReady /\ x = m)
         /\ Waits(r, x) <=> Waits(at[w], x) \/ (isReady /\ x = m)
         /\ Engages(r, x) => Engages(at[w], x) \/ (isReady /\ x = m)
         /\ \A y \in Nodes : Reaches(r, x, y) <=> Reaches(at[w], x, y) /\ y # m
  BY <1>5, <1>6, <1>8, <1>9
<1> QED BY <1>8, <1>10

\* The counter of a node that is reached still lacks this arrival; it is the
\* last when no other predecessor is to come.
LEMMA ArriveKeeps == ASSUME JInv, NEW w \in Workers, Arrive(w) PROVE JInv'
<1>1. PICK m \in at[w].todo :
        /\ join' = [join EXCEPT ![m] = @ - 1]
        /\ Scan(w, m, join[m] = 1)
        /\ tokens' = [tokens EXCEPT ![<<at[w].node, m>>] = @ + 1]
        /\ begun' = IF join[m] = 1 THEN begun \cup {m} ELSE begun
  BY DEF Arrive
<1>2. /\ at[w].pc = "arrive" /\ HandsFree /\ Once /\ Joined /\ Caused /\ Jumpless(graph)
      /\ UNCHANGED <<graph, rounds, queue, forced>>
      /\ at \in [Workers -> WorkerStates] /\ join \in [Nodes -> Int] /\ begun \subseteq Nodes
      /\ rounds \in Nat
  BY DEF JInv, SInv, Types, Others, Arrive
<1>3. PICK p \in Nodes : p = at[w].node
  BY <1>2, TargetIsNew
<1>4. /\ p \in begun /\ queue[p] = 0 /\ \A v \in Workers : Engages(at[v], p) => v = w
      /\ m \in graph.nodes \ begun /\ m \in Nodes /\ m \notin Sources /\ rounds > 0
      /\ p \in Preds(m) \ Arrived(m) /\ m # p
      /\ queue[m] = 0 /\ \A v \in Workers : ~Engages(at[v], m)
      /\ join[m] = Cardinality(Preds(m)) - Cardinality(Arrived(m))
  BY <1>2, <1>3, TargetIsNew
<1>5. SInv' /\ Others'
  BY StepSInv, OthersKept DEF JInv, Step, Next
<1>6. PICK isReady \in BOOLEAN : isReady <=> join[m] = 1
  OBVIOUS
<1>7. Scan(w, m, isReady)
  BY <1>1, <1>6, Zenon
<1>8. PICK r : /\ at' = [at EXCEPT ![w] = r] /\ Free(r) /\ r.pc # "body"
               /\ \A x \in Nodes :
                    /\ Holds(r, x) <=> Holds(at[w], x) \/ (isReady /\ x = m)
                    /\ Waits(r, x) <=> Waits(at[w], x) \/ (isReady /\ x = m)
                    /\ Engages(r, x) => Engages(at[w], x) \/ (isReady /\ x = m)
                    /\ \A y \in Nodes : Reaches(r, x, y) <=> Reaches(at[w], x, y) /\ y # m
  BY <1>2, <1>7, ScanResult
<1>9. at'[w] = r /\ \A v \in Workers \ {w} : at'[v] = at[v]
  BY <1>2, <1>8
<1>10. begun' = IF isReady THEN begun \cup {m} ELSE begun
  BY <1>1, <1>6
<1>11. HandsFree'
  BY <1>2, <1>8, <1>9 DEF HandsFree, Free
<1>12. Once'
  <2> SUFFICES ASSUME NEW x \in Nodes
               PROVE  /\ queue'[x] <= 1
                      /\ queue'[x] > 0 => x \in begun'
                      /\ \A v \in Workers : Engages(at'[v], x) =>
                           /\ x \in begun' /\ queue'[x] = 0
                           /\ \A u \in Workers : Engages(at'[u], x) => u = v
    BY DEF Once
  <2>1. CASE x = m
    BY <1>2, <1>4, <1>8, <1>9, <1>10, <2>1
  <2>2. CASE x # m
    BY <1>2, <1>8, <1>9, <1>10, <2>2 DEF Once
  <2> QED BY <2>1, <2>2
<1>13. \A q \in Nodes, x \in Nodes : Passed(q, x) => Passed(q, x)'
  <2> SUFFICES ASSUME NEW q \in Nodes, NEW x \in Nodes, Passed(q, x) PROVE Passed(q, x)'
    OBVIOUS
  <2>1. q \in begun /\ queue[q] = 0 /\ q # m
    BY <1>4 DEF Passed
  <2> QED BY <1>2, <1>8, <1>10, <2>1, StaysPassed
<1>14. Passed(p, m)'
  <2>1. ASSUME NEW v \in Workers PROVE ~Holds(at'[v], p) /\ ~Reaches(at'[v], p, m)
    <3>1. CASE v = w
      <4>1. ~Holds(at[w], p)
        BY <1>2, <1>3, NilIsNoNode DEF HandsFree, Free, Holds
      <4> QED BY <1>4, <1>8, <1>9, <3>1, <4>1
    <3>2. CASE v # w
      <4>1. ~Engages(at[v], p)
        BY <1>4, <3>2
      <4>2. ~Holds(at[v], p) /\ ~Reaches(at[v], p, m)
        BY <1>2, <4>1 DEF Engages, Reaches, HandsFree, Free
      <4> QED BY <1>9, <3>2, <4>2
    <3> QED BY <3>1, <3>2
  <2> QED BY <1>2, <1>4, <1>10, <2>1 DEF Passed
<1>15. Sources' = Sources /\ \A x \in Nodes : Preds(x)' = Preds(x)
  BY <1>2 DEF Sources, Preds
<1>16. \A x \in Nodes : Preds(x) \subseteq Nodes /\ IsFiniteSet(Preds(x))
  BY NoJumps
<1>17. /\ tokens' \in [Nodes \X Nodes -> {0, 1}]
       /\ \A q \in Nodes, x \in Nodes :
            tokens'[<<q, x>>] = IF q = p /\ x = m THEN 1 ELSE tokens[<<q, x>>]
  <2>1. tokens \in [Nodes \X Nodes -> {0, 1}] /\ <<p, m>> \in Nodes \X Nodes
    BY <1>2, <1>4 DEF Caused
  <2>2. tokens[<<p, m>>] = 0
    BY <1>4, <2>1 DEF Arrived
  <2>3. tokens' = [tokens EXCEPT ![<<p, m>>] = 1]
    BY <1>1, <1>3, <2>1, <2>2
  <2> QED BY <2>1, <2>3
<1>18. /\ Arrived(m)' = Arrived(m) \cup {p}
       /\ \A x \in Nodes \ {m} : Arrived(x)' = Arrived(x)
  BY <1>4, <1>15, <1>16, <1>17 DEF Arrived
<1>19. /\ Arrived(m) \subseteq Preds(m) /\ Arrived(m)' \subseteq Preds(m)
       /\ join'[m] = Cardinality(Preds(m)) - Cardinality(Arrived(m)')
       /\ isReady <=> Arrived(m)' = Preds(m)
  <2>1. Arrived(m) \in SUBSET Preds(m) /\ Arrived(m)' \in SUBSET Preds(m)
    BY <1>4, <1>18 DEF Arrived
  <2>2. IsFiniteSet(Arrived(m)) /\ IsFiniteSet(Arrived(m)') /\ IsFiniteSet(Preds(m))
    BY <1>4, <1>16, <2>1, FS_Subset
  <2>3. /\ Cardinality(Arrived(m)) \in Nat /\ Cardinality(Arrived(m)') \in Nat /\ Cardinality(Preds(m)) \in Nat
    BY <2>2, FS_CardinalityType
  <2>4. Cardinality(Arrived(m)') = Cardinality(Arrived(m)) + 1
    BY <1>4, <1>18, <2>2, FS_AddElement
  <2>5. join'[m] = join[m] - 1
    BY <1>1, <1>2, <1>4
  <2>6. Cardinality(Preds(m)) = Cardinality(Arrived(m)') => Arrived(m)' = Preds(m)
    BY <2>1, <2>2, FS_Subset
  <2>7. join'[m] = Cardinality(Preds(m)) - Cardinality(Arrived(m)')
    BY <1>4, <2>3, <2>4, <2>5
  <2>8. join[m] = 1 => Cardinality(Preds(m)) = Cardinality(Arrived(m)')
    BY <1>4, <2>3, <2>4
  <2>9. Cardinality(Preds(m)) = Cardinality(Arrived(m)') => join[m] = 1
    BY <1>4, <2>3, <2>4
  <2> QED BY <1>6, <2>1, <2>6, <2>7, <2>8, <2>9
<1>20. \A q \in Arrived(m)' : Passed(q, m)'
  <2>1. \A q \in Arrived(m) : Passed(q, m) /\ q \in Nodes
    BY <1>2, <1>4, <1>16, <1>19 DEF Joined
  <2> QED BY <1>4, <1>13, <1>14, <1>18, <2>1
<1>21. Joined'
  <2>1. begun' \subseteq graph'.nodes /\ rounds' # 0 /\ Sources' \subseteq begun'
    BY <1>2, <1>4, <1>10, <1>15 DEF Joined
  <2>2. ASSUME NEW x \in begun' \ Sources', NEW q \in Preds(x)' PROVE Passed(q, x)'
    <3>1. x \in Nodes /\ q \in Preds(x) /\ q \in Nodes /\ x \notin Sources
      BY <1>2, <1>4, <1>10, <1>15, <1>16, <2>2
    <3>2. CASE x \in begun
      BY <1>2, <1>13, <3>1, <3>2 DEF Joined
    <3>3. CASE x \notin begun
      <4>1. isReady /\ x = m
        BY <1>10, <2>2, <3>3
      <4> QED BY <1>19, <1>20, <3>1, <4>1
    <3> QED BY <3>2, <3>3
  <2>3. ASSUME NEW x \in graph'.nodes \ begun'
        PROVE  /\ join'[x] = Cardinality(Preds(x)') - Cardinality(Arrived(x)')
               /\ Arrived(x)' # Preds(x)' /\ \A q \in Arrived(x)' : Passed(q, x)'
    <3>1. x \in graph.nodes \ begun /\ x \in Nodes /\ Preds(x)' = Preds(x)
      BY <1>2, <1>10, <1>15, <2>3, NoJumps
    <3>2. CASE x = m
      BY <1>10, <1>19, <1>20, <2>3, <3>1, <3>2
    <3>3. CASE x # m
      <4>1. /\ join[x] = Cardinality(Preds(x)) - Cardinality(Arrived(x))
            /\ Arrived(x) # Preds(x) /\ \A q \in Arrived(x) : Passed(q, x)
        BY <1>2, <1>4, <3>1 DEF Joined
      <4>2. join'[x] = join[x] /\ Arrived(x)' = Arrived(x) /\ Arrived(x) \subseteq Nodes
        BY <1>1, <1>2, <1>16, <1>18, <3>1, <3>3 DEF Arrived
      <4> QED BY <1>13, <3>1, <4>1, <4>2
    <3> QED BY <3>2, <3>3
  <2> QED BY <2>1, <2>2, <2>3 DEF Joined
<1>22. Pending(m)' = isReady /\ \A x \in Nodes \ {m} : Pending(x)' <=> Pending(x)
  <2>1. \A v \in Workers : ~Waits(at[v], m)
    BY <1>4 DEF Engages, Holds, Waits
  <2>2. Pending(m)' <=> isReady
    BY <1>2, <1>4, <1>8, <1>9, <2>1 DEF Pending
  <2>3. \A x \in Nodes \ {m} : Pending(x)' <=> Pending(x)
    BY <1>2, <1>8, <1>9 DEF Pending
  <2> QED BY <2>2, <2>3 DEF Pending
<1>23. Caused'
  <2>1. forced' \subseteq Sources' /\ rounds' # 0
    BY <1>2, <1>4, <1>15 DEF Caused
  <2>2. ASSUME NEW x \in begun'
        PROVE  /\ Pending(x)' => IF x \in Sources' THEN x \in forced' ELSE Arrived(x)' = Preds(x)'
               /\ ~Pending(x)' => x \notin forced' /\ \A q \in Preds(x)' : tokens'[<<q, x>>] = 0
    <3>1. x \in Nodes
      BY <1>2, <1>4, <1>10, <2>2
    <3>2. CASE x = m
      <4>1. isReady
        BY <1>4, <1>10, <2>2, <3>2
      <4> QED BY <1>4, <1>15, <1>19, <1>22, <3>1, <3>2, <4>1
    <3>3. CASE x # m
      <4>1. x \in begun
        BY <1>10, <2>2, <3>3
      <4>2. \A q \in Preds(x) : tokens'[<<q, x>>] = tokens[<<q, x>>]
        BY <1>16, <1>17, <3>1, <3>3
      <4> QED BY <1>2, <1>15, <1>18, <1>22, <3>1, <3>3, <4>1, <4>2 DEF Caused
    <3> QED BY <3>2, <3>3
  <2> QED BY <1>17, <2>1, <2>2 DEF Caused
<1>24. Jumpless(graph)'
  BY <1>2 DEF Jumpless
<1> QED BY <1>5, <1>11, <1>12, <1>21, <1>23, <1>24 DEF JInv

\* Every step keeps the invariant of the rounds.
LEMMA StepJInv == JInv /\ [Next]_vars => JInv'
<1> SUFFICES ASSUME JInv, [Next]_vars PROVE JInv'
  OBVIOUS
<1>1. CASE RequestStop \/ UNCHANGED vars
  <2>1. SInv'
    BY StepSInv DEF JInv
  <2>2. UNCHANGED <<graph, join, slots, parent, rounds, queue, at, excepted, failed, jumps, tokens, forced, begun>>
        /\ (stop \in BOOLEAN => stop' \in BOOLEAN)
    BY <1>1 DEF RequestStop, vars, history
  <2>3. Others' /\ HandsFree' /\ Once' /\ Jumpless(graph)'
    BY <2>2 DEF JInv, Others, HandsFree, Free, Once, Jumpless
  <2>4. /\ Sources' = Sources
        /\ \A n : Preds(n)' = Preds(n) /\ Arrived(n)' = Arrived(n) /\ (Pending(n)' <=> Pending(n))
        /\ \A p, n : Passed(p, n)' <=> Passed(p, n)
    BY <2>2 DEF Sources, Preds, Arrived, Pending, Passed
  <2>5. Joined' /\ Caused'
    BY <2>2, <2>4 DEF JInv, Joined, Caused
  <2> QED BY <2>1, <2>3, <2>5 DEF JInv
<1>2. CASE \E w \in Workers : Step(w)
  <2>1. PICK w \in Workers : Step(w)
    BY <1>2
  <2>2. ~JumpTo(w)
    BY DEF JInv, HandsFree, Free, JumpTo
  <2> QED BY <2>1, <2>2, EmptyHandedStep, RoundKeeps, TakeKeeps, InvokeKeeps, EndKeeps, ArriveKeeps,
             AddSlotsKeeps, PublishKeeps DEF Step
<1> QED BY <1>1, <1>2 DEF Next

\* In a graph without jumps every active node is counted once in the parent's
\* counter, no node waits twice or runs on two workers, and the counters stay
\* within their types (executor.hpp, _tear_down_task and _schedule_parent).
THEOREM ActivatedOnce ==
  ASSUME \A g \in Graphs : Jumpless(g)
  PROVE  Spec => []ActivationsExact
<1>1. Spec => []JInv
  BY InitJInv, StepJInv, PTL DEF Spec
<1>2. JInv => ActivationsExact
  <2> SUFFICES ASSUME JInv PROVE ActivationsExact
    OBVIOUS
  <2>1. SInv /\ Types /\ Others /\ Once /\ Caused /\ Counted /\ SlotsConserved
    BY DEF JInv, SInv, Counted
  <2>2. TypeOK
    <3>1. slots \in Nat
      <4>1. Total(queue, Nodes) \in Nat /\ Total(Active, Workers) \in Nat
        BY <2>1, FS_CardinalityType DEF Counted, Total
      <4> QED BY <2>1, <4>1 DEF SlotsConserved
    <3>2. jumps \in 0..MaxJumps
      <4>1. MaxJumps \in Nat
        BY GraphAssumption
      <4> QED BY <2>1, <4>1 DEF Others
    <3>3. tokens \in [Nodes \X Nodes -> Nat]
      BY <2>1 DEF Caused
    <3>4. forced \subseteq Nodes
      BY <2>1, NoJumps DEF Caused
    <3> QED BY <2>1, <3>1, <3>2, <3>3, <3>4 DEF TypeOK, Types, Others, WorkerStates, Pcs
  <2>3. ActiveOnce
    <3> SUFFICES ASSUME NEW n \in Nodes PROVE Activations(n) <= 1
      BY DEF ActiveOnce
    <3> DEFINE H == {w \in Workers : Holds(at[w], n)}
    <3>1. Activations(n) = queue[n] + Cardinality(H)
      BY DEF Activations, Holds
    <3>2. queue[n] \in Nat /\ queue[n] <= 1
      BY <2>1 DEF Types, Once
    <3>3. CASE H = {}
      <4>1. Cardinality(H) = 0
        BY <3>3, FS_EmptySet
      <4> HIDE DEF H
      <4> QED BY <3>1, <3>2, <4>1
    <3>4. CASE H # {}
      <4>1. PICK w \in Workers : Holds(at[w], n)
        BY <3>4
      <4>2. queue[n] = 0 /\ \A v \in Workers : Holds(at[v], n) => v = w
        BY <2>1, <4>1 DEF Once, Engages
      <4>3. H = {w}
        BY <4>1, <4>2
      <4>4. Cardinality(H) = 1
        BY <4>3, FS_Singleton
      <4> HIDE DEF H
      <4> QED BY <3>1, <4>2, <4>4
    <3> QED BY <3>3, <3>4
  <2> QED BY <2>1, <2>2, <2>3 DEF ActivationsExact
<1> QED BY <1>1, <1>2, PTL

-----------------------------------------------------------------------------
(* Each step of the counters is one of the rounds, or none.                *)

Runs(r, n) == r.pc = "body" /\ r.node = n

\* The rounds are those of the same graph.
LEMMA SameGraph ==
  /\ Rounds!Jumps = Jumps /\ Rounds!Sources = Sources
  /\ \A n : Rounds!Preds(n) = Preds(n) /\ Rounds!StrongPreds(n) = StrongPreds(n)
<1>1. Rounds!Jumps = Jumps
  BY DEF Rounds!Jumps, Jumps, Inv
<1>2. \A n : Rounds!Preds(n) = Preds(n)
  BY DEF Rounds!Preds, Preds
<1>3. \A n : Rounds!StrongPreds(n) = StrongPreds(n)
  BY <1>1, <1>2 DEF Rounds!StrongPreds, StrongPreds
<1>4. Rounds!Sources = Sources
  BY <1>2 DEF Rounds!Sources, Sources
<1> QED BY <1>1, <1>2, <1>3, <1>4

\* Who runs, and who is still to be reached.
LEMMA Mapped ==
  /\ \A n : /\ n \in InBody <=> \E v \in Workers : Runs(at[v], n)
            /\ n \in InBody' <=> \E v \in Workers : Runs(at'[v], n)
  /\ \A n \in Nodes : \A m : /\ m \in Owes[n] <=> \E v \in Workers : Reaches(at[v], n, m)
                             /\ m \in Owes'[n] <=> \E v \in Workers : Reaches(at'[v], n, m)
  /\ Owes = [n \in Nodes |-> Owes[n]] /\ Owes' = [n \in Nodes |-> Owes'[n]]
<1>1. \A n : /\ n \in InBody <=> \E v \in Workers : Runs(at[v], n)
             /\ n \in InBody' <=> \E v \in Workers : Runs(at'[v], n)
  BY DEF InBody, Runs
<1>2. \A n \in Nodes : /\ Owes[n] = UNION {at[w].todo : w \in {v \in Workers : at[v].node = n}}
                       /\ Owes'[n] = UNION {at'[w].todo : w \in {v \in Workers : at'[v].node = n}}
  BY DEF Owes
<1>3. \A n \in Nodes : \A m : /\ m \in Owes[n] <=> \E v \in Workers : Reaches(at[v], n, m)
                              /\ m \in Owes'[n] <=> \E v \in Workers : Reaches(at'[v], n, m)
  BY <1>2 DEF Reaches
<1>4. Owes = [n \in Nodes |-> Owes[n]] /\ Owes' = [n \in Nodes |-> Owes'[n]]
  BY DEF Owes
<1> QED BY <1>1, <1>3, <1>4

\* A worker that neither was nor is at the successors of a node.
LEMMA OwesKept ==
  ASSUME HandsFree, HandsFree', NEW w \in Workers, \A v \in Workers \ {w} : at'[v] = at[v],
         at[w].pc # "arrive", at'[w].pc # "arrive"
  PROVE  Owes' = Owes
<1>1. at[w].todo = {} /\ at'[w].todo = {}
  BY DEF HandsFree, Free
<1>2. \A n \in Nodes : \A m : (\E v \in Workers : Reaches(at'[v], n, m)) <=> (\E v \in Workers : Reaches(at[v], n, m))
  BY <1>1 DEF Reaches
<1>3. \A n \in Nodes : \A m : m \in Owes'[n] <=> m \in Owes[n]
  BY <1>2, Mapped
<1>4. \A n \in Nodes : Owes'[n] = Owes[n]
  BY <1>3
<1> QED BY <1>4, Mapped

\* And neither did nor does run one.
LEMMA BodiesKept ==
  ASSUME NEW w \in Workers, \A v \in Workers \ {w} : at'[v] = at[v],
         at[w].pc # "body", at'[w].pc # "body"
  PROVE  InBody' = InBody
<1>1. \A n : (\E v \in Workers : Runs(at'[v], n)) <=> (\E v \in Workers : Runs(at[v], n))
  BY DEF Runs
<1>2. \A n : n \in InBody' <=> n \in InBody
  BY <1>1, Mapped
<1> QED BY <1>2

\* A node that runs or is about to has not been left by anybody else.
LEMMA RunsAlone ==
  ASSUME JInv, NEW w \in Workers, NEW n \in Nodes, at[w].pc \in {"invoke", "body"}, at[w].node = n
  PROVE  /\ \A v \in Workers \ {w} : ~Runs(at[v], n)
         /\ Owes[n] = {}
         /\ parent = "preempted" /\ rounds # 0 /\ n \in begun
<1>1. Engages(at[w], n)
  BY DEF Engages, Holds
<1>2. n \in begun /\ \A v \in Workers : Engages(at[v], n) => v = w
  BY <1>1 DEF JInv, Once
<1>3. \A v \in Workers \ {w} : ~Runs(at[v], n)
  BY <1>2 DEF Runs, Engages, Holds
<1>4. \A m : \A v \in Workers : ~Reaches(at[v], n, m)
  BY <1>2 DEF Reaches, Engages, JInv, HandsFree, Free
<1>5. Owes[n] = {}
  BY <1>4, Mapped
<1>6. parent = "preempted"
  BY Busy DEF JInv
<1> QED BY <1>2, <1>3, <1>5, <1>6 DEF JInv, Joined

\* A node that is to be invoked has been forced, or all its predecessors have
\* arrived.
LEMMA InvokedIsStartable ==
  ASSUME JInv, NEW w \in Workers, NEW n \in Nodes, at[w].pc = "invoke", at[w].node = n
  PROVE  Rounds!Startable(n)
<1>1. n \in begun /\ Pending(n) /\ Caused
  BY RunsAlone DEF JInv, Pending, Waits
<1>2. CASE n \in Sources
  BY <1>1, <1>2 DEF Caused, Rounds!Startable
<1>3. CASE n \notin Sources
  <2>1. Arrived(n) = Preds(n) /\ n \in graph.nodes
    BY <1>1, <1>3 DEF Caused, JInv, Joined
  <2>2. Preds(n) # {} /\ \A m \in Preds(n) : tokens[<<m, n>>] = 1
    BY <1>3, <2>1 DEF Arrived, Sources
  <2>3. Rounds!StrongPreds(n) = Preds(n)
    BY SameGraph, NoJumps
  <2> QED BY <2>2, <2>3 DEF Rounds!Startable
<1> QED BY <1>2, <1>3

\* When the parent goes on nothing runs and nothing can start.
LEMMA RoundIsQuiet ==
  ASSUME JInv, NEW w \in Workers, at[w].pc = "round" PROVE Rounds!Quiet
<1>1. /\ \A n \in Nodes : ~Pending(n)
      /\ \A v \in Workers : at[v].pc \in {"idle", "round"} /\ at[v].todo = {}
  BY NobodyActive
<1>2. InBody = {}
  <2>1. \A n : \A v \in Workers : ~Runs(at[v], n)
    BY <1>1 DEF Runs
  <2> QED BY <2>1, Mapped
<1>3. graph.nodes \subseteq Nodes /\ Caused /\ Joined /\ rounds \in Nat
  BY NoJumps DEF JInv, Others
<1>4. ASSUME NEW n \in graph.nodes PROVE Owes[n] = {} /\ ~Rounds!Startable(n)
  <2>1. n \in Nodes
    BY <1>3
  <2>2. Owes[n] = {}
    <3>1. \A m : \A v \in Workers : ~Reaches(at[v], n, m)
      BY <1>1 DEF Reaches
    <3> QED BY <2>1, <3>1, Mapped
  <2>3. Rounds!StrongPreds(n) = Preds(n) /\ Preds(n) \subseteq Nodes
    BY <2>1, SameGraph, NoJumps
  <2>4. n \notin forced /\ (Preds(n) = {} \/ \E m \in Preds(n) : tokens[<<m, n>>] = 0)
    <3>1. CASE rounds = 0
      BY <1>3, <2>1, <2>3, <3>1 DEF Caused
    <3>2. CASE rounds # 0 /\ n \in begun
      BY <1>1, <1>3, <2>1, <3>2 DEF Caused
    <3>3. CASE rounds # 0 /\ n \notin begun
      <4>1. n \notin Sources /\ n \notin forced
        BY <1>3, <3>3 DEF Joined, Caused
      <4>2. Arrived(n) # Preds(n)
        BY <1>3, <3>3 DEF Joined
      <4>3. PICK m \in Preds(n) : tokens[<<m, n>>] # 1
        BY <4>2 DEF Arrived
      <4>4. tokens[<<m, n>>] = 0
        BY <1>3, <2>1, <2>3, <4>3 DEF Caused
      <4> QED BY <4>1, <4>4
    <3> QED BY <3>1, <3>2, <3>3
  <2>5. Preds(n) = {} \/ ~(\A m \in Preds(n) : tokens[<<m, n>>] > 0)
    <3>1. CASE Preds(n) # {}
      <4>1. PICK m \in Preds(n) : tokens[<<m, n>>] = 0
        BY <2>4, <3>1
      <4>2. ~(tokens[<<m, n>>] > 0)
        BY <4>1
      <4> QED BY <4>2
    <3> QED BY <3>1
  <2> QED BY <2>2, <2>3, <2>4, <2>5 DEF Rounds!Startable
<1> QED BY <1>2, <1>4 DEF Rounds!Quiet

\* A worker that hands nodes on takes no part in the rounds.
LEMMA SilentStep ==
  ASSUME JInv, JInv', NEW w \in Workers,
         Launch(w) \/ Take(w) \/ AddSlots(w) \/ Publish(w) \/ Release(w)
  PROVE  UNCHANGED Rounds!grVars
<1>1. at \in [Workers -> WorkerStates] /\ HandsFree /\ HandsFree'
  BY DEF JInv, SInv, Types
<1>2. \E r : at' = [at EXCEPT ![w] = r] /\ r.pc \notin {"arrive", "body"}
  <2>1. CASE Launch(w) \/ AddSlots(w)
    <3>1. PICK pc \in {"round", "publish"} : at' = [at EXCEPT ![w].pc = pc]
      BY <2>1 DEF Launch, AddSlots, Goto
    <3> DEFINE r == [at[w] EXCEPT !.pc = pc]
    <3>2. at' = [at EXCEPT ![w] = r] /\ r.pc = pc
      BY <1>1, <3>1 DEF WorkerStates
    <3> HIDE DEF r
    <3> QED BY <3>1, <3>2
  <2>2. CASE Take(w)
    <3>1. PICK n \in Nodes : at' = [at EXCEPT ![w] = Handed(n)]
      BY <2>2 DEF Take
    <3>2. Handed(n).pc = "invoke"
      BY DEF Handed, Idle
    <3> QED BY <3>1, <3>2
  <2>3. CASE Publish(w)
    <3>1. PICK S : HandOut(w, at[w].cache, at[w].ready \ S)
      BY <2>3 DEF Publish
    <3> DEFINE c == at[w].cache
               R == at[w].ready \ S
               r == IF R = {} THEN Handed(c) ELSE [Idle EXCEPT !.pc = "publish", !.cache = c, !.ready = R]
    <3>2. at' = [at EXCEPT ![w] = r]
      BY <3>1 DEF HandOut
    <3> HIDE DEF R, c
    <3>3. r.pc \in {"invoke", "publish"}
      BY DEF Handed, Idle
    <3> HIDE DEF r
    <3> QED BY <3>2, <3>3
  <2>4. CASE Release(w)
    <3> DEFINE r == IF slots = 1 THEN [Idle EXCEPT !.pc = "round"] ELSE Idle
    <3>1. at' = [at EXCEPT ![w] = r] /\ r.pc \in {"idle", "round"}
      BY <2>4 DEF Release, Idle
    <3> HIDE DEF r
    <3> QED BY <3>1
  <2> QED BY <2>1, <2>2, <2>3, <2>4
<1>3. at'[w].pc \notin {"arrive", "body"} /\ \A v \in Workers \ {w} : at'[v] = at[v]
  BY <1>1, <1>2
<1>4. at[w].pc \notin {"arrive", "body"}
  BY DEF Launch, Take, AddSlots, Publish, Release
<1>5. Owes' = Owes /\ InBody' = InBody
  BY <1>1, <1>3, <1>4, OwesKept, BodiesKept
<1>6. /\ UNCHANGED <<graph, rounds, tokens, forced, stop>>
      /\ (parent' = "done") <=> (parent = "done")
      /\ excepted' = excepted
  <2>1. CASE Launch(w)
    <3>1. parent = "new" /\ excepted = {}
      BY <2>1 DEF Launch, JInv, Others
    <3> QED BY <2>1, <3>1 DEF Launch, history
  <2>2. CASE ~Launch(w)
    BY <2>2 DEF Take, AddSlots, Publish, Release, history
  <2> QED BY <2>1, <2>2
<1> QED BY <1>5, <1>6 DEF Rounds!grVars

\* A round begins, or the module ends, in quiet only.
LEMMA ParentSimulates ==
  ASSUME JInv, JInv', NEW w \in Workers, Round(w) \/ Finish(w)
  PROVE  Rounds!NewRound \/ Rounds!Finish
<1>1. at[w].pc = "round" /\ at \in [Workers -> WorkerStates] /\ HandsFree /\ HandsFree' /\ rounds \in Nat
  BY DEF Round, Finish, JInv, SInv, Types, Others
<1>2. Rounds!Quiet /\ parent = "preempted"
  BY <1>1, RoundIsQuiet, NobodyActive
<1>3. CASE Round(w)
  <2>1. PICK c \in Sources : HandOut(w, c, Sources \ {c})
    BY <1>3 DEF Round
  <2> DEFINE R == Sources \ {c}
             r == IF R = {} THEN Handed(c) ELSE [Idle EXCEPT !.pc = "publish", !.cache = c, !.ready = R]
  <2>2. at' = [at EXCEPT ![w] = r]
    BY <2>1 DEF HandOut
  <2> HIDE DEF R
  <2>3. r.pc \in {"invoke", "publish"}
    BY DEF Handed, Idle
  <2> HIDE DEF r
  <2>4. at'[w].pc \notin {"arrive", "body"} /\ \A v \in Workers \ {w} : at'[v] = at[v]
    BY <1>1, <2>2, <2>3
  <2>5. Owes' = Owes /\ InBody' = InBody
    BY <1>1, <2>4, OwesKept, BodiesKept
  <2>6. /\ ~stop /\ ~failed /\ rounds' = rounds + 1 /\ tokens' = [e \in Nodes \X Nodes |-> 0]
        /\ forced' = Sources /\ UNCHANGED <<graph, parent, stop, excepted>>
    BY <1>3 DEF Round, LastRound
  <2>7. excepted = {}
    BY <2>6 DEF JInv, Others
  <2>8. rounds' # 0 /\ parent # "done" /\ parent' # "done"
    BY <1>1, <1>2, <2>6
  <2> QED BY <1>2, <2>5, <2>6, <2>7, <2>8, SameGraph DEF Rounds!NewRound, Rounds!NoTokens
<1>4. CASE Finish(w)
  <2>1. /\ at' = [at EXCEPT ![w] = Idle] /\ parent' = "done"
        /\ UNCHANGED <<graph, tokens, forced, stop, excepted>>
    BY <1>4 DEF Finish, history
  <2>2. at'[w].pc \notin {"arrive", "body"} /\ \A v \in Workers \ {w} : at'[v] = at[v]
    BY <1>1, <2>1 DEF Idle
  <2>3. Owes' = Owes /\ InBody' = InBody
    BY <1>1, <2>2, OwesKept, BodiesKept
  <2> QED BY <1>2, <2>1, <2>3 DEF Rounds!Finish
<1> QED BY <1>3, <1>4

\* A node is started, or dropped after a stop request.
LEMMA InvokeSimulates ==
  ASSUME JInv, JInv', NEW w \in Workers, Invoke(w)
  PROVE  \E n \in Nodes : Rounds!Start(n) \/ Rounds!Drop(n)
<1>1. PICK n \in Nodes : n = at[w].node
  BY DEF Invoke, JInv, SInv, NodeInHand
<1>2. at[w].pc = "invoke" /\ at \in [Workers -> WorkerStates] /\ HandsFree /\ HandsFree'
  BY DEF Invoke, JInv, SInv, Types
<1>3. /\ \A v \in Workers \ {w} : ~Runs(at[v], n)
      /\ Owes[n] = {} /\ parent = "preempted" /\ rounds # 0 /\ Rounds!Startable(n)
  BY <1>1, <1>2, RunsAlone, InvokedIsStartable
<1>4. PICK pc \in {"release", "body"} : /\ pc = (IF stop /\ Inv(n).stoppable THEN "release" ELSE "body")
                                        /\ at' = [at EXCEPT ![w].pc = pc]
  BY <1>1 DEF Invoke, Goto
<1>5. at'[w].pc = pc /\ at'[w].node = n /\ \A v \in Workers \ {w} : at'[v] = at[v]
  BY <1>1, <1>2, <1>4 DEF WorkerStates
<1>6. Owes' = Owes
  BY <1>2, <1>4, <1>5, OwesKept
<1>7. UNCHANGED <<graph, parent, rounds, stop, excepted>> /\ Rounds!Use(n)
  <2>1. UNCHANGED <<graph, parent, rounds, stop, excepted>>
    BY DEF Invoke
  <2>2. IF n \in forced
        THEN forced' = forced \ {n} /\ UNCHANGED tokens
        ELSE /\ tokens' = [e \in Nodes \X Nodes |->
                             IF e[2] = n /\ e[1] \in StrongPreds(n) THEN tokens[e] - 1 ELSE tokens[e]]
             /\ UNCHANGED forced
    BY <1>1 DEF Invoke
  <2>3. StrongPreds(n) = Rounds!StrongPreds(n)
    BY SameGraph
  <2> QED BY <2>1, <2>2, <2>3 DEF Rounds!Use
<1>8. CASE pc = "release"
  <2>1. InBody' = InBody
    BY <1>2, <1>5, <1>8, BodiesKept
  <2>2. stop
    BY <1>4, <1>8
  <2>3. Rounds!Drop(n)
    BY <1>3, <1>6, <1>7, <2>1, <2>2 DEF Rounds!Drop
  <2> QED BY <2>3
<1>9. CASE pc = "body"
  <2>1. n \notin InBody
    BY <1>2, <1>3, Mapped DEF Runs
  <2>2. \A m : (\E v \in Workers : Runs(at'[v], m)) <=> m = n \/ (\E v \in Workers : Runs(at[v], m))
    BY <1>2, <1>5, <1>9 DEF Runs
  <2>3. InBody' = InBody \cup {n}
    <3>1. \A m : m \in InBody' <=> m \in InBody \cup {n}
      BY <2>2, Mapped
    <3> QED BY <3>1
  <2>4. Rounds!Start(n)
    BY <1>3, <1>6, <1>7, <2>1, <2>3 DEF Rounds!Start
  <2> QED BY <2>4
<1> QED BY <1>8, <1>9

\* The body ends with its choice of successors, or with an exception.
LEMMA EndSimulates ==
  ASSUME JInv, JInv', NEW w \in Workers, Throw(w) \/ Complete(w)
  PROVE  \E n \in Nodes : Rounds!Finished(n)
<1>1. PICK n \in Nodes : n = at[w].node
  BY DEF Throw, Complete, JInv, SInv, NodeInHand
<1>2. /\ at[w].pc = "body" /\ at \in [Workers -> WorkerStates] /\ HandsFree /\ HandsFree'
      /\ at[w].todo = {}
  BY DEF Throw, Complete, JInv, SInv, Types, HandsFree, Free
<1>3. (\A v \in Workers \ {w} : ~Runs(at[v], n)) /\ Owes[n] = {}
  BY <1>1, <1>2, RunsAlone
<1>4. UNCHANGED <<graph, parent, rounds, stop, tokens, forced>>
  BY DEF Throw, Complete, history
<1>5. ASSUME at'[w].pc # "body", \A v \in Workers \ {w} : at'[v] = at[v]
      PROVE  n \in InBody /\ InBody' = InBody \ {n}
  <2>1. \A m : (\E v \in Workers : Runs(at'[v], m)) <=> m # n /\ (\E v \in Workers : Runs(at[v], m))
    BY <1>1, <1>2, <1>3, <1>5 DEF Runs
  <2>2. \A m : m \in InBody' <=> m \in InBody \ {n}
    BY <2>1, Mapped
  <2>3. n \in InBody
    BY <1>1, <1>2, Mapped DEF Runs
  <2> QED BY <2>2, <2>3
<1>6. CASE Throw(w)
  <2>1. at' = [at EXCEPT ![w].pc = "release"] /\ excepted' = excepted \cup {n}
    BY <1>1, <1>6 DEF Throw, Goto
  <2>2. at'[w].pc = "release" /\ \A v \in Workers \ {w} : at'[v] = at[v]
    BY <1>2, <2>1 DEF WorkerStates
  <2>3. Owes' = Owes
    BY <1>2, <2>2, OwesKept
  <2>4. Rounds!Finished(n)
    BY <1>4, <1>5, <2>1, <2>2, <2>3 DEF Rounds!Finished
  <2> QED BY <2>4
<1>7. CASE Complete(w)
  <2>1. PICK S \in IF n \in excepted THEN {{}} ELSE Selections(n) :
          at' = [at EXCEPT ![w].todo = S,
                           ![w].pc = IF S = {} THEN "release"
                                     ELSE IF n \in Jumps THEN "force" ELSE "arrive"]
    BY <1>1, <1>7 DEF Complete
  <2>2. excepted' = excepted
    BY <1>7 DEF Complete
  <2>3. /\ at'[w].pc = (IF S = {} THEN "release" ELSE IF n \in Jumps THEN "force" ELSE "arrive")
        /\ at'[w].todo = S /\ at'[w].node = n /\ \A v \in Workers \ {w} : at'[v] = at[v]
    BY <1>1, <1>2, <2>1 DEF WorkerStates
  <2>4. n \in InBody /\ InBody' = InBody \ {n}
    BY <1>5, <2>3
  <2>5. CASE n \in excepted
    <3>1. at'[w].pc = "release"
      BY <2>1, <2>3, <2>5
    <3>2. Owes' = Owes
      BY <1>2, <2>3, <3>1, OwesKept
    <3>3. excepted' = excepted \cup {n}
      BY <2>2, <2>5
    <3>4. Rounds!Finished(n)
      BY <1>4, <2>4, <3>2, <3>3 DEF Rounds!Finished
    <3> QED BY <3>4
  <2>6. CASE n \notin excepted
    <3>1. S \in Rounds!Choices(n)
      <4> DEFINE selects == Inv(n).selects
      <4>1. S \in Selections(n)
        BY <2>1, <2>6
      <4>2. /\ S \in SUBSET graph.succ[n]
            /\ CASE selects = "all" -> S = graph.succ[n]
                 [] selects = "one" -> \A m, k \in S : m = k
                 [] OTHER -> TRUE
        BY <4>1 DEF Selections
      <4>3. selects = Invoker[graph.kind[n]].selects
        BY DEF Inv
      <4> HIDE DEF selects
      <4> QED BY <4>2, <4>3 DEF Rounds!Choices
    <3>2. \A v \in Workers : \A m : ~Reaches(at[v], n, m)
      BY <1>3, Mapped
    <3>3. ASSUME NEW k \in Nodes, NEW m
          PROVE  (\E v \in Workers : Reaches(at'[v], k, m)) <=>
                   IF k = n THEN m \in S ELSE \E v \in Workers : Reaches(at[v], k, m)
      <4>1. Reaches(at'[w], k, m) <=> k = n /\ m \in S
        BY <2>3 DEF Reaches
      <4>2. \A v \in Workers \ {w} : Reaches(at'[v], k, m) <=> Reaches(at[v], k, m)
        BY <2>3
      <4>3. ~Reaches(at[w], k, m)
        BY <1>2 DEF Reaches
      <4> QED BY <3>2, <4>1, <4>2, <4>3
    <3>4. \A k \in Nodes : Owes'[k] = IF k = n THEN S ELSE Owes[k]
      <4> SUFFICES ASSUME NEW k \in Nodes PROVE Owes'[k] = IF k = n THEN S ELSE Owes[k]
        OBVIOUS
      <4>1. \A m : m \in Owes'[k] <=> IF k = n THEN m \in S ELSE m \in Owes[k]
        BY <3>3, Mapped
      <4> QED BY <4>1
    <3>5. Owes' = [Owes EXCEPT ![n] = S]
      <4> DEFINE f == Owes
                 g == Owes'
      <4>1. f = [k \in Nodes |-> f[k]] /\ g = [k \in Nodes |-> g[k]]
        BY Mapped
      <4>2. \A k \in Nodes : g[k] = IF k = n THEN S ELSE f[k]
        BY <3>4
      <4> HIDE DEF f, g
      <4>3. g = [f EXCEPT ![n] = S]
        BY <4>1, <4>2
      <4> QED BY <4>3 DEF f, g
    <3>6. Rounds!Finished(n)
      BY <1>4, <2>2, <2>4, <2>6, <3>1, <3>5 DEF Rounds!Finished
    <3> QED BY <3>6
  <2> QED BY <2>5, <2>6
<1> QED BY <1>6, <1>7

\* One successor is reached.
LEMMA ArriveSimulates ==
  ASSUME JInv, JInv', NEW w \in Workers, Arrive(w)
  PROVE  \E n, m \in Nodes : Rounds!Arrival(n, m)
<1>1. PICK m \in at[w].todo :
        /\ Scan(w, m, join[m] = 1)
        /\ tokens' = [tokens EXCEPT ![<<at[w].node, m>>] = @ + 1]
  BY DEF Arrive
<1>2. at[w].pc = "arrive" /\ at \in [Workers -> WorkerStates] /\ HandsFree
  BY DEF Arrive, JInv, SInv, Types
<1>3. PICK n \in Nodes : n = at[w].node
  BY <1>2 DEF JInv, SInv, NodeInHand
<1>4. m \in Nodes /\ n \notin Jumps /\ \A v \in Workers : Engages(at[v], n) => v = w
  BY <1>2, <1>3, TargetIsNew, NoJumps
<1>5. PICK isReady \in BOOLEAN : isReady <=> join[m] = 1
  OBVIOUS
<1>6. Scan(w, m, isReady)
  BY <1>1, <1>5, Zenon
<1>7. PICK r : /\ at' = [at EXCEPT ![w] = r] /\ Free(r) /\ r.pc # "body"
               /\ \A x \in Nodes : \A y \in Nodes : Reaches(r, x, y) <=> Reaches(at[w], x, y) /\ y # m
  <2>1. \E r : /\ at' = [at EXCEPT ![w] = r] /\ Free(r) /\ r.pc # "body"
               /\ \A x \in Nodes :
                    /\ Holds(r, x) <=> Holds(at[w], x) \/ (isReady /\ x = m)
                    /\ Waits(r, x) <=> Waits(at[w], x) \/ (isReady /\ x = m)
                    /\ Engages(r, x) => Engages(at[w], x) \/ (isReady /\ x = m)
                    /\ \A y \in Nodes : Reaches(r, x, y) <=> Reaches(at[w], x, y) /\ y # m
    BY <1>2, <1>6, ScanResult
  <2> QED BY <2>1
<1>8. at'[w] = r /\ \A v \in Workers \ {w} : at'[v] = at[v]
  BY <1>2, <1>7
<1>9. InBody' = InBody
  BY <1>2, <1>7, <1>8, BodiesKept
<1>10. ASSUME NEW v \in Workers, NEW x \in Nodes, NEW y
       PROVE  /\ Reaches(at[v], x, y) => y \in Nodes
              /\ Reaches(at'[v], x, y) => y \in Nodes
  BY DEF Reaches, JInv, SInv, Types, WorkerStates
<1>11. ASSUME NEW x \in Nodes, NEW y
       PROVE  (\E v \in Workers : Reaches(at'[v], x, y)) <=>
                (\E v \in Workers : Reaches(at[v], x, y)) /\ (x = n => y # m)
  <2>1. CASE y \notin Nodes
    BY <1>4, <1>10, <2>1
  <2>2. CASE y \in Nodes /\ x = n
    <3>1. \A v \in Workers \ {w} : ~Reaches(at[v], n, y)
      BY <1>2, <1>4 DEF Reaches, Engages, HandsFree, Free
    <3>2. \A v \in Workers \ {w} : ~Reaches(at'[v], n, y)
      BY <1>8, <3>1
    <3>3. Reaches(at'[w], n, y) <=> Reaches(at[w], n, y) /\ y # m
      BY <1>7, <1>8, <2>2
    <3> QED BY <2>2, <3>1, <3>2, <3>3
  <2>3. CASE y \in Nodes /\ x # n
    <3>1. ~Reaches(at[w], x, y)
      BY <1>3, <2>3 DEF Reaches
    <3>2. ~Reaches(at'[w], x, y)
      BY <1>7, <1>8, <2>3, <3>1
    <3> QED BY <1>8, <2>3, <3>1, <3>2
  <2> QED BY <2>1, <2>2, <2>3
<1>12. m \in Owes[n]
  BY <1>3, Mapped DEF Reaches
<1>13. \A x \in Nodes : Owes'[x] = IF x = n THEN Owes[x] \ {m} ELSE Owes[x]
  <2> SUFFICES ASSUME NEW x \in Nodes PROVE Owes'[x] = IF x = n THEN Owes[x] \ {m} ELSE Owes[x]
    OBVIOUS
  <2>1. \A y : y \in Owes'[x] <=> y \in Owes[x] /\ (x = n => y # m)
    BY <1>11, Mapped
  <2> QED BY <2>1
<1>14. Owes' = [Owes EXCEPT ![n] = @ \ {m}]
  <2> DEFINE f == Owes
             g == Owes'
  <2>1. f = [k \in Nodes |-> f[k]] /\ g = [k \in Nodes |-> g[k]]
    BY Mapped
  <2>2. \A k \in Nodes : g[k] = IF k = n THEN f[k] \ {m} ELSE f[k]
    BY <1>13
  <2> HIDE DEF f, g
  <2>3. g = [f EXCEPT ![n] = @ \ {m}]
    BY <2>1, <2>2
  <2> QED BY <2>3 DEF f, g
<1>15. UNCHANGED <<graph, parent, rounds, stop, excepted, forced>>
  BY DEF Arrive
<1>16. Rounds!Arrival(n, m)
  BY <1>1, <1>3, <1>4, <1>9, <1>12, <1>14, <1>15, SameGraph DEF Rounds!Arrival
<1> QED BY <1>4, <1>16

\* Every activation of a node has its cause and every cause its activation:
\* where no node jumps, the two kinds of counter, the queues and the caches
\* implement rounds in which a node runs once for its predecessors' arrivals,
\* and none begins after a stop request or an exception (executor.hpp, _set_up_graph,
\* _tear_down_task, _schedule_parent).
THEOREM CountersImplementRounds ==
  ASSUME \A g \in Graphs : Jumpless(g)
  PROVE  Spec => ImplementsGraphRounds
<1>1. Spec => []JInv
  BY InitJInv, StepJInv, PTL DEF Spec
<1>2. Init => Rounds!GRInit
  <2> SUFFICES ASSUME Init PROVE Rounds!GRInit
    OBVIOUS
  <2>1. \A w \in Workers : at[w] = Idle
    BY DEF Init
  <2>2. InBody = {}
    <3>1. \A n : \A v \in Workers : ~Runs(at[v], n)
      BY <2>1 DEF Runs, Idle
    <3> QED BY <3>1, Mapped
  <2>3. Owes = [n \in Nodes |-> {}]
    <3>1. \A n \in Nodes : \A m : \A v \in Workers : ~Reaches(at[v], n, m)
      BY <2>1 DEF Reaches, Idle
    <3>2. \A n \in Nodes : Owes[n] = {}
      BY <3>1, Mapped
    <3> DEFINE f == Owes
    <3>3. f = [n \in Nodes |-> f[n]] /\ \A n \in Nodes : f[n] = {}
      BY <3>2, Mapped
    <3> HIDE DEF f
    <3>4. f = [n \in Nodes |-> {}]
      BY <3>3
    <3> QED BY <3>4 DEF f
  <2> QED BY <2>2, <2>3 DEF Init, Rounds!GRInit, Rounds!NoTokens
<1>3. JInv /\ JInv' /\ [Next]_vars => [Rounds!GRNext]_(Rounds!grVars)
  <2> SUFFICES ASSUME JInv, JInv', [Next]_vars PROVE [Rounds!GRNext]_(Rounds!grVars)
    OBVIOUS
  <2>1. CASE RequestStop \/ UNCHANGED vars
    <3>1. /\ UNCHANGED <<graph, parent, rounds, at, excepted, tokens, forced>>
          /\ stop' = TRUE \/ stop' = stop
      BY <2>1 DEF RequestStop, vars, history
    <3>2. Owes' = Owes /\ InBody' = InBody
      BY <3>1 DEF Owes, InBody
    <3>3. CASE stop' = TRUE
      <4>1. Rounds!Stop
        BY <3>1, <3>2, <3>3 DEF Rounds!Stop
      <4> QED BY <4>1 DEF Rounds!GRNext
    <3>4. CASE stop' = stop
      BY <3>1, <3>2, <3>4 DEF Rounds!grVars
    <3> QED BY <3>1, <3>3, <3>4
  <2>2. CASE \E w \in Workers : Step(w)
    <3>1. PICK w \in Workers : Step(w)
      BY <2>2
    <3>2. ~JumpTo(w)
      BY DEF JInv, HandsFree, Free, JumpTo
    <3>3. CASE Launch(w) \/ Take(w) \/ AddSlots(w) \/ Publish(w) \/ Release(w)
      BY <3>3, SilentStep
    <3>4. CASE Round(w) \/ Finish(w)
      BY <3>4, ParentSimulates DEF Rounds!GRNext
    <3>5. CASE Invoke(w)
      BY <3>5, InvokeSimulates DEF Rounds!GRNext
    <3>6. CASE Throw(w) \/ Complete(w)
      BY <3>6, EndSimulates DEF Rounds!GRNext
    <3>7. CASE Arrive(w)
      BY <3>7, ArriveSimulates DEF Rounds!GRNext
    <3> QED BY <3>1, <3>2, <3>3, <3>4, <3>5, <3>6, <3>7 DEF Step
  <2> QED BY <2>1, <2>2 DEF Next
<1> QED BY <1>1, <1>2, <1>3, PTL DEF Spec, ImplementsGraphRounds, Rounds!GRSpec

===============================================================================
