---------------------------- MODULE GraphBuilding ----------------------------
(***************************************************************************)
(* How clients build and edit their graphs: FlowBuilder, Flow, Graph and   *)
(* Task of src/taskflowlite/core/, with the edges of WorkEdges and the     *)
(* Works of ObjectPool.                                                    *)
(*                                                                         *)
(* A thread edits graphs of its own (the library asks for that), but all   *)
(* threads share the pool.  So whatever touches a graph only is one action *)
(* up to the next point at which it can fail or the pool is used; a call   *)
(* with several parts keeps in op[t].todo what it still has to do, and     *)
(* loses that when a part throws.                                          *)
(*                                                                         *)
(* Left out: precede<false>, which leaves the checks to its caller; null   *)
(* handles, which are asserted or ignored.                                 *)
(***************************************************************************)
EXTENDS ObjectPool, WorkEdges, FiniteSets

CONSTANTS
  Flows,
  FlowsOf,      \* the flows of each thread
  Semaphores,   \* their addresses
  Plans,        \* where a run begins and what its threads may call:
                \* [flows, types, taken, may, calls, vectors], see Init
  N, HeapBlocks, Default, Hollow, Absent, Elements, Ranges, MaxLength
                \* see VectorCalls

VARIABLES
  flow,     \* m_works of each flow's graph
  work,     \* the Work in each block
  op,       \* the call each thread is in
  left,     \* how many calls it may still make
  plan,
  jumped,   \* history: Works that were jumps once
  mem,      \* the two SmallVectors of a client
  contents  \* history: what they should hold

graphVars == <<flow, work, op, left, plan, jumped>>
vars == <<poolVars, flow, work, op, left, plan, jumped, mem, contents>>

\* The library keeps chosen targets in a SmallVector (branch.hpp:304).
V == INSTANCE VectorCalls

GraphKinds == {k \in Kinds : Invoker[k].tearDown = "node"}

\* A flow belongs to one thread at most, and the flows of a plan hold the Works
\* that its pool begins with, each once.
ASSUME BuildingAssumption ==
  /\ FlowsOf \in [Threads -> SUBSET Flows]
  /\ \A t, u \in Threads : t # u => FlowsOf[t] \cap FlowsOf[u] = {}
  /\ Nothing \notin Flows
  /\ Semaphores \subseteq Nat
  /\ \A p \in Plans :
       /\ p.taken \in [Buckets -> Nat]
       /\ \A k \in Buckets : p.taken[k] <= Len(Slabs[k][1])
       /\ p.flows \in [Flows -> Seq(Blocks)]
       /\ UNION {Range(p.flows[g]) : g \in Flows} = Taken(p.taken)
       /\ \A g, h \in Flows : \A i \in DOMAIN p.flows[g], j \in DOMAIN p.flows[h] :
            p.flows[g][i] = p.flows[h][j] => g = h /\ i = j
       /\ \A b \in Taken(p.taken) : p.types[b] \in GraphKinds
       /\ p.kinds \subseteq Seq(GraphKinds) \ {<<>>}

NoSearch == [pc |-> "none", stack |-> <<>>, visited |-> {}]
NoChoice == [work |-> None, targets |-> <<>>]
NoOp == [todo |-> <<>>, made |-> None, search |-> NoSearch, choice |-> NoChoice]

WorksOf(t) == UNION {Range(flow[g]) : g \in FlowsOf[t]}

\* A run begins in a plan: with flows that hold Works of given types and no
\* edges yet.
Init ==
  /\ plan \in Plans
  /\ flow = plan.flows
  /\ PoolInit(plan.taken)
  /\ work = [b \in Blocks |->
               IF b \in live
               THEN Created(CHOOSE g \in Flows : b \in Range(flow[g]), plan.types[b])
               ELSE NoWork]
  /\ op = [t \in Threads |-> NoOp]
  /\ left = plan.calls
  /\ jumped = {b \in live : IsJump(work[b])}
  /\ V!VectorInit(plan.vectors)

-----------------------------------------------------------------------------
(* Calls.                                                                  *)

\* t begins a call of the group called name.
Calls(t, name) ==
  /\ op[t] = NoOp
  /\ call[t] = Idle
  /\ left[t] > 0
  /\ name \in plan.may[t]
  /\ left' = [left EXCEPT ![t] = @ - 1]
  /\ UNCHANGED plan

\* A call with several parts.
Does(t, todo) ==
  /\ op' = [op EXCEPT ![t].todo = todo]
  /\ UNCHANGED <<poolVars, flow, work, jumped>>

\* A call with one part, which makes f of the Works.
Edits(f) ==
  /\ work' = f
  /\ UNCHANGED <<poolVars, flow, op, jumped>>

Part(t, do) ==
  /\ op[t].todo # <<>>
  /\ Head(op[t].todo).do = do
  /\ call[t] = Idle

\* The current part of t is done; the others follow.
PartDone(t) ==
  op' = [op EXCEPT ![t] = [NoOp EXCEPT !.todo = Tail(op[t].todo)]]

\* It throws; the others are dropped.
Unwind(t) == op' = [op EXCEPT ![t] = NoOp]

-----------------------------------------------------------------------------
(* New Works.                                                              *)

\* FlowBuilder::emplace with one callable or several.
Emplace(t) ==
  /\ Calls(t, "emplace")
  /\ \E g \in FlowsOf[t], kinds \in plan.kinds :
       Does(t, [i \in DOMAIN kinds |-> [do |-> "make", flow |-> g, kind |-> kinds[i]]])

\* FlowBuilder::emplace_object: one callable, constructed where it stays.
EmplaceObject(t) ==
  /\ Calls(t, "emplace")
  /\ \E g \in FlowsOf[t], kinds \in plan.kinds :
       Does(t, <<[do |-> "make", flow |-> g, kind |-> Head(kinds)]>>)

\* create_work: a block of the pool,
MakeWork(t) ==
  /\ Part(t, "make")
  /\ op[t].made = None
  /\ Create(t)
  /\ UNCHANGED graphVars

\* and a Work in it whose payload holds a copy of the callable.
ConstructWork(t) ==
  LET part == Head(op[t].todo)  b == call[t].block
  IN  /\ Construct(t)
      /\ work' = [work EXCEPT ![b] = Created(part.flow, part.kind)]
      /\ jumped' = IF IsJump(work'[b]) THEN jumped \cup {b} ELSE jumped \ {b}
      /\ op' = [op EXCEPT ![t].made = b]
      /\ UNCHANGED <<flow, left, plan>>

CopyThrows(t) ==
  /\ ConstructThrows(t)
  /\ Unwind(t)
  /\ UNCHANGED <<flow, work, left, plan, jumped>>

CreateThrows(t) ==
  /\ NoMemory(t)
  /\ Unwind(t)
  /\ UNCHANGED <<flow, work, left, plan, jumped>>

\* Graph::emplace: the graph owns the Work,
Adopt(t) ==
  /\ Part(t, "make")
  /\ op[t].made # None
  /\ flow' = [flow EXCEPT ![Head(op[t].todo).flow] = Append(@, op[t].made)]
  /\ PartDone(t)
  /\ UNCHANGED <<poolVars, work, left, plan, jumped>>

\* or its array cannot grow and the Work is destroyed.
AdoptThrows(t) ==
  /\ Part(t, "make")
  /\ op[t].made # None
  /\ Destroy(t, op[t].made)
  /\ work' = [work EXCEPT ![op[t].made] = NoWork]
  /\ Unwind(t)
  /\ UNCHANGED <<flow, left, plan, jumped>>

-----------------------------------------------------------------------------
(* The end of Works.                                                       *)

\* Graph::extract: a Work without edges, and the last one in its place.
Extracted(f, w) == ClearSuccessors(ClearPredecessors(f, w), w)

RemovedFrom(works, w) == Front([works EXCEPT ![IndexOf(works, w)] = Last(works)])

\* FlowBuilder::erase.
Erase(t) ==
  /\ Calls(t, "erase")
  /\ \E g \in FlowsOf[t] : \E w \in Range(flow[g]) :
       /\ flow' = [flow EXCEPT ![g] = RemovedFrom(@, w)]
       /\ work' = [Extracted(work, w) EXCEPT ![w] = NoWork]
       /\ Destroy(t, w)
  /\ UNCHANGED <<op, jumped>>

Destructions(g) ==
  [i \in DOMAIN flow[g] |-> [do |-> "destroy", work |-> flow[g][i]]]
    \o <<[do |-> "empty", flow |-> g]>>

\* Graph::clear, also at the end of a Flow.
Clear(t) ==
  /\ Calls(t, "clear")
  /\ \E g \in FlowsOf[t] : Does(t, Destructions(g))

\* Flow::operator=(Flow&&), and the constructor when the target is empty.
Move(t) ==
  /\ Calls(t, "move")
  /\ \E g, h \in FlowsOf[t] :
       /\ g # h
       /\ Does(t, Destructions(g) \o <<[do |-> "take", flow |-> g, from |-> h]>>)

DestroyWork(t) ==
  LET w == Head(op[t].todo).work
  IN  /\ Part(t, "destroy")
      /\ Destroy(t, w)
      /\ work' = [work EXCEPT ![w] = NoWork]
      /\ PartDone(t)
      /\ UNCHANGED <<flow, left, plan, jumped>>

Forget(t) ==
  /\ Part(t, "empty")
  /\ flow' = [flow EXCEPT ![Head(op[t].todo).flow] = <<>>]
  /\ PartDone(t)
  /\ UNCHANGED <<poolVars, work, left, plan, jumped>>

\* Mutant: the Works still refer to the graph they were made in.
TakeOverUnbound(t) ==
  LET part == Head(op[t].todo)
  IN  /\ Part(t, "take")
      /\ flow' = [flow EXCEPT ![part.flow] = flow[part.from], ![part.from] = <<>>]
      /\ PartDone(t)
      /\ UNCHANGED <<poolVars, work, left, plan, jumped>>

\* rebind: every Work learns of its new graph.
TakeOver(t) ==
  LET part == Head(op[t].todo)
  IN  /\ Part(t, "take")
      /\ flow' = [flow EXCEPT ![part.flow] = flow[part.from], ![part.from] = <<>>]
      /\ work' = [b \in Blocks |->
                    IF b \in Range(flow[part.from])
                    THEN [work[b] EXCEPT !.graph = part.flow] ELSE work[b]]
      /\ PartDone(t)
      /\ UNCHANGED <<poolVars, left, plan, jumped>>

-----------------------------------------------------------------------------
(* Edges.                                                                  *)

\* A search asks every Work it meets for its type; one whose replacement
\* failed has none, and the client must not connect its graph.
AllTyped(t) == \A w \in WorksOf(t) : work[w].type # Nothing

EdgesOf(pairs) == [i \in DOMAIN pairs |-> [do |-> "connect", from |-> pairs[i][1], to |-> pairs[i][2]]]

\* Task::precede.
Precede(t) ==
  /\ Calls(t, "connect") /\ AllTyped(t)
  /\ \E u, v, w \in WorksOf(t) : Does(t, EdgesOf(<<<<u, v>>, <<u, w>>>>))

\* Task::succeed.
Succeed(t) ==
  /\ Calls(t, "connect") /\ AllTyped(t)
  /\ \E u, v, w \in WorksOf(t) : Does(t, EdgesOf(<<<<v, u>>, <<w, u>>>>))

\* FlowBuilder::linearize.
Linearize(t) ==
  /\ Calls(t, "connect") /\ AllTyped(t)
  /\ \E u, v, w \in WorksOf(t) : Does(t, EdgesOf(<<<<u, v>>, <<v, w>>>>))

\* _precede begins with _can_precede.
Check(t) ==
  LET part == Head(op[t].todo)
      verdict == MayPrecede(work, part.from, part.to)
  IN  /\ Part(t, "connect")
      /\ op[t].search = NoSearch
      /\ CASE verdict = "refused" -> Unwind(t)
           [] verdict = "fine" -> op' = [op EXCEPT ![t].search.pc = "fine"]
           [] OTHER -> op' = [op EXCEPT ![t].search =
                [pc |-> "search", stack |-> <<part.to>>, visited |-> {part.to}]]
      /\ UNCHANGED <<poolVars, flow, work, left, plan, jumped>>

\* _has_path_without_jump, for a path from the new edge's end to its origin.
Search(t) ==
  LET part == Head(op[t].todo)  s == op[t].search
  IN  /\ Part(t, "connect")
      /\ s.pc = "search"
      /\ op' = [op EXCEPT ![t].search =
           IF s.stack = <<>> THEN [NoSearch EXCEPT !.pc = "noPath"]
           ELSE IF part.from \in Range(Successors(work[Last(s.stack)]))
           THEN [NoSearch EXCEPT !.pc = "path"]
           ELSE Expand(work, s)]
      /\ UNCHANGED <<poolVars, flow, work, left, plan, jumped>>

\* A path would close a strict cycle: the edge is refused.
RefuseCycle(t) ==
  /\ Part(t, "connect")
  /\ op[t].search.pc = "path"
  /\ Unwind(t)
  /\ UNCHANGED <<poolVars, flow, work, left, plan, jumped>>

Connect(t) ==
  LET part == Head(op[t].todo)
  IN  /\ Part(t, "connect")
      /\ op[t].search.pc \in {"fine", "noPath"}
      /\ work' = Connected(work, part.from, part.to)
      /\ PartDone(t)
      /\ UNCHANGED <<poolVars, flow, left, plan, jumped>>

\* One of the two arrays cannot grow.
ConnectThrows(t) ==
  LET part == Head(op[t].todo)
  IN  /\ Part(t, "connect")
      /\ op[t].search.pc \in {"fine", "noPath"}
      /\ work' \in Unconnected(work, part.from, part.to)
      /\ Unwind(t)
      /\ UNCHANGED <<poolVars, flow, left, plan, jumped>>

\* Task::remove_successor, and remove_predecessor the other way round.
Disconnect(t) ==
  /\ Calls(t, "disconnect")
  /\ \E u, v \in WorksOf(t) : Edits(RemoveSuccessor(work, u, v))

DropPredecessors(t) ==
  /\ Calls(t, "disconnect")
  /\ \E w \in WorksOf(t) : Edits(ClearPredecessors(work, w))

DropSuccessors(t) ==
  /\ Calls(t, "disconnect")
  /\ \E w \in WorksOf(t) : Edits(ClearSuccessors(work, w))

-----------------------------------------------------------------------------
(* What a Work does and asks for.                                          *)

\* The payload of w becomes one of type k.  The edges stay whatever k is.
Becomes(w, k) ==
  /\ work' = [work EXCEPT ![w].type = k]
  /\ jumped' = IF IsJump(work'[w]) THEN jumped \cup {w} ELSE jumped
  /\ UNCHANGED <<poolVars, flow, op>>

NewTypes == UNION {Range(kinds) : kinds \in plan.kinds}

\* Task::work copies a callable, and work_object constructs one.
Replace(t) ==
  /\ Calls(t, "replace")
  /\ \E w \in WorksOf(t), k \in NewTypes : Becomes(w, k)

ReplaceObject(t) ==
  /\ Calls(t, "replace")
  /\ \E w \in WorksOf(t), k \in NewTypes : Becomes(w, k)

\* The old payload goes before the new one is made: if that throws there is
\* none.
ReplaceThrows(t) ==
  /\ Calls(t, "replace")
  /\ \E w \in WorksOf(t) : Becomes(w, Nothing)

\* Task::acquire and release; a second request for a semaphore is refused.
AddAcquire(t) ==
  /\ Calls(t, "request")
  /\ \E w \in WorksOf(t), s \in Semaphores, n \in 0..2 :
       /\ ~Asks(work[w].acquires, s)
       /\ Edits([work EXCEPT ![w].acquires = Acquire(@, s, n)])

AddRelease(t) ==
  /\ Calls(t, "request")
  /\ \E w \in WorksOf(t), s \in Semaphores, n \in 0..2 :
       /\ ~Asks(work[w].releases, s)
       /\ Edits([work EXCEPT ![w].releases = Release(@, s, n)])

DropAcquire(t) ==
  /\ Calls(t, "request")
  /\ \E w \in WorksOf(t), s \in Semaphores :
       Edits([work EXCEPT ![w].acquires = RemoveAcquire(@, s)])

DropRelease(t) ==
  /\ Calls(t, "request")
  /\ \E w \in WorksOf(t), s \in Semaphores :
       Edits([work EXCEPT ![w].releases = RemoveRelease(@, s)])

DropRequests(t) ==
  /\ Calls(t, "request")
  /\ \E w \in WorksOf(t) :
       \/ Edits([work EXCEPT ![w].acquires = <<>>])
       \/ Edits([work EXCEPT ![w].releases = <<>>])

-----------------------------------------------------------------------------
(* The callable of a branch or a jump chooses successors by their index    *)
(* (branch.hpp, jump.hpp).  It runs while nobody edits the graph.          *)

Callback(t) ==
  /\ Calls(t, "choose")
  /\ \E w \in WorksOf(t) :
       /\ work[w].type \in GraphKinds
       /\ Invoker[work[w].type].selects # "all"
       /\ op' = [op EXCEPT ![t].choice = [work |-> w, targets |-> <<>>]]
  /\ UNCHANGED <<poolVars, flow, work, jumped>>

Choosing(t) == op[t].choice.work # None
Chooser(t) == work[op[t].choice.work]
ChoosesOne(t) == Invoker[Chooser(t).type].selects = "one"

\* Mutant: it does not look for the target.
InsertAgain(x, targets, v) ==
  IF Len(targets) >= x.nsucc THEN targets ELSE Append(targets, v)

\* A multi-target handle adds each target once, and stops when it is full.
Insert(x, targets, v) ==
  IF Len(targets) >= x.nsucc \/ v \in Range(targets) THEN targets
  ELSE Append(targets, v)

\* The last target fills the hole.
Deselect(targets, v) ==
  IF v \notin Range(targets) THEN targets
  ELSE Front([targets EXCEPT ![IndexOf(targets, v)] = Last(targets)])

\* select_if and select_all go through the successors.
SelectAll(x, targets, S) ==
  LET succ == Successors(x)
      chosen[i \in 0 .. Len(succ)] ==
        IF i = 0 THEN targets
        ELSE IF succ[i] \in S THEN Insert(x, chosen[i - 1], succ[i]) ELSE chosen[i - 1]
  IN  chosen[Len(succ)]

\* What a call of a single handle may leave: select, operator() and a subscript
\* set to true (nothing, if the index is too large), select_if (the first match
\* or nothing), reset; unselect of its target or of another successor.
OneTarget(x, targets) ==
  {<<v>> : v \in Range(Successors(x))} \cup {<<>>, targets}

\* And one of a multiple handle: an index too large changes nothing; select,
\* select_if and select_all add to what is there; unselect; reset.
ManyTargets(x, targets) ==
  {targets, <<>>}
    \cup {SelectAll(x, targets, S) : S \in SUBSET Range(Successors(x))}
    \cup {Insert(x, targets, v) : v \in Range(Successors(x))}
    \cup {Deselect(targets, v) : v \in Range(Successors(x))}

Chooses(t, kind, result(_, _)) ==
  /\ Choosing(t)
  /\ Chooser(t).type = kind
  /\ \E targets \in result(Chooser(t), op[t].choice.targets) :
       op' = [op EXCEPT ![t].choice.targets = targets]
  /\ UNCHANGED <<poolVars, flow, work, left, plan, jumped>>

BranchCall(t) == Chooses(t, "branch", OneTarget)
JumpCall(t) == Chooses(t, "jump", OneTarget)
MultiBranchCall(t) == Chooses(t, "multiBranch", ManyTargets)
MultiJumpCall(t) == Chooses(t, "multiJump", ManyTargets)

\* The callable returns, or throws: then nothing is scheduled.
CallbackReturns(t) ==
  /\ Choosing(t)
  /\ Unwind(t)
  /\ UNCHANGED <<poolVars, flow, work, left, plan, jumped>>

-----------------------------------------------------------------------------

Edit(t) ==
  \/ Emplace(t) \/ EmplaceObject(t) \/ Erase(t) \/ Clear(t) \/ Move(t)
  \/ Precede(t) \/ Succeed(t) \/ Linearize(t)
  \/ Disconnect(t) \/ DropPredecessors(t) \/ DropSuccessors(t)
  \/ Replace(t) \/ ReplaceObject(t) \/ ReplaceThrows(t)
  \/ AddAcquire(t) \/ AddRelease(t) \/ DropAcquire(t) \/ DropRelease(t) \/ DropRequests(t)
  \/ Callback(t)

Proceed(t) ==
  \/ MakeWork(t) \/ ConstructWork(t) \/ CopyThrows(t) \/ CreateThrows(t)
  \/ Adopt(t) \/ AdoptThrows(t)
  \/ DestroyWork(t) \/ Forget(t) \/ TakeOver(t)
  \/ Check(t) \/ Search(t) \/ RefuseCycle(t) \/ Connect(t) \/ ConnectThrows(t)
  \/ BranchCall(t) \/ JumpCall(t) \/ MultiBranchCall(t) \/ MultiJumpCall(t)
  \/ CallbackReturns(t)
  \/ PoolStep(t) /\ UNCHANGED graphVars

\* A call of one of the vectors.
UseVectors(t) ==
  /\ Calls(t, "vector")
  /\ V!VectorNext
  /\ UNCHANGED <<poolVars, flow, work, op, jumped>>

Next ==
  \E t \in Threads :
    \/ (Edit(t) \/ Proceed(t)) /\ UNCHANGED <<mem, contents>>
    \/ UseVectors(t)

Spec == Init /\ [][Next]_vars

-----------------------------------------------------------------------------

\* Flows whose Works are being destroyed.
Dying == {g \in Flows : \E t \in Threads : \E i \in DOMAIN op[t].todo :
            op[t].todo[i].do = "empty" /\ op[t].todo[i].flow = g}
Adopted == UNION {Range(flow[g]) : g \in Flows \ Dying}

TypeOK ==
  /\ flow \in [Flows -> Seq(Blocks)]
  /\ \A b \in Blocks :
       /\ work[b].graph \in Flows \cup {Nothing}
       /\ work[b].type \in GraphKinds \cup {Nothing}
       /\ work[b].nsucc \in 0 .. Len(work[b].edges)
       /\ b \notin live => work[b] = NoWork

\* Who has to destroy the Work in b: a flow, a thread that just made it, or
\* one that is destroying those of a flow.
Owners(b) ==
  (UNION {{g} \X {i \in DOMAIN flow[g] : flow[g][i] = b} : g \in Flows \ Dying})
  \cup {<<t, 0>> : t \in {u \in Threads : op[u].made = b}}
  \cup {<<t, 1>> : t \in {u \in Threads : \E i \in DOMAIN op[u].todo :
            op[u].todo[i].do = "destroy" /\ op[u].todo[i].work = b}}

\* The types; and every Work has exactly one owner, whatever throws in between
\* and while whole graphs are moved or cleared: none leaks, none is destroyed
\* twice.  A flow owns Works only, and each of them refers to its graph.
WorksOwned ==
  /\ TypeOK
  /\ \A b \in Blocks : Cardinality(Owners(b)) = IF b \in live THEN 1 ELSE 0
  /\ \A g \in Flows \ Dying : \A w \in Range(flow[g]) : work[w].graph = g

\* Both ends of an edge agree on it after every call and every failed call,
\* whatever holes were filled in the arrays (work.hpp:1212-1226), and nothing
\* else changes the graph: the edits implement those of a digraph.
D == INSTANCE Digraph WITH
  AllNodes <- Blocks,
  nodes <- Adopted,
  out <- UNION {{u} \X Range(Successors(work[u])) : u \in Adopted},
  in <- UNION {Range(Predecessors(work[v])) \X {v} : v \in Adopted}

ImplementsDigraph == D!DigraphSpec

\* v is reached from u along successors that are in S.
Reaches(u, v, S) ==
  \A R \in SUBSET S :
    u \in R /\ (\A w \in R : Range(Successors(work[w])) \cap S \subseteq R) => v \in R

\* The search finds a path without jumps exactly if there is one: it neither
\* refuses a legal edge nor lets a strict cycle in (work.hpp:1295-1330).
SearchIsExact ==
  \A t \in Threads :
    op[t].todo # <<>> /\ op[t].search.pc \in {"path", "noPath"} =>
      LET part == Head(op[t].todo)
      IN  op[t].search.pc = "path"
            <=> Reaches(part.to, part.from, {w \in Adopted : ~IsJump(work[w])})

\* However edges come and go, a cycle passes through a jump, or through a Work
\* that was one (Architecture.zh-CN.md calls the others strict cycles).
NoStrictCycle ==
  LET S == Adopted \ jumped
  IN  \A u \in S : \A v \in Range(Successors(work[u])) \cap S : ~Reaches(v, u, S)

\* SemaphoreLock (work.hpp:213) locks in the order of the list and would lock
\* a semaphore twice if it stood there twice.
RequestsOrdered ==
  \A b \in live : LET a == work[b].acquires  r == work[b].releases
                  IN  /\ \A i, j \in DOMAIN a : i < j => a[i].sem < a[j].sem
                      /\ \A i, j \in DOMAIN r : i # j => r[i].sem # r[j].sem

\* A callable hands over successors only, each once: the tear-down counts an
\* arrival for every target (branch.hpp:311).
ChoiceIsSound ==
  \A t \in Threads : Choosing(t) =>
    /\ Range(op[t].choice.targets) \subseteq Range(Successors(Chooser(t)))
    /\ IsInjective(op[t].choice.targets)
    /\ ChoosesOne(t) => Len(op[t].choice.targets) <= 1

\* Whatever a call of a vector throws, every element is destroyed once and
\* every block freed once, or still belongs to a vector whose size counts it.
VectorsOwned == V!VectorsOwned

\* A call of a vector that returns does what it does to a sequence, also when
\* its argument lies in the vector that grows; one that throws keeps the
\* promise of small_vector.hpp:106-111.
ContentsKept == V!ContentsKept
=============================================================================
