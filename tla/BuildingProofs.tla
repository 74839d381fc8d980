---------------------------- MODULE BuildingProofs ----------------------------
(***************************************************************************)
(* Graphs that any number of threads build and edit over one pool.         *)
(*                                                                         *)
(* For any number of threads, blocks, flows, calls and edges: every Work   *)
(* has one owner, a search for a cycle finds one exactly if there is one,  *)
(* a graph keeps no cycle without jumps, requests stay in the order that   *)
(* locking them needs, a callable chooses successors only and each once,   *)
(* and the edits are those of a digraph.                                   *)
(*                                                                         *)
(* One lemma for every action says that it keeps the inductive invariant   *)
(* IInv of BuildingFacts; then what follows from IInv; and at the end the  *)
(* steps of Digraph that the actions are.                                  *)
(***************************************************************************)
EXTENDS BuildingFacts

-----------------------------------------------------------------------------
(* Steps that only change what a thread is at.                             *)

\* A call that destroys nothing.
Plain(todo) == \A i \in DOMAIN todo : todo[i].do \in {"make", "connect"}

\* It empties no flow and dooms no Work.
LEMMA PlainParts ==
  ASSUME NEW t \in Threads, Plain(op[t].todo)
  PROVE  (\A g : ~Empties(t, g)) /\ \A b : ~Dooms(t, b)
BY DEF Plain, Empties, Dooms

\* A step that only changes what t is at.
LEMMA OpKeeps ==
  ASSUME IInv, NEW t \in Threads, PoolIInv', UNCHANGED <<flow, work, live, jumped, plan>>,
         \A u \in Threads \ {t} : call'[u] = call[u],
         NEW o \in OpRecords, op' = [op EXCEPT ![t] = o], o.made = op[t].made,
         Plain(op[t].todo), Plain(o.todo), ThreadOK(t)'
  PROVE  IInv'
<1>1. op'[t] = o /\ (\A u \in Threads \ {t} : op'[u] = op[u]) /\ op' \in [Threads -> OpRecords]
  BY IInvParts DEF BuildingTyped
<1>2. BuildingTyped'
  BY <1>1, IInvParts DEF BuildingTyped
<1>3. (\A g : ~Empties(t, g)) /\ \A b : ~Dooms(t, b)
  BY PlainParts
<1>4. (\A g : ~Empties(t, g)') /\ \A b : ~Dooms(t, b)'
  BY <1>1 DEF Plain, Empties, Dooms
<1> QED BY <1>1, <1>2, <1>3, <1>4, QuietKeeps

\* A function on 1..n is a sequence.
LEMMA FunctionIsSeq ==
  ASSUME NEW S, NEW n \in Nat, NEW f \in [1 .. n -> S]
  PROVE  f \in Seq(S) /\ Len(f) = n /\ DOMAIN f = 1 .. n
<1>1. f \in Seq(S)
  BY SeqDef
<1>2. Len(f) \in Nat /\ 1 .. Len(f) = 1 .. n
  BY <1>1, LenProperties
<1> QED BY <1>1, <1>2

\* No call at all.
LEMMA NoOpTypes ==
  /\ NoOp \in OpRecords /\ Plain(NoOp.todo)
  /\ NoOp.todo = <<>> /\ NoOp.made = None /\ NoOp.search = NoSearch /\ NoOp.choice = NoChoice
  /\ NoSearch \in Searches /\ NoSearch.pc = "none"
  /\ NoChoice \in [work : Blocks \cup {None}, targets : Seq(Blocks)] /\ NoChoice.work = None
<1>1. \A S : <<>> \in Seq(S)
  BY EmptySeq
<1>2. NoSearch \in Searches /\ NoSearch.pc = "none"
  BY <1>1 DEF NoSearch, Searches
<1>3. NoChoice \in [work : Blocks \cup {None}, targets : Seq(Blocks)] /\ NoChoice.work = None
  BY <1>1 DEF NoChoice
<1>4. NoOp \in OpRecords
  BY <1>1, <1>2, <1>3 DEF NoOp, OpRecords
<1>5. NoOp.todo = <<>> /\ NoOp.made = None /\ NoOp.search = NoSearch /\ NoOp.choice = NoChoice
  BY DEF NoOp
<1>6. DOMAIN <<>> = {}
  OBVIOUS
<1> QED BY <1>2, <1>3, <1>4, <1>5, <1>6 DEF Plain

\* A call with something to do.
LEMMA TodoTypes ==
  ASSUME NEW s \in Seq(Parts), NEW o, o = [NoOp EXCEPT !.todo = s]
  PROVE  /\ o \in OpRecords /\ o.todo = s /\ o.made = None
         /\ o.search = NoSearch /\ o.choice = NoChoice
BY NoOpTypes DEF OpRecords

\* A thread that creates nothing is fit for any call.
LEMMA IdleCreatesNothing == ~Creating(Idle)
BY DEF Idle, Creating, Popping, Pushing

\* The call is over.
LEMMA UnwoundOK ==
  ASSUME BuildingTyped, NEW t \in Threads, Unwind(t), ~Creating(call'[t])
  PROVE  ThreadOK(t)' /\ op'[t] = NoOp
<1>1. op'[t] = NoOp
  BY DEF Unwind, BuildingTyped
<1>2. DOMAIN NoOp.todo = {}
  BY NoOpTypes
<1>3. Making(t)'
  BY <1>1, <1>2, NoOpTypes DEF Making
<1> QED BY <1>1, <1>3 DEF ThreadOK

\* The end of a call that has made nothing.
LEMMA UnwindKeeps ==
  ASSUME IInv, NEW t \in Threads, PoolIInv', UNCHANGED <<flow, work, live, jumped, plan>>,
         \A u \in Threads \ {t} : call'[u] = call[u], ~Creating(call'[t]),
         Unwind(t), op[t].made = None, Plain(op[t].todo)
  PROVE  IInv'
<1>1. op' = [op EXCEPT ![t] = NoOp]
  BY DEF Unwind
<1>2. ThreadOK(t)'
  BY IInvParts, UnwoundOK
<1> QED BY <1>1, <1>2, NoOpTypes, OpKeeps

\* What is known when a call begins.
LEMMA CallBegins ==
  ASSUME IInv, NEW t \in Threads, NEW name, Calls(t, name)
  PROVE  /\ op[t] = NoOp /\ Plain(op[t].todo) /\ call[t] = Idle /\ plan' = plan
         /\ (\A g : ~Empties(t, g)) /\ \A b : ~Dooms(t, b)
         /\ \A g \in FlowsOf[t] : g \in Flows \ Dying
<1>1. op[t] = NoOp /\ Plain(op[t].todo) /\ call[t] = Idle /\ plan' = plan
  BY NoOpTypes DEF Calls
<1>2. (\A g : ~Empties(t, g)) /\ \A b : ~Dooms(t, b)
  BY <1>1, PlainParts
<1> QED BY <1>1, <1>2, DyingIs, FlowsApart

\* A call that makes Works.
LEMMA MakingBegins ==
  ASSUME IInv, PoolIInv', NEW t \in Threads, NEW name, Calls(t, name),
         NEW s \in Seq(Parts), Does(t, s),
         \A i \in DOMAIN s : s[i].do = "make" /\ s[i].flow \in FlowsOf[t]
  PROVE  IInv'
<1> DEFINE o == [op[t] EXCEPT !.todo = s]
<1>1. op' = [op EXCEPT ![t] = o] /\ UNCHANGED <<poolVars, flow, work, jumped>>
  BY DEF Does
<1>2. op[t] = NoOp /\ Plain(op[t].todo) /\ call[t] = Idle /\ plan' = plan
  BY CallBegins
<1>3. /\ o \in OpRecords /\ o.todo = s /\ o.made = None
      /\ o.search = NoSearch /\ o.choice = NoChoice
  BY <1>2, TodoTypes
<1>4. UNCHANGED <<live, call>>
  BY <1>1 DEF poolVars
<1> HIDE DEF o
<1>5. op'[t] = o
  BY <1>1, IInvParts DEF BuildingTyped
<1>6. ThreadOK(t)'
  <2>1. ~Creating(call'[t])
    BY <1>2, <1>4, IdleCreatesNothing
  <2>2. Making(t)'
    BY <1>3, <1>5 DEF Making
  <2> QED BY <2>1, <2>2 DEF ThreadOK
<1>7. Plain(s)
  BY DEF Plain
<1> QED BY <1>1, <1>2, <1>3, <1>4, <1>6, <1>7, NoOpTypes, OpKeeps

\* A call that connects Works.
LEMMA ConnectingBegins ==
  ASSUME IInv, PoolIInv', NEW t \in Threads, NEW name, Calls(t, name),
         NEW a \in WorksOf(t), NEW b \in WorksOf(t), NEW c \in WorksOf(t), NEW d \in WorksOf(t),
         Does(t, EdgesOf(<<<<a, b>>, <<c, d>>>>))
  PROVE  IInv'
<1> DEFINE s == EdgesOf(<<<<a, b>>, <<c, d>>>>)
           o == [op[t] EXCEPT !.todo = s]
<1>1. op' = [op EXCEPT ![t] = o] /\ UNCHANGED <<poolVars, flow, work, jumped>>
  BY DEF Does
<1>2. op[t] = NoOp /\ Plain(op[t].todo) /\ call[t] = Idle /\ plan' = plan
  BY CallBegins
<1>3. /\ s \in Seq(Parts) /\ DOMAIN s = 1 .. 2
      /\ s[1] = [do |-> "connect", from |-> a, to |-> b]
      /\ s[2] = [do |-> "connect", from |-> c, to |-> d]
  <2> DEFINE p == <<<<a, b>>, <<c, d>>>>
  <2>1. DOMAIN p = 1 .. 2 /\ p[1] = <<a, b>> /\ p[2] = <<c, d>>
    OBVIOUS
  <2>2. s = [i \in 1 .. 2 |-> [do |-> "connect", from |-> p[i][1], to |-> p[i][2]]]
    BY <2>1 DEF EdgesOf
  <2>3. DOMAIN s = 1 .. 2 /\ s[1] = [do |-> "connect", from |-> a, to |-> b]
        /\ s[2] = [do |-> "connect", from |-> c, to |-> d]
    BY <2>1, <2>2
  <2>4. WorksOf(t) \subseteq Blocks
    <3>1. \A g \in FlowsOf[t] : flow[g] \in Seq(Blocks)
      BY FlowsApart, IInvParts DEF BuildingTyped
    <3>2. \A g \in FlowsOf[t] : Range(flow[g]) \subseteq Blocks
      BY <3>1, ElementOfSeq DEF Range
    <3> QED BY <3>2 DEF WorksOf
  <2>5. s[1] \in Parts /\ s[2] \in Parts
    BY <2>3, <2>4 DEF Parts
  <2>6. s \in [1 .. 2 -> Parts]
    BY <2>2, <2>3, <2>5
  <2> HIDE DEF s
  <2>7. s \in Seq(Parts)
    BY <2>6, FunctionIsSeq
  <2> QED BY <2>3, <2>7
<1> HIDE DEF s
<1>4. /\ o \in OpRecords /\ o.todo = s /\ o.made = None
      /\ o.search = NoSearch /\ o.choice = NoChoice
  BY <1>2, <1>3, TodoTypes
<1>5. UNCHANGED <<live, call>>
  BY <1>1 DEF poolVars
<1> HIDE DEF o
<1>6. op'[t] = o
  BY <1>1, IInvParts DEF BuildingTyped
<1>7. \A i \in DOMAIN s : s[i].do = "connect" /\ s[i].from \in WorksOf(t) /\ s[i].to \in WorksOf(t)
  BY <1>3
<1>8. ThreadOK(t)'
  <2>1. ~Creating(call'[t])
    BY <1>2, <1>5, IdleCreatesNothing
  <2>2. WorksOf(t)' = WorksOf(t)
    BY <1>1 DEF WorksOf
  <2>3. Connecting(t)'
    BY <1>4, <1>6, <1>7, <2>2 DEF Connecting
  <2> QED BY <2>1, <2>3 DEF ThreadOK
<1>9. Plain(s)
  BY <1>7 DEF Plain
<1> QED BY <1>1, <1>2, <1>4, <1>5, <1>8, <1>9, NoOpTypes, OpKeeps

\* What a plan's calls make.
LEMMA PlanKinds ==
  ASSUME IInv, NEW kinds \in plan.kinds
  PROVE  /\ kinds \in Seq(GraphKinds) /\ kinds # <<>> /\ Len(kinds) \in Nat
         /\ DOMAIN kinds = 1 .. Len(kinds) /\ \A i \in 1 .. Len(kinds) : kinds[i] \in GraphKinds
         /\ Head(kinds) \in GraphKinds
<1>1. kinds \in Seq(GraphKinds) /\ kinds # <<>>
  BY IInvParts, BuildingAssumption DEF BuildingTyped
<1>2. Len(kinds) \in Nat /\ DOMAIN kinds = 1 .. Len(kinds)
  BY <1>1, LenProperties
<1>3. \A i \in 1 .. Len(kinds) : kinds[i] \in GraphKinds
  BY <1>1, ElementOfSeq
<1>4. Head(kinds) \in GraphKinds
  BY <1>1
<1> QED BY <1>1, <1>2, <1>3, <1>4

\* emplace begins,
LEMMA EmplaceKeeps ==
  ASSUME IInv, PoolIInv', NEW t \in Threads, Emplace(t) \/ EmplaceObject(t)
  PROVE  IInv'
<1>1. ASSUME NEW g \in FlowsOf[t], NEW kinds \in plan.kinds, Calls(t, "emplace"),
             Does(t, [i \in DOMAIN kinds |-> [do |-> "make", flow |-> g, kind |-> kinds[i]]])
      PROVE  IInv'
  <2> DEFINE s == [i \in DOMAIN kinds |-> [do |-> "make", flow |-> g, kind |-> kinds[i]]]
             n == Len(kinds)
  <2>1. g \in Flows
    BY FlowsApart
  <2>2. n \in Nat /\ DOMAIN kinds = 1 .. n /\ \A i \in 1 .. n : kinds[i] \in GraphKinds
    BY PlanKinds
  <2>3. \A i \in 1 .. n : s[i].do = "make" /\ s[i].flow = g /\ s[i] \in Parts
    BY <2>1, <2>2 DEF Parts
  <2>4. s \in [1 .. n -> Parts]
    BY <2>2, <2>3
  <2>5. Does(t, s)
    BY <1>1
  <2> HIDE DEF s, n
  <2>6. s \in Seq(Parts) /\ DOMAIN s = 1 .. n
    BY <2>2, <2>4, FunctionIsSeq
  <2> QED BY <1>1, <2>3, <2>5, <2>6, MakingBegins
<1>2. ASSUME NEW g \in FlowsOf[t], NEW kinds \in plan.kinds, Calls(t, "emplace"),
             Does(t, <<[do |-> "make", flow |-> g, kind |-> Head(kinds)]>>)
      PROVE  IInv'
  <2> DEFINE p == [do |-> "make", flow |-> g, kind |-> Head(kinds)]
             s == <<p>>
  <2>1. g \in Flows /\ Head(kinds) \in GraphKinds
    BY FlowsApart, PlanKinds
  <2>2. p \in Parts /\ p.do = "make" /\ p.flow = g
    BY <2>1 DEF Parts
  <2>3. Does(t, s)
    BY <1>2
  <2> HIDE DEF p
  <2>4. s \in Seq(Parts) /\ DOMAIN s = 1 .. 1 /\ s[1] = p
    BY <2>2
  <2> HIDE DEF s
  <2>5. \A i \in DOMAIN s : s[i].do = "make" /\ s[i].flow \in FlowsOf[t]
    BY <2>2, <2>4
  <2> QED BY <1>2, <2>3, <2>4, <2>5, MakingBegins
<1> QED BY <1>1, <1>2 DEF Emplace, EmplaceObject

\* and so do the calls that connect.
LEMMA ConnectCallsKeep ==
  ASSUME IInv, PoolIInv', NEW t \in Threads, Precede(t) \/ Succeed(t) \/ Linearize(t)
  PROVE  IInv'
<1>1. Calls(t, "connect")
  BY DEF Precede, Succeed, Linearize
<1>2. PICK u \in WorksOf(t), v \in WorksOf(t), w \in WorksOf(t) :
        \/ Does(t, EdgesOf(<<<<u, v>>, <<u, w>>>>))
        \/ Does(t, EdgesOf(<<<<v, u>>, <<w, u>>>>))
        \/ Does(t, EdgesOf(<<<<u, v>>, <<v, w>>>>))
  BY DEF Precede, Succeed, Linearize
<1>3. CASE Does(t, EdgesOf(<<<<u, v>>, <<u, w>>>>))
  BY <1>1, <1>3, ConnectingBegins
<1>4. CASE Does(t, EdgesOf(<<<<v, u>>, <<w, u>>>>))
  BY <1>1, <1>4, ConnectingBegins
<1>5. CASE Does(t, EdgesOf(<<<<u, v>>, <<v, w>>>>))
  BY <1>1, <1>5, ConnectingBegins
<1> QED BY <1>2, <1>3, <1>4, <1>5

\* A part of a call is due.
LEMMA PartIsDue ==
  ASSUME IInv, NEW t \in Threads, NEW do, Part(t, do)
  PROVE  /\ op[t].todo # <<>> /\ Head(op[t].todo).do = do /\ call[t] = Idle
         /\ Head(op[t].todo) = op[t].todo[1] /\ 1 \in DOMAIN op[t].todo
         /\ op[t].todo[1] \in Parts
         /\ do \in {"make", "connect"} => Plain(op[t].todo)
         /\ do = "make" => Making(t)
         /\ do = "connect" => Connecting(t)
<1>1. op[t].todo # <<>> /\ Head(op[t].todo).do = do /\ call[t] = Idle
  BY DEF Part
<1>2. /\ Head(op[t].todo) = op[t].todo[1] /\ 1 \in DOMAIN op[t].todo
      /\ op[t].todo[1] \in Parts
  BY <1>1, IInvParts, OpTypes
<1>3. (do = "make" => Making(t)) /\ (do = "connect" => Connecting(t))
  BY <1>1, Phases
<1>4. do \in {"make", "connect"} => Plain(op[t].todo)
  BY <1>3 DEF Making, Connecting, Plain
<1> QED BY <1>1, <1>2, <1>3, <1>4

\* The call of the pool goes on, and the thread's own call waits.
LEMMA PoolCallKeeps ==
  ASSUME IInv, PoolIInv', NEW t \in Threads, UNCHANGED graphVars, live' = live,
         \A u \in Threads \ {t} : call'[u] = call[u],
         Creating(call'[t]) =>
           op[t].todo # <<>> /\ Head(op[t].todo).do = "make" /\ op[t].made = None
  PROVE  IInv'
<1>1. UNCHANGED <<flow, work, op, plan, jumped>>
  BY DEF graphVars
<1>2. BuildingTyped'
  BY <1>1, IInvParts DEF BuildingTyped
<1>3. ThreadOK(t)'
  <2>1. ThreadOK(t)
    BY IInvParts
  <2>2. WorksOf(t)' = WorksOf(t)
    BY <1>1 DEF WorksOf
  <2>3. Making(t)' <=> Making(t)
    BY <1>1 DEF Making, WorksIn
  <2>4. Connecting(t)' <=> Connecting(t)
    BY <1>1, <2>2 DEF Connecting, WorksIn
  <2>5. \A g \in FlowsOf[t], k \in Nat : Emptying(t, g, k)' <=> Emptying(t, g, k)
    BY <1>1 DEF Emptying
  <2>6. Taking(t)' <=> Taking(t)
    BY <1>1 DEF Taking
  <2>7. InCallback(t)' <=> InCallback(t)
    BY <1>1, <2>2 DEF InCallback, Chooser, ChoosesOne
  <2> QED BY <1>1, <2>1, <2>3, <2>4, <2>5, <2>6, <2>7 DEF ThreadOK
<1>4. (\A g : Empties(t, g)' <=> Empties(t, g)) /\ \A b : Dooms(t, b)' <=> Dooms(t, b)
  BY <1>1 DEF Empties, Dooms
<1> QED BY <1>1, <1>2, <1>3, <1>4, QuietKeeps

\* A step of the pool keeps the invariant,
LEMMA PoolStepKeeps ==
  ASSUME IInv, PoolIInv', NEW t \in Threads, PoolStep(t), UNCHANGED graphVars
  PROVE  IInv'
<1>1. /\ Creating(call'[t]) => Creating(call[t])
      /\ \A u \in Threads \ {t} : call'[u] = call[u]
      /\ live' = live
  BY CreatingGoesOn, IInvParts
<1>2. Creating(call[t]) =>
        op[t].todo # <<>> /\ Head(op[t].todo).do = "make" /\ op[t].made = None
  BY IInvParts DEF ThreadOK
<1> QED BY <1>1, <1>2, PoolCallKeeps

\* and so does asking it for a block,
LEMMA MakeWorkKeeps ==
  ASSUME IInv, PoolIInv', NEW t \in Threads, MakeWork(t)
  PROVE  IInv'
<1>1. Part(t, "make") /\ op[t].made = None /\ Create(t) /\ UNCHANGED graphVars
  BY DEF MakeWork
<1>2. (\A u \in Threads \ {t} : call'[u] = call[u]) /\ live' = live
  BY <1>1, IInvParts DEF Create, PoolIInv, PoolTyped
<1> QED BY <1>1, <1>2, PartIsDue, PoolCallKeeps

\* and so does the failure to get one or to make a Work in it.
LEMMA ThrowsKeep ==
  ASSUME IInv, PoolIInv', NEW t \in Threads, CopyThrows(t) \/ CreateThrows(t)
  PROVE  IInv'
<1>1. /\ ConstructThrows(t) \/ NoMemory(t)
      /\ Unwind(t) /\ UNCHANGED <<flow, work, jumped, plan>>
  BY DEF CopyThrows, CreateThrows
<1>2. call \in [Threads -> CallRecords]
  BY IInvParts DEF PoolIInv, PoolTyped
<1>3. /\ live' = live
      /\ \A u \in Threads \ {t} : call'[u] = call[u]
      /\ Creating(call[t]) /\ ~Creating(call'[t])
  <2>1. CASE ConstructThrows(t)
    <3>1. live' = live /\ call[t].pc = "got"
          /\ call' = [call EXCEPT ![t] = [Idle EXCEPT !.pc = "push",
                        !.bucket = Home(call[t].block), !.chain = <<call[t].block>>]]
      BY <2>1 DEF ConstructThrows, Recycle
    <3>2. call'[t].pc = "push" /\ call'[t].block = None
      BY <1>2, <3>1 DEF Idle
    <3> QED BY <1>2, <3>1, <3>2 DEF Creating, Popping
  <2>2. CASE NoMemory(t)
    <3>1. live' = live /\ call[t].pc = "slab" /\ call' = [call EXCEPT ![t] = Idle]
      BY <2>2 DEF NoMemory
    <3> QED BY <1>2, <3>1, IdleCreatesNothing DEF Creating, Popping
  <2> QED BY <1>1, <2>1, <2>2
<1>4. op[t].todo # <<>> /\ Head(op[t].todo).do = "make" /\ op[t].made = None
  BY <1>3, IInvParts DEF ThreadOK
<1>5. Making(t)
  BY <1>4, Phases
<1>6. Plain(op[t].todo)
  BY <1>5 DEF Making, Plain
<1> QED BY <1>1, <1>3, <1>4, <1>6, UnwindKeeps

-----------------------------------------------------------------------------
(* The search for a path.                                                  *)

\* It begins with what _can_precede has found out.
LEMMA SearchBegins ==
  ASSUME NEW f \in [Blocks -> WorkRecords], NEW W \in SUBSET Blocks, NEW u \in W, NEW v \in W,
         \A b \in W : Edged(f[b]),
         MayPrecede(f, u, v) # "refused"
  PROVE  /\ MayPrecede(f, u, v) = "fine" =>
              SearchFacts(f, W, u, v, [NoSearch EXCEPT !.pc = "fine"])
         /\ MayPrecede(f, u, v) # "fine" =>
              SearchFacts(f, W, u, v, [pc |-> "search", stack |-> <<v>>, visited |-> {v}])
<1> DEFINE L == {w \in W : ~IsJump(f[w])}
           E == Edges(f, W)
<1>1. Range(Successors(f[u])) = Targets(f[u])
  BY EdgeSets
<1>2. v \notin Targets(f[u])
  BY <1>1 DEF MayPrecede
<1>3. <<u, v>> \notin E
  BY <1>2 DEF Edges
<1>4. ASSUME MayPrecede(f, u, v) = "fine"
      PROVE  u \notin L \/ v \notin L
  BY <1>1, <1>2, <1>4 DEF MayPrecede
<1>5. ASSUME MayPrecede(f, u, v) # "fine"
      PROVE  u \in L /\ v \in L /\ u # v
  BY <1>1, <1>2, <1>5 DEF MayPrecede
<1> HIDE DEF L, E
<1>6. Range(<<v>>) = {v}
  BY RangeOfSingleton
<1>7. ASSUME MayPrecede(f, u, v) = "fine"
      PROVE  SearchFacts(f, W, u, v, [NoSearch EXCEPT !.pc = "fine"])
  <2> DEFINE s == [NoSearch EXCEPT !.pc = "fine"]
  <2>1. s.pc = "fine"
    BY DEF NoSearch
  <2> HIDE DEF s
  <2>2. SearchFacts(f, W, u, v, s)
    BY <1>3, <1>4, <1>7, <2>1 DEF SearchFacts, L, E
  <2> QED BY <2>2 DEF s
<1>8. ASSUME MayPrecede(f, u, v) # "fine"
      PROVE  SearchFacts(f, W, u, v, [pc |-> "search", stack |-> <<v>>, visited |-> {v}])
  <2> DEFINE s == [pc |-> "search", stack |-> <<v>>, visited |-> {v}]
  <2>1. s.pc = "search" /\ Range(s.stack) = {v} /\ s.visited = {v}
    BY <1>6
  <2> HIDE DEF s
  <2>2. u \in L /\ v \in L /\ u # v
    BY <1>5, <1>8
  <2>3. SearchFacts(f, W, u, v, s)
    BY <1>3, <2>1, <2>2 DEF SearchFacts, L, E
  <2> QED BY <2>3 DEF s
<1> QED BY <1>7, <1>8

\* One round of it.
LEMMA SearchRound ==
  ASSUME NEW f, NEW W \in SUBSET Blocks, Drawn(f, W, Edges(f, W)),
         NEW u, NEW v, NEW s \in Searches, s.pc = "search", SearchFacts(f, W, u, v, s), NEW r,
         r = IF s.stack = <<>> THEN [NoSearch EXCEPT !.pc = "noPath"]
             ELSE IF u \in Range(Successors(f[Last(s.stack)]))
             THEN [NoSearch EXCEPT !.pc = "path"]
             ELSE Expand(f, s)
  PROVE  r \in Searches /\ SearchFacts(f, W, u, v, r)
<1> DEFINE E == Edges(f, W)
           L == {w \in W : ~IsJump(f[w])}
<1>1. /\ u \in W /\ v \in W /\ <<u, v>> \notin E /\ u \in L /\ v \in L
      /\ Range(s.stack) \subseteq s.visited
      /\ s.visited \subseteq L
      /\ v \in s.visited /\ u \notin s.visited
      /\ \A e \in E : e[1] \in s.visited /\ e[1] \notin Range(s.stack) =>
           e[2] # u /\ (e[2] \in L => e[2] \in s.visited)
      /\ \A R \in SUBSET L : v \in R /\ Closed(R, E, L) => s.visited \subseteq R
  BY DEF SearchFacts
<1>2. s.stack \in Seq(Blocks) /\ s.visited \in SUBSET Blocks
  BY DEF Searches
<1>3. f \in [Blocks -> WorkRecords]
  BY DEF Drawn
<1>4. L \subseteq W
  OBVIOUS
<1>5. E \subseteq W \X W
  BY DEF Edges
<1>6. CASE s.stack = <<>>
  <2>1. r = [NoSearch EXCEPT !.pc = "noPath"]
    BY <1>6
  <2>2. r \in Searches /\ r.pc = "noPath"
    BY <2>1, NoOpTypes DEF Searches
  <2>3. Range(s.stack) = {}
    BY <1>6, RangeOfEmpty
  <2> HIDE DEF L, E
  <2>4. Closed(s.visited, E, L)
    BY <1>1, <2>3 DEF Closed
  <2>5. Apart(v, u, E, L)
    BY <1>1, <2>4 DEF Apart
  <2>6. SearchFacts(f, W, u, v, r)
    BY <1>1, <2>2, <2>5 DEF SearchFacts, L, E
  <2> QED BY <2>2, <2>6
<1>7. CASE s.stack # <<>>
  <2> DEFINE c == Last(s.stack)
  <2>1. /\ c = s.stack[Len(s.stack)] /\ Len(s.stack) \in Nat \ {0}
        /\ Front(s.stack) \in Seq(Blocks) /\ Len(Front(s.stack)) = Len(s.stack) - 1
        /\ \A i \in 1 .. Len(s.stack) - 1 : Front(s.stack)[i] = s.stack[i]
    BY <1>2, <1>7, FrontIs
  <2>2. DOMAIN s.stack = 1 .. Len(s.stack) /\ DOMAIN Front(s.stack) = 1 .. Len(s.stack) - 1
    BY <1>2, <2>1, LenProperties
  <2>3. c \in Range(s.stack) /\ \A w \in Range(s.stack) : w = c \/ w \in Range(Front(s.stack))
    BY <2>1, <2>2 DEF Range
  <2>4. Range(Front(s.stack)) \subseteq Range(s.stack)
    BY <2>1, <2>2 DEF Range
  <2>5. c \in s.visited /\ c \in L /\ c \in W
    BY <1>1, <1>4, <2>3
  <2>6. Edged(f[c]) /\ f[c] \in WorkRecords
    BY <1>3, <2>5 DEF Drawn
  <2>7. Range(Successors(f[c])) = Targets(f[c])
    BY <2>6, EdgeSets
  <2>8. \A w : w \in Targets(f[c]) <=> w \in W /\ <<c, w>> \in E
    BY <2>5 DEF Drawn
  <2>9. CASE u \in Range(Successors(f[c]))
    <3>1. r = [NoSearch EXCEPT !.pc = "path"]
      BY <1>7, <2>9
    <3>2. r \in Searches /\ r.pc = "path"
      BY <3>1, NoOpTypes DEF Searches
    <3>3. <<c, u>> \in E
      BY <2>7, <2>8, <2>9
    <3> HIDE DEF L, E, c
    <3>4. ASSUME NEW R \in SUBSET L, v \in R, Closed(R, E, L)
          PROVE  u \in R
      <4>1. c \in R
        BY <1>1, <2>5, <3>4
      <4>2. \A e \in E : e[1] \in R /\ e[2] \in L => e[2] \in R
        BY <3>4 DEF Closed
      <4> QED BY <1>1, <3>3, <4>1, <4>2
    <3>5. ~Apart(v, u, E, L)
      BY <3>4 DEF Apart
    <3>6. SearchFacts(f, W, u, v, r)
      BY <1>1, <3>2, <3>5 DEF SearchFacts, L, E
    <3> QED BY <3>2, <3>6
  <2>10. CASE u \notin Range(Successors(f[c]))
    <3>1. r = Expand(f, s)
      BY <1>7, <2>10
    <3>2. /\ r \in Searches /\ r.pc = s.pc
          /\ \A w : w \in r.visited <=>
               w \in s.visited \/ (w \in Targets(f[c]) /\ ~IsJump(f[w]))
          /\ \A w : w \in Range(r.stack) <=>
               w \in Range(Front(s.stack)) \/ w \in r.visited \ s.visited
      BY <1>3, <1>7, <2>6, <3>1, ExpandVisits
    <3>3. \A w : w \in r.visited <=> w \in s.visited \/ (w \in L /\ <<c, w>> \in E)
      BY <2>8, <3>2
    <3>4. <<c, u>> \notin E
      BY <1>1, <2>7, <2>8, <2>10
    <3> HIDE DEF L, E, c
    <3>5. Range(r.stack) \subseteq r.visited
      BY <1>1, <2>4, <3>2
    <3>6. r.visited \subseteq L /\ v \in r.visited /\ u \notin r.visited
      BY <1>1, <3>3, <3>4
    <3>7. ASSUME NEW e \in E, e[1] \in r.visited, e[1] \notin Range(r.stack)
          PROVE  e[2] # u /\ (e[2] \in L => e[2] \in r.visited)
      <4>1. e[1] \in s.visited
        BY <3>2, <3>7
      <4>2. CASE e[1] \notin Range(s.stack)
        BY <1>1, <3>3, <4>1, <4>2
      <4>3. CASE e[1] \in Range(s.stack)
        <5>1. e[1] \notin Range(Front(s.stack))
          BY <3>2, <3>7
        <5>2. e[1] = c
          BY <2>3, <4>3, <5>1
        <5>3. e = <<c, e[2]>>
          BY <1>5, <5>2
        <5> QED BY <3>3, <3>4, <5>3
      <4> QED BY <4>2, <4>3
    <3>8. ASSUME NEW R \in SUBSET L, v \in R, Closed(R, E, L)
          PROVE  r.visited \subseteq R
      <4>1. s.visited \subseteq R
        BY <1>1, <3>8
      <4>2. \A e \in E : e[1] \in R /\ e[2] \in L => e[2] \in R
        BY <3>8 DEF Closed
      <4>3. \A w : w \in L /\ <<c, w>> \in E => w \in R
        BY <2>5, <4>1, <4>2
      <4> QED BY <3>3, <4>1, <4>3
    <3>9. SearchFacts(f, W, u, v, r)
      <4>1. r.pc = "search"
        BY <3>2
      <4> QED BY <1>1, <3>5, <3>6, <3>7, <3>8, <4>1 DEF SearchFacts, L, E
    <3> QED BY <3>2, <3>9
  <2> QED BY <2>9, <2>10
<1> QED BY <1>6, <1>7

\* A Work of a thread that empties none of its flows.
LEMMA WorkOfThread ==
  ASSUME IInv, NEW t \in Threads, \A g : ~Empties(t, g), NEW w \in WorksOf(t)
  PROVE  /\ w \in Blocks /\ w \in live /\ work[w] \in WorkRecords /\ Edged(work[w])
         /\ work[w].graph \in FlowsOf[t] /\ work[w].graph \in Flows \ Dying
         /\ w \in WorksIn(work[w].graph)
<1>1. PICK g \in FlowsOf[t] : w \in WorksIn(g)
  BY DEF WorksOf, WorksIn
<1>2. g \in Flows \ Dying
  BY DyingIs, FlowsApart
<1>3. w \in Blocks /\ w \in live /\ work[w].graph = g /\ work[w] \in WorkRecords /\ Edged(work[w])
  BY <1>1, <1>2, FlowWorks
<1> QED BY <1>1, <1>2, <1>3

\* The edge that is due.
LEMMA DueEdge ==
  ASSUME IInv, NEW t \in Threads, Part(t, "connect"), NEW u, NEW v,
         u = Head(op[t].todo).from, v = Head(op[t].todo).to
  PROVE  LET g == work[u].graph
         IN  /\ u \in Blocks /\ v \in Blocks /\ u \in WorksOf(t) /\ v \in WorksOf(t)
             /\ g \in FlowsOf[t] /\ g \in Flows \ Dying /\ u \in WorksIn(g)
             /\ work[v].graph = g => v \in WorksIn(g)
             /\ op[t].search # NoSearch => SearchFacts(work, WorksIn(g), u, v, op[t].search)
             /\ op[t].made = None /\ op[t].choice = NoChoice
             /\ \A h : ~Empties(t, h)
<1>1. Connecting(t) /\ Plain(op[t].todo) /\ 1 \in DOMAIN op[t].todo
      /\ Head(op[t].todo) = op[t].todo[1]
  BY PartIsDue
<1>2. u \in WorksOf(t) /\ v \in WorksOf(t) /\ op[t].made = None /\ op[t].choice = NoChoice
  BY <1>1 DEF Connecting
<1>3. \A h : ~Empties(t, h)
  BY <1>1, PlainParts
<1>4. op[t].search # NoSearch =>
        SearchFacts(work, WorksIn(work[u].graph), u, v, op[t].search)
  BY <1>1 DEF Connecting
<1> QED BY <1>2, <1>3, <1>4, WorkOfThread

\* The thread has found out more about the edge that is due.
LEMMA SearchGoesOn ==
  ASSUME IInv, PoolIInv', NEW t \in Threads, Part(t, "connect"),
         UNCHANGED <<poolVars, flow, work, jumped, plan>>, NEW s \in Searches,
         op' = [op EXCEPT ![t].search = s],
         LET u == Head(op[t].todo).from
         IN  SearchFacts(work, WorksIn(work[u].graph), u, Head(op[t].todo).to, s)
  PROVE  IInv'
<1> DEFINE o == [op[t] EXCEPT !.search = s]
<1>1. op' = [op EXCEPT ![t] = o]
  OBVIOUS
<1>2. op[t] \in OpRecords
  BY IInvParts, OpTypes
<1>3. /\ o \in OpRecords /\ o.todo = op[t].todo /\ o.made = op[t].made
      /\ o.search = s /\ o.choice = op[t].choice
  BY <1>2 DEF OpRecords
<1> HIDE DEF o
<1>4. op'[t] = o
  BY <1>1, IInvParts DEF BuildingTyped
<1>5. Connecting(t) /\ Plain(op[t].todo) /\ op[t].todo # <<>> /\ call[t] = Idle
  BY PartIsDue
<1>6. UNCHANGED <<live, call>>
  BY DEF poolVars
<1>7. ThreadOK(t)'
  <2>1. ~Creating(call'[t])
    BY <1>5, <1>6, IdleCreatesNothing
  <2>2. WorksOf(t)' = WorksOf(t)
    BY DEF WorksOf
  <2>3. \A i \in DOMAIN o.todo :
          /\ o.todo[i].do = "connect"
          /\ o.todo[i].from \in WorksOf(t) /\ o.todo[i].to \in WorksOf(t)
    BY <1>3, <1>5 DEF Connecting
  <2>4. o.made = None /\ o.choice = NoChoice
    BY <1>3, <1>5 DEF Connecting
  <2>5. Connecting(t)'
    BY <1>3, <1>4, <1>5, <2>2, <2>3, <2>4 DEF Connecting, WorksIn
  <2> QED BY <2>1, <2>5 DEF ThreadOK
<1> QED BY <1>1, <1>3, <1>5, <1>6, <1>7, OpKeeps

\* The check of an edge keeps the invariant,
LEMMA CheckKeeps ==
  ASSUME IInv, PoolIInv', NEW t \in Threads, Check(t)
  PROVE  IInv'
<1> DEFINE u == Head(op[t].todo).from
           v == Head(op[t].todo).to
           g == work[u].graph
           verdict == MayPrecede(work, u, v)
<1>1. /\ Part(t, "connect") /\ op[t].search = NoSearch
      /\ UNCHANGED <<poolVars, flow, work, jumped, plan>>
      /\ verdict = "refused" => Unwind(t)
      /\ verdict = "fine" => op' = [op EXCEPT ![t].search.pc = "fine"]
      /\ verdict \notin {"refused", "fine"} =>
           op' = [op EXCEPT ![t].search =
                    [pc |-> "search", stack |-> <<v>>, visited |-> {v}]]
  BY DEF Check
<1>2. /\ u \in Blocks /\ v \in Blocks /\ g \in Flows \ Dying /\ u \in WorksIn(g)
      /\ work[v].graph = g => v \in WorksIn(g)
      /\ op[t].made = None
  BY <1>1, DueEdge
<1>3. Plain(op[t].todo) /\ call[t] = Idle
  BY <1>1, PartIsDue
<1>4. UNCHANGED <<live, call>>
  BY <1>1 DEF poolVars
<1>5. CASE verdict = "refused"
  BY <1>1, <1>2, <1>3, <1>4, <1>5, IdleCreatesNothing, UnwindKeeps
<1>6. CASE verdict # "refused"
  <2>1. v \in WorksIn(g)
    BY <1>2, <1>6 DEF MayPrecede
  <2>2. WorksIn(g) \in SUBSET Blocks /\ \A b \in WorksIn(g) : Edged(work[b])
    BY <1>2, FlowWorks
  <2>3. work \in [Blocks -> WorkRecords]
    BY IInvParts DEF BuildingTyped
  <2>4. /\ verdict = "fine" =>
             SearchFacts(work, WorksIn(g), u, v, [NoSearch EXCEPT !.pc = "fine"])
        /\ verdict # "fine" =>
             SearchFacts(work, WorksIn(g), u, v, [pc |-> "search", stack |-> <<v>>, visited |-> {v}])
    BY <1>2, <1>6, <2>1, <2>2, <2>3, SearchBegins
  <2>5. CASE verdict = "fine"
    <3> DEFINE s == [NoSearch EXCEPT !.pc = "fine"]
    <3>1. op' = [op EXCEPT ![t].search = s]
      BY <1>1, <2>5
    <3>2. s \in Searches
      BY NoOpTypes DEF Searches
    <3>3. SearchFacts(work, WorksIn(g), u, v, s)
      BY <2>4, <2>5
    <3> HIDE DEF s
    <3> QED BY <1>1, <3>1, <3>2, <3>3, SearchGoesOn
  <2>6. CASE verdict # "fine"
    <3> DEFINE s == [pc |-> "search", stack |-> <<v>>, visited |-> {v}]
    <3>1. op' = [op EXCEPT ![t].search = s]
      BY <1>1, <1>6, <2>6
    <3>2. s \in Searches
      BY <1>2 DEF Searches
    <3>3. SearchFacts(work, WorksIn(g), u, v, s)
      BY <2>4, <2>6
    <3> HIDE DEF s
    <3> QED BY <1>1, <3>1, <3>2, <3>3, SearchGoesOn
  <2> QED BY <2>5, <2>6
<1> QED BY <1>5, <1>6

\* and so does every round of the search.
LEMMA SearchKeeps ==
  ASSUME IInv, PoolIInv', NEW t \in Threads, Search(t)
  PROVE  IInv'
<1> DEFINE u == Head(op[t].todo).from
           v == Head(op[t].todo).to
           g == work[u].graph
           s == op[t].search
           r == IF s.stack = <<>> THEN [NoSearch EXCEPT !.pc = "noPath"]
                ELSE IF u \in Range(Successors(work[Last(s.stack)]))
                THEN [NoSearch EXCEPT !.pc = "path"]
                ELSE Expand(work, s)
<1>1. /\ Part(t, "connect") /\ s.pc = "search"
      /\ UNCHANGED <<poolVars, flow, work, jumped, plan>>
      /\ op' = [op EXCEPT ![t].search = r]
  BY DEF Search
<1>2. s # NoSearch /\ s \in Searches
  BY <1>1, NoOpTypes, IInvParts, OpTypes
<1>3. g \in Flows \ Dying /\ SearchFacts(work, WorksIn(g), u, v, s)
  BY <1>1, <1>2, DueEdge
<1>4. Drawn(work, WorksIn(g), Edges(work, WorksIn(g))) /\ WorksIn(g) \in SUBSET Blocks
  BY <1>3, FlowWorks DEF EdgesIn
<1>5. r \in Searches /\ SearchFacts(work, WorksIn(g), u, v, r)
  BY <1>1, <1>2, <1>3, <1>4, SearchRound
<1> HIDE DEF r
<1> QED BY <1>1, <1>5, SearchGoesOn

\* The edge that is due is refused.
LEMMA RefuseKeeps ==
  ASSUME IInv, PoolIInv', NEW t \in Threads, RefuseCycle(t)
  PROVE  IInv'
<1>1. Part(t, "connect") /\ Unwind(t) /\ UNCHANGED <<poolVars, flow, work, jumped, plan>>
  BY DEF RefuseCycle
<1>2. Plain(op[t].todo) /\ call[t] = Idle /\ op[t].made = None
  BY <1>1, PartIsDue DEF Connecting
<1>3. UNCHANGED <<live, call>>
  BY <1>1 DEF poolVars
<1> QED BY <1>1, <1>2, <1>3, IdleCreatesNothing, UnwindKeeps

-----------------------------------------------------------------------------
(* The callables of branches and jumps.                                    *)

\* What a thread has chosen.
ChoiceTypes == [work : Blocks \cup {None}, targets : Seq(Blocks)]

\* A call that chooses.
LEMMA ChoiceOp ==
  ASSUME NEW c \in ChoiceTypes, NEW o, o = [NoOp EXCEPT !.choice = c]
  PROVE  /\ o \in OpRecords /\ o.todo = <<>> /\ o.made = None /\ o.search = NoSearch
         /\ o.choice = c /\ Plain(o.todo) /\ o = [NoOp EXCEPT !.choice = o.choice]
<1>1. /\ o \in OpRecords /\ o.todo = <<>> /\ o.made = None /\ o.search = NoSearch
      /\ o.choice = c
  BY NoOpTypes DEF OpRecords, ChoiceTypes
<1>2. Plain(<<>>)
  BY DEF Plain
<1> QED BY <1>1, <1>2

\* A sound choice keeps the invariant.
LEMMA ChoiceKeeps ==
  ASSUME IInv, PoolIInv', NEW t \in Threads, UNCHANGED <<poolVars, flow, work, jumped, plan>>,
         ~Creating(call[t]), Plain(op[t].todo), op[t].made = None,
         NEW c \in ChoiceTypes, op' = [op EXCEPT ![t] = [NoOp EXCEPT !.choice = c]],
         c.work \in WorksOf(t), Chosen(work[c.work], c.targets),
         Invoker[work[c.work].type].selects = "one" => Len(c.targets) <= 1
  PROVE  IInv'
<1> DEFINE o == [NoOp EXCEPT !.choice = c]
<1>1. /\ o \in OpRecords /\ o.todo = <<>> /\ o.made = None /\ o.search = NoSearch
      /\ o.choice = c /\ Plain(o.todo) /\ o = [NoOp EXCEPT !.choice = o.choice]
  BY ChoiceOp
<1>2. op' = [op EXCEPT ![t] = o]
  OBVIOUS
<1> HIDE DEF o
<1>3. op'[t] = o
  BY <1>2, IInvParts DEF BuildingTyped
<1>4. UNCHANGED <<live, call>>
  BY DEF poolVars
<1>5. ThreadOK(t)'
  <2>1. ~Creating(call'[t])
    BY <1>4
  <2>2. WorksOf(t)' = WorksOf(t)
    BY DEF WorksOf
  <2>3. InCallback(t)'
    BY <1>1, <1>3, <2>2 DEF InCallback, Chooser, ChoosesOne
  <2> QED BY <2>1, <2>3 DEF ThreadOK
<1> QED BY <1>1, <1>2, <1>4, <1>5, OpKeeps

\* A callable begins to choose,
LEMMA CallbackKeeps ==
  ASSUME IInv, PoolIInv', NEW t \in Threads, Callback(t)
  PROVE  IInv'
<1>1. PICK w \in WorksOf(t) : op' = [op EXCEPT ![t].choice = [work |-> w, targets |-> <<>>]]
  BY DEF Callback
<1>2. Calls(t, "choose") /\ UNCHANGED <<poolVars, flow, work, jumped>>
  BY DEF Callback
<1>3. op[t] = NoOp /\ Plain(op[t].todo) /\ call[t] = Idle /\ plan' = plan
      /\ \A g : ~Empties(t, g)
  BY <1>2, CallBegins
<1> DEFINE c == [work |-> w, targets |-> <<>>]
<1>4. w \in Blocks
  BY <1>3, WorkOfThread
<1>5. op' = [op EXCEPT ![t] = [NoOp EXCEPT !.choice = c]]
  BY <1>1, <1>3
<1>6. c \in ChoiceTypes /\ c.work = w /\ c.targets = <<>>
  BY <1>4 DEF ChoiceTypes
<1>7. Chosen(work[w], <<>>)
  BY RangeOfEmpty DEF Chosen
<1> HIDE DEF c
<1>8. op[t].made = None
  BY <1>3, NoOpTypes
<1>9. Len(c.targets) <= 1
  BY <1>6
<1> QED BY <1>2, <1>3, <1>5, <1>6, <1>7, <1>8, <1>9, IdleCreatesNothing, ChoiceKeeps

\* a handle changes what is chosen,
LEMMA ChosenKeeps ==
  ASSUME IInv, PoolIInv', NEW t \in Threads, Choosing(t),
         UNCHANGED <<poolVars, flow, work, jumped, plan>>, NEW r,
         op' = [op EXCEPT ![t].choice.targets = r],
         \/ r \in OneTarget(Chooser(t), op[t].choice.targets)
         \/ ~ChoosesOne(t) /\ r \in ManyTargets(Chooser(t), op[t].choice.targets)
  PROVE  IInv'
<1> DEFINE d == op[t].choice
           c == [d EXCEPT !.targets = r]
           x == Chooser(t)
<1>1. InCallback(t)
  BY Phases DEF Choosing
<1>2. /\ op[t] = [NoOp EXCEPT !.choice = d] /\ d.work \in WorksOf(t)
      /\ Chosen(x, d.targets)
      /\ ChoosesOne(t) => Len(d.targets) <= 1
  BY <1>1 DEF InCallback
<1>3. d \in ChoiceTypes
  <2>1. op[t] \in OpRecords
    BY IInvParts, OpTypes
  <2> QED BY <2>1 DEF OpRecords, ChoiceTypes
<1>4. op[t].todo = <<>> /\ op[t].made = None /\ Plain(op[t].todo)
  BY <1>2, <1>3, ChoiceOp
<1>5. \A g : ~Empties(t, g)
  BY <1>4, PlainParts
<1>6. x \in WorkRecords /\ Edged(x)
  BY <1>2, <1>5, WorkOfThread DEF Chooser
<1> DEFINE e == d.targets
<1>7. Chosen(x, r) /\ (ChoosesOne(t) => Len(r) <= 1)
  <2>1. Chosen(x, e) /\ (ChoosesOne(t) => Len(e) <= 1)
    BY <1>2
  <2>2. r \in OneTarget(x, e) \/ (~ChoosesOne(t) /\ r \in ManyTargets(x, e))
    OBVIOUS
  <2> HIDE DEF x, e
  <2>3. CASE r \in OneTarget(x, e)
    BY <1>6, <2>1, <2>3, OneTargetChooses
  <2>4. CASE ~ChoosesOne(t) /\ r \in ManyTargets(x, e)
    BY <1>6, <2>1, <2>4, ManyTargetsChoose
  <2> QED BY <2>2, <2>3, <2>4
<1> HIDE DEF x
<1>9. r \in Seq(Blocks)
  BY <1>7 DEF Chosen
<1>10. c \in ChoiceTypes /\ c.work = d.work /\ c.targets = r
  BY <1>3, <1>9 DEF ChoiceTypes
<1>11. op' = [op EXCEPT ![t] = [NoOp EXCEPT !.choice = c]]
  <2>1. op' = [op EXCEPT ![t] = [op[t] EXCEPT !.choice = c]]
    OBVIOUS
  <2>2. [op[t] EXCEPT !.choice = c] = [NoOp EXCEPT !.choice = c]
    BY <1>2 DEF NoOp
  <2> QED BY <2>1, <2>2
<1>12. ~Creating(call[t])
  BY <1>4, IInvParts DEF ThreadOK
<1> HIDE DEF c
<1>13. Chosen(work[c.work], c.targets) /\ c.work \in WorksOf(t)
  BY <1>2, <1>7, <1>10 DEF x, Chooser
<1>14. Invoker[work[c.work].type].selects = "one" => Len(c.targets) <= 1
  BY <1>7, <1>10 DEF ChoosesOne, Chooser
<1> QED BY <1>4, <1>10, <1>11, <1>12, <1>13, <1>14, ChoiceKeeps

\* whatever handle it is,
LEMMA ChoiceCallsKeep ==
  ASSUME IInv, PoolIInv', NEW t \in Threads,
         BranchCall(t) \/ JumpCall(t) \/ MultiBranchCall(t) \/ MultiJumpCall(t)
  PROVE  IInv'
<1>1. CASE BranchCall(t)
  <2>1. PICK r \in OneTarget(Chooser(t), op[t].choice.targets) :
          op' = [op EXCEPT ![t].choice.targets = r]
    BY <1>1 DEF BranchCall, Chooses
  <2>2. Choosing(t) /\ UNCHANGED <<poolVars, flow, work, jumped, plan>>
    BY <1>1 DEF BranchCall, Chooses
  <2> QED BY <2>1, <2>2, ChosenKeeps
<1>2. CASE JumpCall(t)
  <2>1. PICK r \in OneTarget(Chooser(t), op[t].choice.targets) :
          op' = [op EXCEPT ![t].choice.targets = r]
    BY <1>2 DEF JumpCall, Chooses
  <2>2. Choosing(t) /\ UNCHANGED <<poolVars, flow, work, jumped, plan>>
    BY <1>2 DEF JumpCall, Chooses
  <2> QED BY <2>1, <2>2, ChosenKeeps
<1>3. CASE MultiBranchCall(t)
  <2>1. PICK r \in ManyTargets(Chooser(t), op[t].choice.targets) :
          op' = [op EXCEPT ![t].choice.targets = r]
    BY <1>3 DEF MultiBranchCall, Chooses
  <2>2. /\ Choosing(t) /\ UNCHANGED <<poolVars, flow, work, jumped, plan>>
        /\ Chooser(t).type = "multiBranch"
    BY <1>3 DEF MultiBranchCall, Chooses
  <2>3. ~ChoosesOne(t)
    BY <2>2 DEF ChoosesOne, Invoker, MultiBranchInvoker, Node
  <2> QED BY <2>1, <2>2, <2>3, ChosenKeeps
<1>4. CASE MultiJumpCall(t)
  <2>1. PICK r \in ManyTargets(Chooser(t), op[t].choice.targets) :
          op' = [op EXCEPT ![t].choice.targets = r]
    BY <1>4 DEF MultiJumpCall, Chooses
  <2>2. /\ Choosing(t) /\ UNCHANGED <<poolVars, flow, work, jumped, plan>>
        /\ Chooser(t).type = "multiJump"
    BY <1>4 DEF MultiJumpCall, Chooses
  <2>3. ~ChoosesOne(t)
    <3>1. Invoker["multiJump"] = MultiJumpInvoker
      BY DEF Invoker
    <3>2. MultiJumpInvoker.selects = "some"
      BY DEF MultiJumpInvoker, Node
    <3> QED BY <2>2, <3>1, <3>2 DEF ChoosesOne
  <2> QED BY <2>1, <2>2, <2>3, ChosenKeeps
<1> QED BY <1>1, <1>2, <1>3, <1>4

\* and the callable returns.
LEMMA CallbackReturnKeeps ==
  ASSUME IInv, PoolIInv', NEW t \in Threads, CallbackReturns(t)
  PROVE  IInv'
<1>1. Choosing(t) /\ Unwind(t) /\ UNCHANGED <<poolVars, flow, work, jumped, plan>>
  BY DEF CallbackReturns
<1>2. InCallback(t)
  BY <1>1, Phases DEF Choosing
<1>3. op[t] = [NoOp EXCEPT !.choice = op[t].choice]
  BY <1>2 DEF InCallback
<1>4. op[t].todo = <<>> /\ op[t].made = None
  BY <1>3 DEF NoOp
<1>5. Plain(op[t].todo)
  BY <1>4 DEF Plain
<1>6. UNCHANGED <<live, call>>
  BY <1>1 DEF poolVars
<1>7. ~Creating(call'[t])
  BY <1>4, <1>6, IInvParts DEF ThreadOK
<1> QED BY <1>1, <1>4, <1>5, <1>6, <1>7, UnwindKeeps

-----------------------------------------------------------------------------
(* Edits of the edges.                                                     *)

\* A step that redraws the edges of one flow of t, without a strict cycle.
LEMMA RedrawKeeps ==
  ASSUME IInv, PoolIInv', NEW t \in Threads, NEW g \in FlowsOf[t] \ Dying,
         NEW E \in SUBSET (WorksIn(g) \X WorksIn(g)),
         Redrawn(work, work', WorksIn(g), E), Acyclic(E, WorksIn(g) \ jumped),
         UNCHANGED <<flow, live, jumped, plan>>, op' \in [Threads -> OpRecords], ThreadOK(t)',
         \A u \in Threads \ {t} : op'[u] = op[u] /\ call'[u] = call[u],
         op'[t].made = op[t].made,
         \A h : Empties(t, h)' <=> Empties(t, h),
         \A b : Dooms(t, b)' <=> Dooms(t, b)
  PROVE  IInv'
<1> DEFINE W == WorksIn(g)
<1>1. g \in Flows \ Dying
  BY FlowsApart
<1>2. /\ W \subseteq Blocks
      /\ \A w \in W : w \in Blocks /\ w \in live /\ work[w].graph = g
  BY <1>1, FlowWorks
<1>3. /\ Drawn(work', W, E)
      /\ \A b \in Blocks : (b \notin W => work'[b] = work[b]) /\ Rest(work'[b]) = Rest(work[b])
  BY DEF Redrawn
<1>4. work' \in [Blocks -> WorkRecords] /\ \A b \in W : Edged(work'[b])
  BY <1>3 DEF Drawn
<1>5. BuildingTyped'
  BY <1>4, IInvParts DEF BuildingTyped
<1>6. ASSUME NEW b \in W
      PROVE  /\ b \in live /\ work[b].graph \in FlowsOf[t]
             /\ work'[b].graph = work[b].graph
             /\ work'[b].nsucc \in 0 .. Len(work'[b].edges)
             /\ Ordered(work'[b].acquires) /\ Distinct(work'[b].releases)
             /\ IsJump(work'[b]) => b \in jumped'
  <2>1. b \in Blocks /\ b \in live /\ work[b].graph = g
    BY <1>2
  <2>2. Rest(work'[b]) = Rest(work[b])
    BY <1>3, <2>1
  <2>3. /\ work'[b].graph = work[b].graph /\ work'[b].type = work[b].type
        /\ work'[b].acquires = work[b].acquires /\ work'[b].releases = work[b].releases
    BY <2>2 DEF Rest
  <2>4. work'[b].nsucc \in 0 .. Len(work'[b].edges)
    BY <1>4 DEF Edged
  <2>5. BlockOK(b)
    BY <2>1, IInvParts
  <2> QED BY <2>1, <2>3, <2>4, <2>5 DEF BlockOK, IsJump
<1>7. ASSUME NEW h \in FlowsOf[t] \ Dying
      PROVE  /\ Drawn(work', WorksIn(h), Edges(work', WorksIn(h)))
             /\ Acyclic(Edges(work', WorksIn(h)), WorksIn(h) \ jumped')
  <2>1. CASE h = g
    <3>1. Edges(work', W) = E
      BY <1>3, EdgesDrawn
    <3> QED BY <1>3, <2>1, <3>1
  <2>2. CASE h # g
    <3> DEFINE T == WorksIn(h)
    <3>1. h \in Flows \ Dying
      BY FlowsApart
    <3>2. /\ Drawn(work, T, Edges(work, T)) /\ Acyclic(Edges(work, T), T \ jumped)
          /\ \A w \in T : w \in Blocks /\ work[w].graph = h
      BY <3>1, FlowWorks DEF EdgesIn
    <3>3. \A w \in T : w \notin W
      BY <1>2, <2>2, <3>2
    <3>4. \A w \in T : work'[w] = work[w]
      BY <1>3, <3>2, <3>3
    <3> HIDE DEF T
    <3>5. Edges(work', T) = Edges(work, T) /\ Drawn(work', T, Edges(work, T))
      BY <1>4, <3>2, <3>4, EdgesAgree
    <3> QED BY <3>2, <3>5 DEF T
  <2> QED BY <2>1, <2>2
<1> HIDE DEF W
<1>8. \A b \in Blocks \ W : work'[b] = work[b] /\ (b \in jumped' <=> b \in jumped)
  BY <1>3
<1> QED BY <1>5, <1>6, <1>7, <1>8, EditKeeps

\* A thread that is at nothing.
LEMMA NothingToDo ==
  ASSUME NEW t \in Threads, op'[t] = NoOp, ~Creating(call'[t])
  PROVE  ThreadOK(t)'
<1>1. DOMAIN NoOp.todo = {}
  BY NoOpTypes
<1>2. Making(t)'
  BY <1>1, NoOpTypes DEF Making
<1> QED BY <1>2 DEF ThreadOK

\* A call with one part that redraws a graph.
LEMMA EdgeCallKeeps ==
  ASSUME IInv, PoolIInv', NEW t \in Threads, NEW name, Calls(t, name),
         UNCHANGED <<poolVars, flow, op, jumped>>, NEW g \in FlowsOf[t],
         NEW E \in SUBSET EdgesIn(g), Redrawn(work, work', WorksIn(g), E)
  PROVE  IInv'
<1>1. /\ op[t] = NoOp /\ call[t] = Idle /\ plan' = plan
      /\ g \in Flows \ Dying
  BY CallBegins
<1>2. UNCHANGED <<live, call>>
  BY DEF poolVars
<1>3. ThreadOK(t)'
  BY <1>1, <1>2, NothingToDo, IdleCreatesNothing
<1>4. E \in SUBSET (WorksIn(g) \X WorksIn(g))
  BY DEF EdgesIn, Edges
<1>5. Acyclic(E, WorksIn(g) \ jumped)
  <2>1. Acyclic(EdgesIn(g), WorksIn(g) \ jumped)
    BY <1>1, FlowWorks
  <2> QED BY <2>1, AcyclicFewer
<1>6. (\A h : Empties(t, h)' <=> Empties(t, h)) /\ \A b : Dooms(t, b)' <=> Dooms(t, b)
  BY DEF Empties, Dooms
<1>7. op' \in [Threads -> OpRecords]
  BY IInvParts DEF BuildingTyped
<1> QED BY <1>1, <1>2, <1>3, <1>4, <1>5, <1>6, <1>7, RedrawKeeps

\* A call with one part that changes nothing.
LEMMA NoEditKeeps ==
  ASSUME IInv, PoolIInv', NEW t \in Threads, NEW name, Calls(t, name),
         UNCHANGED <<poolVars, flow, work, op, jumped>>
  PROVE  IInv'
<1>1. op[t] = NoOp /\ call[t] = Idle /\ plan' = plan
  BY CallBegins
<1>2. UNCHANGED <<live, call>>
  BY DEF poolVars
<1>3. ThreadOK(t)'
  BY <1>1, <1>2, NothingToDo, IdleCreatesNothing
<1>4. (\A h : Empties(t, h)' <=> Empties(t, h)) /\ \A b : Dooms(t, b)' <=> Dooms(t, b)
  BY DEF Empties, Dooms
<1>5. BuildingTyped'
  BY <1>1, IInvParts DEF BuildingTyped
<1> QED BY <1>2, <1>3, <1>4, <1>5, QuietKeeps

\* The flow of a Work, as a digraph.
LEMMA WorkInGraph ==
  ASSUME IInv, NEW t \in Threads, \A h : ~Empties(t, h), NEW u \in WorksOf(t)
  PROVE  LET g == work[u].graph
         IN  /\ g \in FlowsOf[t] \ Dying /\ u \in WorksIn(g) /\ WorksIn(g) \in SUBSET Blocks
             /\ Drawn(work, WorksIn(g), EdgesIn(g))
             /\ \A v : v \in Range(Successors(work[u])) => v \in WorksIn(g) /\ <<u, v>> \in EdgesIn(g)
             /\ \A v : <<u, v>> \in EdgesIn(g) => v \in Range(Successors(work[u]))
<1> DEFINE g == work[u].graph
<1>1. /\ work[u] \in WorkRecords /\ Edged(work[u]) /\ g \in FlowsOf[t] \ Dying
      /\ g \in Flows \ Dying /\ u \in WorksIn(g)
  BY WorkOfThread
<1>2. WorksIn(g) \in SUBSET Blocks /\ Drawn(work, WorksIn(g), EdgesIn(g))
  BY <1>1, FlowWorks
<1>3. Range(Successors(work[u])) = Targets(work[u])
  BY <1>1, EdgeSets
<1>4. \A v : v \in Targets(work[u]) <=> v \in WorksIn(g) /\ <<u, v>> \in EdgesIn(g)
  BY <1>1, <1>2 DEF Drawn
<1>5. \A v : <<u, v>> \in EdgesIn(g) => v \in WorksIn(g)
  BY DEF EdgesIn, Edges
<1> QED BY <1>1, <1>2, <1>3, <1>4, <1>5

\* Edges that are removed.
LEMMA DisconnectKeeps ==
  ASSUME IInv, PoolIInv', NEW t \in Threads,
         Disconnect(t) \/ DropPredecessors(t) \/ DropSuccessors(t)
  PROVE  IInv'
<1>1. Calls(t, "disconnect") /\ UNCHANGED <<poolVars, flow, op, jumped>>
  BY DEF Disconnect, DropPredecessors, DropSuccessors, Edits
<1>2. \A h : ~Empties(t, h)
  BY <1>1, CallBegins
<1>3. CASE Disconnect(t)
  <2>1. PICK u \in WorksOf(t), v \in WorksOf(t) : work' = RemoveSuccessor(work, u, v)
    BY <1>3 DEF Disconnect, Edits
  <2> DEFINE g == work[u].graph
             E == EdgesIn(g) \ {<<u, v>>}
  <2>2. /\ g \in FlowsOf[t] /\ u \in WorksIn(g) /\ WorksIn(g) \in SUBSET Blocks
        /\ Drawn(work, WorksIn(g), EdgesIn(g))
        /\ v \in Range(Successors(work[u])) => v \in WorksIn(g)
    BY <1>2, WorkInGraph
  <2>3. CASE v \notin Range(Successors(work[u]))
    <3>1. work' = work
      BY <2>1, <2>3 DEF RemoveSuccessor
    <3> QED BY <1>1, <3>1, NoEditKeeps
  <2>4. CASE v \in Range(Successors(work[u]))
    <3>1. Redrawn(work, work', WorksIn(g), E)
      BY <2>1, <2>2, <2>4, RemoveSuccessorRedraws
    <3>2. E \in SUBSET EdgesIn(g)
      OBVIOUS
    <3> HIDE DEF E
    <3> QED BY <1>1, <2>2, <3>1, <3>2, EdgeCallKeeps
  <2> QED BY <2>3, <2>4
<1>4. CASE DropPredecessors(t)
  <2>1. PICK w \in WorksOf(t) : work' = ClearPredecessors(work, w)
    BY <1>4 DEF DropPredecessors, Edits
  <2> DEFINE g == work[w].graph
             E == {e \in EdgesIn(g) : e[2] # w}
  <2>2. /\ g \in FlowsOf[t] /\ w \in WorksIn(g) /\ WorksIn(g) \in SUBSET Blocks
        /\ Drawn(work, WorksIn(g), EdgesIn(g))
    BY <1>2, WorkInGraph
  <2>3. Redrawn(work, work', WorksIn(g), E)
    BY <2>1, <2>2, ClearPredecessorsRedraws
  <2>4. E \in SUBSET EdgesIn(g)
    OBVIOUS
  <2> HIDE DEF E
  <2> QED BY <1>1, <2>2, <2>3, <2>4, EdgeCallKeeps
<1>5. CASE DropSuccessors(t)
  <2>1. PICK w \in WorksOf(t) : work' = ClearSuccessors(work, w)
    BY <1>5 DEF DropSuccessors, Edits
  <2> DEFINE g == work[w].graph
             E == {e \in EdgesIn(g) : e[1] # w}
  <2>2. /\ g \in FlowsOf[t] /\ w \in WorksIn(g) /\ WorksIn(g) \in SUBSET Blocks
        /\ Drawn(work, WorksIn(g), EdgesIn(g))
    BY <1>2, WorkInGraph
  <2>3. Redrawn(work, work', WorksIn(g), E)
    BY <2>1, <2>2, ClearSuccessorsRedraws
  <2>4. E \in SUBSET EdgesIn(g)
    OBVIOUS
  <2> HIDE DEF E
  <2> QED BY <1>1, <2>2, <2>3, <2>4, EdgeCallKeeps
<1> QED BY <1>3, <1>4, <1>5

\* A part is done, and the others follow.
LEMMA PartIsDone ==
  ASSUME BuildingTyped, NEW t \in Threads, op[t].todo # <<>>, PartDone(t)
  PROVE  /\ op' \in [Threads -> OpRecords]
         /\ \A u \in Threads \ {t} : op'[u] = op[u]
         /\ op'[t].todo = Tail(op[t].todo) /\ op'[t].made = None
         /\ op'[t].search = NoSearch /\ op'[t].choice = NoChoice
         /\ op'[t] = [NoOp EXCEPT !.todo = op'[t].todo]
         /\ Len(op'[t].todo) = Len(op[t].todo) - 1
         /\ DOMAIN op'[t].todo = 1 .. Len(op[t].todo) - 1
         /\ \A i \in 1 .. Len(op[t].todo) - 1 :
              i + 1 \in DOMAIN op[t].todo /\ op'[t].todo[i] = op[t].todo[i + 1]
<1> DEFINE s == Tail(op[t].todo)
           o == [NoOp EXCEPT !.todo = s]
<1>1. /\ s \in Seq(Parts) /\ Len(s) = Len(op[t].todo) - 1
      /\ \A i \in DOMAIN s : i + 1 \in DOMAIN op[t].todo /\ s[i] = op[t].todo[i + 1]
  BY OpTypes
<1>2. op' = [op EXCEPT ![t] = o]
  BY DEF PartDone
<1> HIDE DEF s
<1>3. /\ o \in OpRecords /\ o.todo = s /\ o.made = None
      /\ o.search = NoSearch /\ o.choice = NoChoice
  BY <1>1, TodoTypes
<1>4. o = [NoOp EXCEPT !.todo = o.todo]
  BY <1>3
<1> HIDE DEF o
<1>5. op'[t] = o /\ (\A u \in Threads \ {t} : op'[u] = op[u]) /\ op' \in [Threads -> OpRecords]
  BY <1>2, <1>3 DEF BuildingTyped
<1>6. DOMAIN s = 1 .. Len(s)
  BY <1>1, LenProperties
<1> QED BY <1>1, <1>3, <1>4, <1>5, <1>6 DEF s

\* An edge that the search let through makes no cycle.
LEMMA EdgeMakesNoCycle ==
  ASSUME IInv, NEW t \in Threads, Part(t, "connect"), op[t].search.pc \in {"fine", "noPath"},
         NEW u, NEW v, u = Head(op[t].todo).from, v = Head(op[t].todo).to,
         NEW g, g = work[u].graph
  PROVE  /\ g \in FlowsOf[t] \ Dying /\ WorksIn(g) \in SUBSET Blocks
         /\ u \in WorksIn(g) /\ v \in WorksIn(g) /\ <<u, v>> \notin EdgesIn(g)
         /\ Drawn(work, WorksIn(g), EdgesIn(g))
         /\ Acyclic(EdgesIn(g), WorksIn(g) \ jumped)
         /\ Acyclic(EdgesIn(g) \cup {<<u, v>>}, WorksIn(g) \ jumped)
<1> DEFINE W == WorksIn(g)
           E == EdgesIn(g)
           L == {w \in W : ~IsJump(work[w])}
           C == W \ jumped
<1>1. g \in FlowsOf[t] /\ g \in Flows \ Dying
  BY DueEdge
<1>2. SearchFacts(work, W, u, v, op[t].search)
  <2>1. op[t].search # NoSearch
    BY NoOpTypes
  <2> QED BY <2>1, DueEdge
<1>3. E = Edges(work, W)
  BY DEF EdgesIn
<1>4. /\ u \in W /\ v \in W /\ <<u, v>> \notin E
      /\ op[t].search.pc = "fine" => u \notin L \/ v \notin L
      /\ op[t].search.pc = "noPath" => Apart(v, u, E, L)
  BY <1>2, <1>3 DEF SearchFacts
<1>5. /\ Drawn(work, W, E) /\ Acyclic(E, C) /\ W \in SUBSET Blocks
  BY <1>1, FlowWorks
<1>6. C \subseteq L
  <2>1. \A w \in W : IsJump(work[w]) => w \in jumped
    BY <1>5, IInvParts DEF BlockOK
  <2> QED BY <2>1
<1> HIDE DEF W, E, L, C
<1>7. Acyclic(E \cup {<<u, v>>}, C)
  <2>1. CASE op[t].search.pc = "fine"
    <3>1. u \notin C \/ v \notin C
      BY <1>4, <1>6, <2>1
    <3> DEFINE F == E \cup {<<u, v>>}
    <3>2. \A e \in F : e[1] \in C /\ e[2] \in C => e \in E /\ e[1] \in C /\ e[2] \in C
      BY <3>1
    <3> HIDE DEF F
    <3>3. Acyclic(F, C)
      BY <1>5, <3>2, AcyclicFewer
    <3> QED BY <3>3 DEF F
  <2>2. CASE op[t].search.pc = "noPath"
    BY <1>4, <1>5, <1>6, <2>2, AcyclicMore
  <2> QED BY <2>1, <2>2
<1> QED BY <1>1, <1>4, <1>5, <1>7 DEF W, E, C

\* The edge that is due is added,
LEMMA ConnectKeeps ==
  ASSUME IInv, PoolIInv', NEW t \in Threads, Connect(t)
  PROVE  IInv'
<1> DEFINE u == Head(op[t].todo).from
           v == Head(op[t].todo).to
           g == work[u].graph
           E == EdgesIn(g) \cup {<<u, v>>}
<1>1. /\ Part(t, "connect") /\ op[t].search.pc \in {"fine", "noPath"}
      /\ work' = Connected(work, u, v) /\ PartDone(t)
      /\ UNCHANGED <<poolVars, flow, plan, jumped>>
  BY DEF Connect
<1>2. /\ g \in FlowsOf[t] \ Dying /\ WorksIn(g) \in SUBSET Blocks
      /\ u \in WorksIn(g) /\ v \in WorksIn(g) /\ <<u, v>> \notin EdgesIn(g)
      /\ Drawn(work, WorksIn(g), EdgesIn(g))
      /\ Acyclic(E, WorksIn(g) \ jumped)
  BY <1>1, EdgeMakesNoCycle
<1>3. Redrawn(work, work', WorksIn(g), E)
  BY <1>1, <1>2, ConnectedRedraws
<1>4. E \in SUBSET (WorksIn(g) \X WorksIn(g))
  <2>1. \A h : \A e \in EdgesIn(h) : e \in WorksIn(h) \X WorksIn(h)
    BY DEF EdgesIn, Edges
  <2>2. <<u, v>> \in WorksIn(g) \X WorksIn(g)
    BY <1>2
  <2> HIDE DEF u, v, g
  <2> QED BY <2>1, <2>2
<1>5. /\ op[t].todo # <<>> /\ call[t] = Idle /\ Plain(op[t].todo) /\ Connecting(t)
  BY <1>1, PartIsDue
<1>6. UNCHANGED <<live, call>>
  BY <1>1 DEF poolVars
<1>7. /\ op' \in [Threads -> OpRecords]
      /\ \A x \in Threads \ {t} : op'[x] = op[x]
      /\ op'[t].made = None /\ op'[t].search = NoSearch /\ op'[t].choice = NoChoice
      /\ DOMAIN op'[t].todo = 1 .. Len(op[t].todo) - 1
      /\ \A i \in 1 .. Len(op[t].todo) - 1 :
           i + 1 \in DOMAIN op[t].todo /\ op'[t].todo[i] = op[t].todo[i + 1]
  BY <1>1, <1>5, IInvParts, PartIsDone
<1>8. ThreadOK(t)'
  <2>1. ~Creating(call'[t])
    BY <1>5, <1>6, IdleCreatesNothing
  <2>2. WorksOf(t)' = WorksOf(t)
    BY <1>1 DEF WorksOf
  <2>3. \A i \in DOMAIN op'[t].todo :
          /\ op'[t].todo[i].do = "connect"
          /\ op'[t].todo[i].from \in WorksOf(t) /\ op'[t].todo[i].to \in WorksOf(t)
    BY <1>5, <1>7 DEF Connecting
  <2>4. Connecting(t)'
    BY <1>7, <2>2, <2>3 DEF Connecting
  <2> QED BY <2>1, <2>4 DEF ThreadOK
<1>9. (\A h : ~Empties(t, h)) /\ \A b : ~Dooms(t, b)
  BY <1>5, PlainParts
<1>10. (\A h : ~Empties(t, h)') /\ \A b : ~Dooms(t, b)'
  <2>1. \A i \in DOMAIN op'[t].todo : op'[t].todo[i].do = "connect"
    BY <1>5, <1>7 DEF Connecting
  <2> QED BY <2>1 DEF Empties, Dooms
<1>11. op[t].made = None
  BY <1>5 DEF Connecting
<1> HIDE DEF g, E
<1> QED BY <1>1, <1>2, <1>3, <1>4, <1>6, <1>7, <1>8, <1>9, <1>10, <1>11, RedrawKeeps

\* or cannot be added, and the other end forgets it.
LEMMA ConnectThrowsKeeps ==
  ASSUME IInv, PoolIInv', NEW t \in Threads, ConnectThrows(t)
  PROVE  IInv'
<1> DEFINE u == Head(op[t].todo).from
           v == Head(op[t].todo).to
           g == work[u].graph
           E == EdgesIn(g)
<1>1. /\ Part(t, "connect") /\ op[t].search.pc \in {"fine", "noPath"}
      /\ work' \in Unconnected(work, u, v) /\ Unwind(t)
      /\ UNCHANGED <<poolVars, flow, plan, jumped>>
  BY DEF ConnectThrows
<1>2. /\ g \in FlowsOf[t] \ Dying /\ WorksIn(g) \in SUBSET Blocks
      /\ u \in WorksIn(g) /\ v \in WorksIn(g) /\ <<u, v>> \notin E
      /\ Drawn(work, WorksIn(g), E)
      /\ Acyclic(E, WorksIn(g) \ jumped)
  BY <1>1, EdgeMakesNoCycle
<1>3. Redrawn(work, work', WorksIn(g), E)
  BY <1>1, <1>2, UnconnectedRedraws
<1>4. E \in SUBSET (WorksIn(g) \X WorksIn(g))
  BY DEF EdgesIn, Edges
<1>5. call[t] = Idle /\ Plain(op[t].todo) /\ Connecting(t)
  BY <1>1, PartIsDue
<1>6. UNCHANGED <<live, call>>
  BY <1>1 DEF poolVars
<1>7. ~Creating(call'[t])
  BY <1>5, <1>6, IdleCreatesNothing
<1>8. ThreadOK(t)' /\ op'[t] = NoOp
  BY <1>1, <1>7, IInvParts, UnwoundOK
<1>9. op' \in [Threads -> OpRecords] /\ \A x \in Threads \ {t} : op'[x] = op[x]
  BY <1>1, NoOpTypes, IInvParts DEF Unwind, BuildingTyped
<1>10. (\A h : ~Empties(t, h)) /\ \A b : ~Dooms(t, b)
  BY <1>5, PlainParts
<1>11. (\A h : ~Empties(t, h)') /\ \A b : ~Dooms(t, b)'
  BY <1>8, NoOpTypes DEF Empties, Dooms, Plain
<1>12. op[t].made = None /\ op'[t].made = None
  BY <1>5, <1>8, NoOpTypes DEF Connecting
<1> HIDE DEF g, E
<1> QED BY <1>1, <1>2, <1>3, <1>4, <1>6, <1>8, <1>9, <1>10, <1>11, <1>12, RedrawKeeps

-----------------------------------------------------------------------------
(* Edits of one Work.                                                      *)

\* w gets another type or other requests.
LEMMA RecordKeeps ==
  ASSUME IInv, PoolIInv', NEW t \in Threads, NEW name, Calls(t, name),
         UNCHANGED <<poolVars, flow, op>>, NEW w \in WorksOf(t), NEW y \in WorkRecords,
         work' = [work EXCEPT ![w] = y],
         y.graph = work[w].graph, y.edges = work[w].edges, y.nsucc = work[w].nsucc,
         Ordered(y.acquires), Distinct(y.releases), IsJump(y) => w \in jumped',
         jumped' \in {jumped, jumped \cup {w}}
  PROVE  IInv'
<1> DEFINE X == {w}
<1>1. /\ op[t] = NoOp /\ call[t] = Idle /\ plan' = plan /\ \A h : ~Empties(t, h)
      /\ \A h \in FlowsOf[t] : h \in Flows \ Dying
  BY CallBegins
<1>2. /\ w \in Blocks /\ w \in live /\ Edged(work[w])
      /\ work[w].graph \in FlowsOf[t]
  BY <1>1, WorkOfThread
<1>3. UNCHANGED <<live, call>>
  BY DEF poolVars
<1>4. ThreadOK(t)'
  BY <1>1, <1>3, NothingToDo, IdleCreatesNothing
<1>5. (\A h : Empties(t, h)' <=> Empties(t, h)) /\ \A b : Dooms(t, b)' <=> Dooms(t, b)
  BY DEF Empties, Dooms
<1>6. /\ work' \in [Blocks -> WorkRecords] /\ work'[w] = y
      /\ \A b \in Blocks : b # w => work'[b] = work[b]
  BY <1>2, IInvParts DEF BuildingTyped
<1>7. BuildingTyped'
  BY <1>1, <1>6, IInvParts DEF BuildingTyped
<1>8. ASSUME NEW b \in Blocks
      PROVE  /\ Edged(work[b]) => Edged(work'[b])
             /\ Targets(work'[b]) = Targets(work[b]) /\ Origins(work'[b]) = Origins(work[b])
  <2>1. CASE b # w
    BY <1>6, <2>1
  <2>2. CASE b = w
    <3>1. work'[b].edges = work[b].edges /\ work'[b].nsucc = work[b].nsucc
      BY <1>6, <2>2
    <3>2. Targets(work'[b]) = Targets(work[b]) /\ Origins(work'[b]) = Origins(work[b])
      BY <3>1 DEF Targets, Origins
    <3>3. Edged(work[b]) => Edged(work'[b])
      BY <3>1 DEF Edged
    <3> QED BY <3>2, <3>3
  <2> QED BY <2>1, <2>2
<1>9. ASSUME NEW g \in FlowsOf[t] \ Dying
      PROVE  /\ Drawn(work', WorksIn(g), Edges(work', WorksIn(g)))
             /\ Acyclic(Edges(work', WorksIn(g)), WorksIn(g) \ jumped')
  <2> DEFINE W == WorksIn(g)
  <2>1. /\ W \subseteq Blocks /\ Drawn(work, W, EdgesIn(g))
        /\ Acyclic(EdgesIn(g), W \ jumped)
    BY <1>1, FlowWorks
  <2>2. EdgesIn(g) = Edges(work, W)
    BY DEF EdgesIn
  <2> HIDE DEF W
  <2>3. Edges(work', W) = Edges(work, W)
    <3>1. \A e \in W \X W : Targets(work'[e[1]]) = Targets(work[e[1]])
      BY <1>8, <2>1
    <3> QED BY <3>1 DEF Edges
  <2>4. Drawn(work', W, Edges(work, W))
    BY <1>6, <1>8, <2>1, <2>2 DEF Drawn
  <2>5. Acyclic(Edges(work, W), W \ jumped')
    <3>1. \A e \in Edges(work, W) : e[1] \in W \ jumped' /\ e[2] \in W \ jumped' =>
            e \in Edges(work, W) /\ e[1] \in W \ jumped /\ e[2] \in W \ jumped
      OBVIOUS
    <3> DEFINE E == Edges(work, W)
               S == W \ jumped
               T == W \ jumped'
    <3>2. Acyclic(E, S) /\ \A e \in E : e[1] \in T /\ e[2] \in T => e \in E /\ e[1] \in S /\ e[2] \in S
      BY <2>1, <2>2, <3>1
    <3> HIDE DEF E, S, T
    <3>3. Acyclic(E, T)
      BY <3>2, AcyclicFewer
    <3> QED BY <3>3 DEF E, T
  <2> QED BY <2>3, <2>4, <2>5 DEF W
<1>10. \A b \in Blocks \ X : work'[b] = work[b] /\ (b \in jumped' <=> b \in jumped)
  BY <1>6
<1>11. \A b \in X : /\ b \in live /\ work[b].graph \in FlowsOf[t]
                    /\ work'[b].graph = work[b].graph
                    /\ work'[b].nsucc \in 0 .. Len(work'[b].edges)
                    /\ Ordered(work'[b].acquires) /\ Distinct(work'[b].releases)
                    /\ IsJump(work'[b]) => b \in jumped'
  BY <1>2, <1>6 DEF Edged
<1> HIDE DEF X
<1> QED BY <1>3, <1>4, <1>5, <1>7, <1>9, <1>10, <1>11, EditKeeps

\* What is known of the Work.
LEMMA OneWork ==
  ASSUME IInv, NEW t \in Threads, NEW name, Calls(t, name), NEW w \in WorksOf(t)
  PROVE  /\ w \in Blocks /\ work[w] \in WorkRecords
         /\ Ordered(work[w].acquires) /\ Distinct(work[w].releases)
         /\ IsJump(work[w]) => w \in jumped
<1>1. w \in Blocks /\ work[w] \in WorkRecords
  BY CallBegins, WorkOfThread
<1> QED BY <1>1, IInvParts DEF BlockOK

\* Another payload.
LEMMA ReplaceKeeps ==
  ASSUME IInv, PoolIInv', NEW t \in Threads, Replace(t) \/ ReplaceObject(t) \/ ReplaceThrows(t)
  PROVE  IInv'
<1>1. Calls(t, "replace")
  BY DEF Replace, ReplaceObject, ReplaceThrows
<1>2. PICK w \in WorksOf(t), k \in NewTypes \cup {Nothing} : Becomes(w, k)
  BY DEF Replace, ReplaceObject, ReplaceThrows
<1>3. k \in GraphKinds \cup {Nothing}
  <2>1. \A kinds \in plan.kinds : Range(kinds) \subseteq GraphKinds
    BY PlanKinds DEF Range
  <2> QED BY <2>1 DEF NewTypes
<1> DEFINE y == [work[w] EXCEPT !.type = k]
<1>4. /\ w \in Blocks /\ work[w] \in WorkRecords
      /\ Ordered(work[w].acquires) /\ Distinct(work[w].releases)
  BY <1>1, OneWork
<1>5. /\ y \in WorkRecords /\ y.graph = work[w].graph /\ y.edges = work[w].edges
      /\ y.nsucc = work[w].nsucc /\ y.acquires = work[w].acquires
      /\ y.releases = work[w].releases
  BY <1>3, <1>4 DEF WorkRecords
<1>6. /\ work' = [work EXCEPT ![w] = y] /\ UNCHANGED <<poolVars, flow, op>>
      /\ jumped' = IF IsJump(work'[w]) THEN jumped \cup {w} ELSE jumped
  BY <1>2 DEF Becomes
<1> HIDE DEF y
<1>7. work'[w] = y
  BY <1>4, <1>6, IInvParts DEF BuildingTyped
<1>8. jumped' \in {jumped, jumped \cup {w}} /\ (IsJump(y) => w \in jumped')
  BY <1>6, <1>7
<1> QED BY <1>1, <1>4, <1>5, <1>6, <1>8, RecordKeeps

\* A Work with other requests.
Asking(x, a, r) == [x EXCEPT !.acquires = a, !.releases = r]

\* Other requests that are in order keep the invariant,
LEMMA AskingKeeps ==
  ASSUME IInv, PoolIInv', NEW t \in Threads, NEW name, Calls(t, name), NEW w \in WorksOf(t),
         NEW a \in Seq(Requests), NEW r \in Seq(Requests), Ordered(a), Distinct(r),
         work' = [work EXCEPT ![w] = Asking(work[w], a, r)],
         UNCHANGED <<poolVars, flow, op, jumped>>
  PROVE  IInv'
<1> DEFINE y == Asking(work[w], a, r)
<1>1. w \in Blocks /\ work[w] \in WorkRecords /\ (IsJump(work[w]) => w \in jumped)
  BY OneWork
<1>2. /\ y \in WorkRecords /\ y.graph = work[w].graph /\ y.edges = work[w].edges
      /\ y.nsucc = work[w].nsucc /\ y.acquires = a /\ y.releases = r
      /\ y.type = work[w].type
  BY <1>1 DEF WorkRecords, Asking
<1>3. work' = [work EXCEPT ![w] = y]
  OBVIOUS
<1> HIDE DEF y
<1>4. IsJump(y) => w \in jumped
  BY <1>1, <1>2 DEF IsJump
<1>5. jumped' = jumped
  OBVIOUS
<1> QED BY <1>2, <1>3, <1>4, <1>5, RecordKeeps

\* and they are in order.
LEMMA RequestsKeep ==
  ASSUME IInv, PoolIInv', NEW t \in Threads,
         AddAcquire(t) \/ AddRelease(t) \/ DropAcquire(t) \/ DropRelease(t) \/ DropRequests(t)
  PROVE  IInv'
<1>1. Calls(t, "request") /\ UNCHANGED <<poolVars, flow, op, jumped>>
  BY DEF AddAcquire, AddRelease, DropAcquire, DropRelease, DropRequests, Edits
<1>2. ASSUME NEW w \in WorksOf(t)
      PROVE  /\ w \in Blocks /\ work[w] \in WorkRecords
             /\ work[w].acquires \in Seq(Requests) /\ work[w].releases \in Seq(Requests)
             /\ Ordered(work[w].acquires) /\ Distinct(work[w].releases)
  BY <1>1, OneWork DEF WorkRecords
<1>3. ASSUME NEW w \in WorksOf(t), NEW a \in Seq(Requests), Ordered(a),
             work' = [work EXCEPT ![w].acquires = a]
      PROVE  IInv'
  <2> DEFINE r == work[w].releases
  <2>1. r \in Seq(Requests) /\ Distinct(r) /\ work[w] \in WorkRecords
    BY <1>2
  <2>2. [work[w] EXCEPT !.acquires = a] = Asking(work[w], a, r)
    BY <2>1 DEF Asking, WorkRecords
  <2>3. work' = [work EXCEPT ![w] = Asking(work[w], a, r)]
    BY <1>3, <2>2
  <2> HIDE DEF r
  <2> QED BY <1>1, <1>3, <2>1, <2>3, AskingKeeps
<1>4. ASSUME NEW w \in WorksOf(t), NEW r \in Seq(Requests), Distinct(r),
             work' = [work EXCEPT ![w].releases = r]
      PROVE  IInv'
  <2> DEFINE a == work[w].acquires
  <2>1. a \in Seq(Requests) /\ Ordered(a) /\ work[w] \in WorkRecords
    BY <1>2
  <2>2. [work[w] EXCEPT !.releases = r] = Asking(work[w], a, r)
    BY <2>1 DEF Asking, WorkRecords
  <2>3. work' = [work EXCEPT ![w] = Asking(work[w], a, r)]
    BY <1>4, <2>2
  <2> HIDE DEF a
  <2> QED BY <1>1, <1>4, <2>1, <2>3, AskingKeeps
<1>5. CASE AddAcquire(t)
  <2>1. PICK w \in WorksOf(t), s \in Semaphores, n \in 0 .. 2 :
          /\ ~Asks(work[w].acquires, s)
          /\ work' = [work EXCEPT ![w].acquires = Acquire(work[w].acquires, s, n)]
    BY <1>5 DEF AddAcquire, Edits
  <2> DEFINE a == Acquire(work[w].acquires, s, n)
  <2>2. a \in Seq(Requests) /\ Ordered(a)
    BY <1>2, <2>1, AcquireOrdered
  <2>3. work' = [work EXCEPT ![w].acquires = a]
    BY <2>1
  <2> HIDE DEF a
  <2> QED BY <1>3, <2>2, <2>3
<1>6. CASE AddRelease(t)
  <2>1. PICK w \in WorksOf(t), s \in Semaphores, n \in 0 .. 2 :
          /\ ~Asks(work[w].releases, s)
          /\ work' = [work EXCEPT ![w].releases = Release(work[w].releases, s, n)]
    BY <1>6 DEF AddRelease, Edits
  <2> DEFINE r == Release(work[w].releases, s, n)
  <2>2. r \in Seq(Requests) /\ Distinct(r)
    BY <1>2, <2>1, ReleaseDistinct
  <2>3. work' = [work EXCEPT ![w].releases = r]
    BY <2>1
  <2> HIDE DEF r
  <2> QED BY <1>4, <2>2, <2>3
<1>7. CASE DropAcquire(t)
  <2>1. PICK w \in WorksOf(t), s \in Semaphores :
          work' = [work EXCEPT ![w].acquires = RemoveAcquire(work[w].acquires, s)]
    BY <1>7 DEF DropAcquire, Edits
  <2> DEFINE a == RemoveAcquire(work[w].acquires, s)
  <2>2. a \in Seq(Requests) /\ Ordered(a)
    BY <1>2, RemoveAcquireOrdered
  <2>3. work' = [work EXCEPT ![w].acquires = a]
    BY <2>1
  <2> HIDE DEF a
  <2> QED BY <1>3, <2>2, <2>3
<1>8. CASE DropRelease(t)
  <2>1. PICK w \in WorksOf(t), s \in Semaphores :
          work' = [work EXCEPT ![w].releases = RemoveRelease(work[w].releases, s)]
    BY <1>8 DEF DropRelease, Edits
  <2> DEFINE r == RemoveRelease(work[w].releases, s)
  <2>2. r \in Seq(Requests) /\ Distinct(r)
    <3>1. 0 \in 0 .. 2
      OBVIOUS
    <3> QED BY <1>2, <3>1, ReleaseDistinct
  <2>3. work' = [work EXCEPT ![w].releases = r]
    BY <2>1
  <2> HIDE DEF r
  <2> QED BY <1>4, <2>2, <2>3
<1>9. CASE DropRequests(t)
  <2>1. PICK w \in WorksOf(t) : \/ work' = [work EXCEPT ![w].acquires = <<>>]
                                \/ work' = [work EXCEPT ![w].releases = <<>>]
    BY <1>9 DEF DropRequests, Edits
  <2>2. <<>> \in Seq(Requests) /\ Ordered(<<>>) /\ Distinct(<<>>)
    BY EmptySeq DEF Ordered, Distinct
  <2> QED BY <1>3, <1>4, <2>1, <2>2
<1> QED BY <1>5, <1>6, <1>7, <1>8, <1>9

-----------------------------------------------------------------------------
(* The makings and ends of Works.                                          *)

\* A Work that is none.
LEMMA NoWorkOK ==
  /\ NoWork \in WorkRecords /\ NoWork.graph = Nothing /\ ~IsJump(NoWork)
  /\ NoWork.nsucc \in 0 .. Len(NoWork.edges)
  /\ Ordered(NoWork.acquires) /\ Distinct(NoWork.releases)
<1>1. \A S : <<>> \in Seq(S)
  BY EmptySeq
<1>2. NoWork \in WorkRecords
  BY <1>1 DEF NoWork, WorkRecords
<1>3. /\ NoWork.graph = Nothing /\ NoWork.type = Nothing /\ NoWork.edges = <<>>
      /\ NoWork.nsucc = 0 /\ NoWork.acquires = <<>> /\ NoWork.releases = <<>>
  BY DEF NoWork
<1>4. Nothing \notin Kinds
  BY DEF Nothing, Kinds, Invoker
<1>5. DOMAIN <<>> = {} /\ Len(<<>>) = 0
  OBVIOUS
<1> QED BY <1>2, <1>3, <1>4, <1>5 DEF IsJump, Ordered, Distinct

\* A Work that was just made has no edges and no requests.
LEMMA CreatedOK ==
  ASSUME NEW g \in Flows, NEW k \in GraphKinds, NEW y, y = Created(g, k)
  PROVE  /\ y \in WorkRecords /\ Edged(y) /\ Targets(y) = {} /\ Origins(y) = {}
         /\ y.graph = g /\ y.type = k /\ y.nsucc \in 0 .. Len(y.edges)
         /\ Ordered(y.acquires) /\ Distinct(y.releases)
<1>1. \A S : <<>> \in Seq(S)
  BY EmptySeq
<1>2. /\ y.graph = g /\ y.type = k /\ y.edges = <<>> /\ y.nsucc = 0
      /\ y.acquires = <<>> /\ y.releases = <<>>
  BY DEF Created, NoWork
<1>3. y \in WorkRecords
  BY <1>1 DEF Created, NoWork, WorkRecords
<1>4. DOMAIN <<>> = {} /\ Len(<<>>) = 0 /\ 1 .. 0 = {} /\ 0 + 1 .. 0 = {}
  OBVIOUS
<1>5. Targets(y) = {} /\ Origins(y) = {}
  BY <1>2, <1>4 DEF Targets, Origins
<1>6. Edged(y)
  BY <1>2, <1>4 DEF Edged
<1>7. Ordered(y.acquires) /\ Distinct(y.releases)
  BY <1>2, <1>4 DEF Ordered, Distinct
<1> QED BY <1>2, <1>3, <1>5, <1>6, <1>7 DEF Edged

\* A flow that a step leaves alone, and its Works.
LEMMA FlowKept ==
  ASSUME IInv, BuildingTyped', NEW g \in Flows \ Dying, flow'[g] = flow[g],
         \A w \in WorksIn(g) : work'[w] = work[w] /\ (w \in jumped' <=> w \in jumped)
  PROVE  FlowOK(g)'
<1> DEFINE W == WorksIn(g)
<1>1. Range(flow'[g]) = W
  BY DEF WorksIn
<1>2. /\ IsInjective(flow[g]) /\ Drawn(work, W, EdgesIn(g)) /\ Acyclic(EdgesIn(g), W \ jumped)
      /\ \A w \in W : w \in Blocks /\ work[w].graph = g
  BY FlowWorks
<1>3. \A w \in W : work'[w] = work[w] /\ (w \in jumped' <=> w \in jumped)
  OBVIOUS
<1>4. EdgesIn(g) = Edges(work, W)
  BY DEF EdgesIn
<1>5. work' \in [Blocks -> WorkRecords]
  BY DEF BuildingTyped
<1> HIDE DEF W
<1>6. Edges(work', W) = Edges(work, W) /\ Drawn(work', W, EdgesIn(g))
  BY <1>2, <1>3, <1>5, EdgesAgree
<1>7. W \ jumped' = W \ jumped
  BY <1>3
<1>8. /\ IsInjective(flow'[g])
      /\ \A w \in Range(flow'[g]) : work'[w].graph = g
      /\ Drawn(work', Range(flow'[g]), Edges(work', Range(flow'[g])))
      /\ Acyclic(Edges(work', Range(flow'[g])), Range(flow'[g]) \ jumped')
  BY <1>1, <1>2, <1>3, <1>4, <1>6, <1>7
<1> QED BY <1>8 DEF FlowOK, WorksIn, EdgesIn

\* A flow that is empty.
LEMMA EmptyFlow ==
  ASSUME NEW g, flow'[g] = <<>>, BuildingTyped'
  PROVE  FlowOK(g)'
<1>1. IsInjective(<<>>) /\ Range(<<>>) = {}
  BY RangeOfEmpty
<1>2. Edges(work', {}) = {}
  BY DEF Edges
<1>3. Drawn(work', {}, {})
  BY DEF Drawn, BuildingTyped
<1>4. Acyclic({}, {} \ jumped')
  BY DEF Acyclic
<1> QED BY <1>1, <1>2, <1>3, <1>4 DEF FlowOK, WorksIn, EdgesIn

\* The Works of t that no flow of t owns are those its call answers for.
LEMMA OwnerIs ==
  ASSUME IInv, NEW t \in Threads, NEW b \in Blocks, b \in live,
         NEW g \in FlowsOf[t], work[b].graph = g
  PROVE  \/ ~Empties(t, g) /\ b \in WorksIn(g)
         \/ op[t].made = b \/ Dooms(t, b)
<1>1. Owned(b)
  BY IInvParts DEF BlockOK
<1>2. CASE g \notin Dying /\ b \in WorksIn(g)
  BY <1>2, DyingIs
<1>3. ASSUME NEW u \in Threads, op[u].made = b \/ Dooms(u, b)
      PROVE  op[t].made = b \/ Dooms(t, b)
  <2>1. op[u].made = b => op[u].made # None
    BY PoolAssumption
  <2>2. g \in FlowsOf[u]
    BY <1>3, <2>1, IInvParts, OwnParts
  <2>3. u = t
    BY <2>2, FlowsApart
  <2> QED BY <1>3, <2>3
<1> QED BY <1>1, <1>2, <1>3 DEF Owned

\* A block whose Work stays as it is, with the same owner or another.
LEMMA BlockKept ==
  ASSUME IInv, NEW t \in Threads, NEW X, Framed(t, X), NEW b \in Blocks \ X,
         NEW g \in FlowsOf[t], work[b].graph = g,
         b \in live => \/ ~Empties(t, g)' /\ b \in Range(flow'[g])
                       \/ op'[t].made = b \/ Dooms(t, b)'
  PROVE  BlockOK(b)'
<1>1. work'[b] = work[b] /\ (b \in live' <=> b \in live) /\ (b \in jumped' <=> b \in jumped)
  BY DEF Framed
<1>2. BlockOK(b) /\ g \in Flows
  BY IInvParts, FlowsApart
<1>3. ASSUME b \in live
      PROVE  Owned(b)'
  <2>1. CASE ~Empties(t, g)' /\ b \in Range(flow'[g])
    <3>1. g \notin Dying'
      BY <1>2, <2>1, DyingNext
    <3> QED BY <1>1, <2>1, <3>1 DEF Owned, WorksIn
  <2>2. CASE op'[t].made = b \/ Dooms(t, b)'
    BY <2>2 DEF Owned
  <2> QED BY <1>3, <2>1, <2>2
<1> QED BY <1>1, <1>2, <1>3 DEF BlockOK

\* A block whose Work is no more.
LEMMA BlockFreed ==
  ASSUME NEW b \in Blocks, b \notin live', work'[b] = NoWork
  PROVE  BlockOK(b)'
BY NoWorkOK DEF BlockOK

\* What the pool does when a Work is destroyed.
LEMMA WorkEnds ==
  ASSUME IInv, NEW t \in Threads, NEW b, Destroy(t, b)
  PROVE  /\ b \in Blocks /\ b \in live /\ live' = live \ {b} /\ call[t] = Idle
         /\ (\A u \in Threads \ {t} : call'[u] = call[u]) /\ ~Creating(call'[t])
<1>1. call \in [Threads -> CallRecords] /\ live \subseteq Blocks
  BY IInvParts DEF PoolIInv, PoolTyped
<1>2. /\ call[t] = Idle /\ b \in live /\ live' = live \ {b}
      /\ call' = [call EXCEPT ![t] = [Idle EXCEPT !.pc = "push", !.bucket = Home(b),
                                                  !.chain = <<b>>]]
  BY DEF Destroy, Recycle
<1>3. call'[t].pc = "push" /\ call'[t].block = None
  BY <1>1, <1>2 DEF Idle
<1>4. ~Creating(call'[t])
  BY <1>3 DEF Creating, Popping
<1> QED BY <1>1, <1>2, <1>4

\* A new Work belongs to the thread that made it.
LEMMA ConstructKeeps ==
  ASSUME IInv, PoolIInv', NEW t \in Threads, ConstructWork(t)
  PROVE  IInv'
<1>0. PICK b, p, g : b = call[t].block /\ p = Head(op[t].todo) /\ g = p.flow
  OBVIOUS
<1> DEFINE y == Created(g, p.kind)
           o == [op[t] EXCEPT !.made = b]
           X == {b}
<1>1. /\ call[t].pc = "got" /\ live' = live \cup {b} /\ call' = [call EXCEPT ![t] = Idle]
      /\ work' = [work EXCEPT ![b] = y]
      /\ jumped' = IF IsJump(work'[b]) THEN jumped \cup {b} ELSE jumped \ {b}
      /\ op' = [op EXCEPT ![t] = o]
      /\ flow' = flow /\ plan' = plan
  BY <1>0 DEF ConstructWork, Construct
<1>2. /\ call \in [Threads -> CallRecords] /\ Fits(call[t]) /\ Held(t) \cap live = {}
  BY IInvParts DEF PoolIInv, PoolTyped, Partitioned
<1>3. b \in Blocks /\ b \notin live
  <2>1. call[t] \in CallRecords /\ b # None
    BY <1>0, <1>1, <1>2 DEF Fits
  <2>2. b \in Blocks
    BY <1>0, <2>1 DEF CallRecords
  <2>3. b \in Held(t)
    BY <1>0, <2>1 DEF Held
  <2> QED BY <1>2, <2>2, <2>3
<1>4. op[t].todo # <<>> /\ p.do = "make" /\ op[t].made = None
  <2>1. Creating(call[t])
    BY <1>1 DEF Creating
  <2> QED BY <1>0, <2>1, IInvParts DEF ThreadOK
<1>5. Making(t) /\ Plain(op[t].todo)
  <2>1. Making(t)
    BY <1>0, <1>4, Phases
  <2> QED BY <2>1 DEF Making, Plain
<1>6. g \in FlowsOf[t] /\ g \in Flows /\ p.kind \in GraphKinds
  <2>1. p = op[t].todo[1] /\ 1 \in DOMAIN op[t].todo /\ op[t].todo[1] \in Parts
    BY <1>0, <1>4, IInvParts, OpTypes
  <2>2. p \in Parts
    BY <2>1
  <2>3. p.kind \in GraphKinds
    BY <1>4, <2>2, PartFields
  <2>4. g \in FlowsOf[t]
    BY <1>0, <1>5, <2>1 DEF Making
  <2> QED BY <2>3, <2>4, FlowsApart
<1>7. /\ y \in WorkRecords /\ y.graph = g /\ y.nsucc \in 0 .. Len(y.edges)
      /\ Ordered(y.acquires) /\ Distinct(y.releases)
  BY <1>6, CreatedOK
<1>8. op[t] \in OpRecords /\ op \in [Threads -> OpRecords]
  BY IInvParts, OpTypes DEF BuildingTyped
<1>9. /\ o \in OpRecords /\ o.todo = op[t].todo /\ o.made = b
      /\ o.search = op[t].search /\ o.choice = op[t].choice
  BY <1>3, <1>8 DEF OpRecords
<1>10. work[b] = NoWork
  BY <1>3, IInvParts DEF BlockOK
<1>11. work \in [Blocks -> WorkRecords]
  BY IInvParts DEF BuildingTyped
<1> HIDE DEF y, o, X
<1>12. /\ op'[t] = o /\ (\A u \in Threads \ {t} : op'[u] = op[u])
       /\ op' \in [Threads -> OpRecords]
       /\ (\A u \in Threads \ {t} : call'[u] = call[u]) /\ call'[t] = Idle
       /\ work'[b] = y /\ (\A c \in Blocks \ {b} : work'[c] = work[c])
       /\ work' \in [Blocks -> WorkRecords]
  BY <1>1, <1>2, <1>3, <1>7, <1>8, <1>9, <1>11
<1>13. /\ \A c \in Blocks \ {b} : (c \in live' <=> c \in live) /\ (c \in jumped' <=> c \in jumped)
       /\ b \in live' /\ (IsJump(y) => b \in jumped')
  BY <1>1, <1>12
<1>14. BuildingTyped'
  BY <1>1, <1>12, IInvParts DEF BuildingTyped
<1>15. (\A h : ~Empties(t, h)) /\ (\A c : ~Dooms(t, c))
  BY <1>5, PlainParts
<1>16. (\A h : ~Empties(t, h)')
  BY <1>9, <1>12, <1>15 DEF Empties
<1>17. Framed(t, X)
  <2>1. work[b].graph \in FlowsOf[t] \cup {Nothing}
    BY <1>10, NoWorkOK
  <2> QED BY <1>1, <1>12, <1>13, <1>16, <2>1 DEF Framed, X
<1>18. \A h \in FlowsOf[t] : h \in Flows \ Dying
  BY <1>15, DyingIs, FlowsApart
<1>19. \A h \in FlowsOf[t] : \A w \in WorksIn(h) : w \in Blocks \ {b}
  BY <1>3, <1>18, FlowWorks
<1>20. \A h \in FlowsOf[t] : FlowOK(h)'
  BY <1>1, <1>12, <1>13, <1>14, <1>18, <1>19, FlowKept
<1>21. BlockOK(b)'
  <2>1. Owned(b)'
    BY <1>9, <1>12 DEF Owned
  <2> QED BY <1>6, <1>7, <1>12, <1>13, <2>1 DEF BlockOK
<1>22. ASSUME NEW c \in Blocks \ X, work[c].graph \in FlowsOf[t]
       PROVE  BlockOK(c)'
  <2>1. c # None
    BY PoolAssumption
  <2>2. c \in live => c \in WorksIn(work[c].graph)
    BY <1>4, <1>15, <1>22, <2>1, OwnerIs
  <2>3. c \in live => c \in Range(flow'[work[c].graph])
    BY <1>1, <2>2 DEF WorksIn
  <2> QED BY <1>16, <1>17, <1>22, <2>3, BlockKept
<1>23. ThreadOK(t)'
  <2>1. ~Creating(call'[t])
    BY <1>12, IdleCreatesNothing
  <2>2. b \notin WorksIn(g)
    BY <1>6, <1>19
  <2>3. op'[t].todo = op[t].todo /\ op'[t].made = b /\ op'[t].search = NoSearch
        /\ op'[t].choice = NoChoice
    BY <1>5, <1>9, <1>12 DEF Making
  <2>4. \A i \in DOMAIN op[t].todo : op[t].todo[i].do = "make" /\ op[t].todo[i].flow \in FlowsOf[t]
    BY <1>5 DEF Making
  <2>5. b \in live' /\ work'[b] = Created(Head(op[t].todo).flow, Head(op[t].todo).kind)
        /\ b \notin Range(flow'[Head(op[t].todo).flow])
    BY <1>0, <1>1, <1>12, <1>13, <2>2 DEF y, WorksIn
  <2>6. Making(t)'
    BY <1>4, <2>3, <2>4, <2>5 DEF Making, WorksIn
  <2> QED BY <2>1, <2>6 DEF ThreadOK
<1> QED BY <1>14, <1>17, <1>20, <1>21, <1>22, <1>23, StepKeeps DEF X

\* The Work that a thread has made is in no flow yet and has no edges.
Unbound(t, m, g) ==
  /\ call[t] = Idle /\ Making(t) /\ Plain(op[t].todo) /\ op[t].todo # <<>>
  /\ g \in FlowsOf[t] /\ g \in Flows \ Dying /\ m \in Blocks /\ m \in live
  /\ m \notin WorksIn(g) /\ work[m].graph = g
  /\ Edged(work[m]) /\ Targets(work[m]) = {} /\ Origins(work[m]) = {}
  /\ \A h : ~Empties(t, h) /\ \A c : ~Dooms(t, c)
  /\ \A h \in FlowsOf[t] : h \in Flows \ Dying /\ m \notin WorksIn(h)

LEMMA MadeWork ==
  ASSUME IInv, NEW t \in Threads, Part(t, "make"), op[t].made # None,
         NEW m, m = op[t].made, NEW g, g = Head(op[t].todo).flow
  PROVE  Unbound(t, m, g)
<1>1. /\ call[t] = Idle /\ Making(t) /\ Plain(op[t].todo) /\ op[t].todo # <<>>
      /\ 1 \in DOMAIN op[t].todo /\ Head(op[t].todo) = op[t].todo[1]
      /\ op[t].todo[1] \in Parts /\ op[t].todo[1].do = "make"
  BY PartIsDue
<1>2. (\A h : ~Empties(t, h)) /\ (\A c : ~Dooms(t, c))
  BY <1>1, PlainParts
<1>3. /\ m \in live /\ work[m] = Created(g, Head(op[t].todo).kind) /\ m \notin WorksIn(g)
      /\ g \in FlowsOf[t]
  BY <1>1 DEF Making
<1>4. \A h \in FlowsOf[t] : h \in Flows \ Dying
  BY <1>2, DyingIs, FlowsApart
<1>5. Head(op[t].todo).kind \in GraphKinds
  BY <1>1, PartFields
<1>6. /\ work[m].graph = g /\ Edged(work[m]) /\ Targets(work[m]) = {} /\ Origins(work[m]) = {}
  BY <1>3, <1>4, <1>5, CreatedOK
<1>7. \A h \in FlowsOf[t] : m \notin WorksIn(h)
  BY <1>3, <1>4, <1>6, FlowWorks
<1>8. m \in Blocks
  BY IInvParts, OpTypes
<1> QED BY <1>1, <1>2, <1>3, <1>4, <1>6, <1>7, <1>8 DEF Unbound

\* The flow takes it.
LEMMA AdoptKeeps ==
  ASSUME IInv, PoolIInv', NEW t \in Threads, Adopt(t)
  PROVE  IInv'
<1>0. PICK m, g : m = op[t].made /\ g = Head(op[t].todo).flow
  OBVIOUS
<1> DEFINE W == WorksIn(g)
           E == EdgesIn(g)
           X == {}
<1>1. /\ Part(t, "make") /\ m # None /\ flow' = [flow EXCEPT ![g] = Append(@, m)]
      /\ PartDone(t) /\ UNCHANGED <<poolVars, work, plan, jumped>>
  BY <1>0 DEF Adopt
<1>2. /\ call[t] = Idle /\ Making(t) /\ Plain(op[t].todo) /\ op[t].todo # <<>>
      /\ g \in FlowsOf[t] /\ g \in Flows \ Dying /\ m \in Blocks /\ m \in live
      /\ m \notin W /\ work[m].graph = g
      /\ Edged(work[m]) /\ Targets(work[m]) = {} /\ Origins(work[m]) = {}
      /\ \A h : ~Empties(t, h) /\ \A c : ~Dooms(t, c)
      /\ \A h \in FlowsOf[t] : h \in Flows \ Dying /\ m \notin WorksIn(h)
  <2>1. Unbound(t, m, g)
    BY <1>0, <1>1, MadeWork
  <2> QED BY <2>1 DEF Unbound
<1>3. UNCHANGED <<live, call>>
  BY <1>1 DEF poolVars
<1>4. /\ op' \in [Threads -> OpRecords]
      /\ \A u \in Threads \ {t} : op'[u] = op[u]
      /\ op'[t].made = None /\ op'[t].search = NoSearch /\ op'[t].choice = NoChoice
      /\ DOMAIN op'[t].todo = 1 .. Len(op[t].todo) - 1
      /\ \A i \in 1 .. Len(op[t].todo) - 1 :
           i + 1 \in DOMAIN op[t].todo /\ op'[t].todo[i] = op[t].todo[i + 1]
  BY <1>1, <1>2, IInvParts, PartIsDone
<1>5. \A i \in DOMAIN op'[t].todo :
        op'[t].todo[i].do = "make" /\ op'[t].todo[i].flow \in FlowsOf[t]
  BY <1>2, <1>4 DEF Making
<1>6. (\A h : ~Empties(t, h)')
  BY <1>5 DEF Empties
<1>7. /\ flow \in [Flows -> Seq(Blocks)] /\ flow[g] \in Seq(Blocks) /\ IsInjective(flow[g])
      /\ Drawn(work, W, E) /\ Acyclic(E, W \ jumped)
      /\ \A w \in W : work[w].graph = g
  BY <1>2, FlowWorks, IInvParts DEF BuildingTyped
<1> DEFINE f == flow[g]
           e == Append(f, m)
<1>8. e \in Seq(Blocks) /\ Range(e) = W \cup {m} /\ IsInjective(e)
  <2>1. W = Range(f)
    BY DEF WorksIn
  <2>2. f \in Seq(Blocks) /\ IsInjective(f) /\ m \in Blocks /\ m \notin Range(f)
    BY <1>2, <1>7, <2>1
  <2> HIDE DEF f
  <2> QED BY <2>1, <2>2, RangeOfAppend
<1>9. flow'[g] = e /\ (\A h \in Flows : h # g => flow'[h] = flow[h]) /\ flow' \in [Flows -> Seq(Blocks)]
  BY <1>1, <1>2, <1>7, <1>8
<1>10. BuildingTyped'
  BY <1>1, <1>4, <1>9, IInvParts DEF BuildingTyped
<1> HIDE DEF e, X
<1>11. Framed(t, X)
  <2>1. \A h \in Flows \ FlowsOf[t] : flow'[h] = flow[h]
    BY <1>2, <1>9
  <2>2. \A b \in X : FALSE
    BY DEF X
  <2> QED BY <1>1, <1>3, <1>4, <1>6, <2>1, <2>2 DEF Framed
<1>12. FlowOK(g)'
  <2> DEFINE T == W \cup {m}
  <2>1. \A d \in E : d[1] \in W /\ d[2] \in W /\ d = <<d[1], d[2]>>
    BY DEF EdgesIn, Edges
  <2>2. E \in SUBSET (T \X T) /\ work \in [Blocks -> WorkRecords]
    <3>1. E \in SUBSET (W \X W)
      BY DEF EdgesIn, Edges
    <3> QED BY <1>7, <3>1 DEF Drawn
  <2>3. \A u, v : <<u, v>> \in E => u \in W /\ v \in W
    BY <2>1
  <2> HIDE DEF W, E
  <2>4. Drawn(work, T, E)
    BY <1>2, <1>7, <2>2, <2>3 DEF Drawn
  <2>5. Edges(work, T) = E
    BY <2>2, <2>4, EdgesDrawn
  <2>6. Acyclic(E, T \ jumped)
    <3> DEFINE C == T \ jumped
               S == W \ jumped
    <3>1. \A d \in E : d[1] \in C /\ d[2] \in C => d \in E /\ d[1] \in S /\ d[2] \in S
      BY <2>1
    <3>2. Acyclic(E, S)
      BY <1>7
    <3> HIDE DEF C, S
    <3>3. Acyclic(E, C)
      BY <3>1, <3>2, AcyclicFewer
    <3> QED BY <3>3 DEF C
  <2>7. \A w \in T : work[w].graph = g
    BY <1>2, <1>7
  <2>8. Range(flow'[g]) = T /\ IsInjective(flow'[g]) /\ work' = work /\ jumped' = jumped
    BY <1>1, <1>8, <1>9
  <2> HIDE DEF T
  <2>9. /\ IsInjective(flow'[g])
        /\ \A w \in Range(flow'[g]) : work'[w].graph = g
        /\ Drawn(work', Range(flow'[g]), Edges(work', Range(flow'[g])))
        /\ Acyclic(Edges(work', Range(flow'[g])), Range(flow'[g]) \ jumped')
    BY <2>4, <2>5, <2>6, <2>7, <2>8
  <2> QED BY <2>9 DEF FlowOK, WorksIn, EdgesIn
<1>13. ASSUME NEW h \in FlowsOf[t], h # g
       PROVE  FlowOK(h)'
  <2>1. h \in Flows \ Dying
    BY <1>2
  <2>2. flow'[h] = flow[h]
    BY <1>9, <1>13, <2>1
  <2>3. \A w \in WorksIn(h) : work'[w] = work[w] /\ (w \in jumped' <=> w \in jumped)
    BY <1>1
  <2> QED BY <1>10, <2>1, <2>2, <2>3, FlowKept
<1>14. ASSUME NEW c \in Blocks, work[c].graph \in FlowsOf[t]
       PROVE  BlockOK(c)'
  <2> DEFINE h == work[c].graph
  <2>1. c \in live => c \in WorksIn(h) \/ c = m
    BY <1>2, <1>14, OwnerIs, <1>0
  <2>2. h \in Flows
    BY <1>14, FlowsApart
  <2>3. c \in WorksIn(h) => c \in Range(flow'[h])
    <3>1. CASE h = g
      BY <1>8, <1>9, <3>1
    <3>2. CASE h # g
      BY <1>9, <2>2, <3>2 DEF WorksIn
    <3> QED BY <3>1, <3>2
  <2>4. c = m => c \in Range(flow'[h])
    BY <1>2, <1>8, <1>9
  <2>5. c \in live => c \in Range(flow'[h])
    BY <2>1, <2>3, <2>4
  <2>6. c \notin X
    BY DEF X
  <2> QED BY <1>6, <1>11, <1>14, <2>5, <2>6, BlockKept
<1>15. ThreadOK(t)'
  <2>1. ~Creating(call'[t])
    BY <1>2, <1>3, IdleCreatesNothing
  <2>2. Making(t)'
    BY <1>4, <1>5 DEF Making
  <2> QED BY <2>1, <2>2 DEF ThreadOK
<1>16. \A h \in FlowsOf[t] : FlowOK(h)'
  BY <1>12, <1>13
<1>17. \A c \in Blocks : c \in X \/ work[c].graph \in FlowsOf[t] => BlockOK(c)'
  BY <1>14 DEF X
<1> QED BY <1>10, <1>11, <1>15, <1>16, <1>17, StepKeeps

\* The flow cannot take it, and it goes.
LEMMA AdoptThrowsKeeps ==
  ASSUME IInv, PoolIInv', NEW t \in Threads, AdoptThrows(t)
  PROVE  IInv'
<1>0. PICK m, g : m = op[t].made /\ g = Head(op[t].todo).flow
  OBVIOUS
<1> DEFINE X == {m}
<1>1. /\ Part(t, "make") /\ m # None /\ Destroy(t, m)
      /\ work' = [work EXCEPT ![m] = NoWork] /\ Unwind(t)
      /\ flow' = flow /\ plan' = plan /\ jumped' = jumped
  BY <1>0 DEF AdoptThrows
<1>2. /\ Plain(op[t].todo) /\ g \in FlowsOf[t] /\ work[m].graph = g
      /\ \A h : ~Empties(t, h) /\ \A c : ~Dooms(t, c)
      /\ \A h \in FlowsOf[t] : h \in Flows \ Dying /\ m \notin WorksIn(h)
  <2>1. Unbound(t, m, g)
    BY <1>0, <1>1, MadeWork
  <2> QED BY <2>1 DEF Unbound
<1>3. /\ m \in Blocks /\ live' = live \ {m}
      /\ (\A u \in Threads \ {t} : call'[u] = call[u]) /\ ~Creating(call'[t])
  BY <1>1, WorkEnds
<1>4. ThreadOK(t)' /\ op'[t] = NoOp
  BY <1>1, <1>3, IInvParts, UnwoundOK
<1>5. op' \in [Threads -> OpRecords] /\ \A u \in Threads \ {t} : op'[u] = op[u]
  BY <1>1, NoOpTypes, IInvParts DEF Unwind, BuildingTyped
<1>6. \A h : ~Empties(t, h)'
  BY <1>4, NoOpTypes DEF Empties, Plain
<1>7. /\ work' \in [Blocks -> WorkRecords] /\ work'[m] = NoWork
      /\ \A b \in Blocks \ {m} : work'[b] = work[b]
  BY <1>1, <1>3, NoWorkOK, IInvParts DEF BuildingTyped
<1>8. BuildingTyped'
  BY <1>1, <1>5, <1>7, IInvParts DEF BuildingTyped
<1>9. Framed(t, X)
  BY <1>1, <1>2, <1>3, <1>5, <1>6, <1>7 DEF Framed
<1>10. \A h \in FlowsOf[t] : FlowOK(h)'
  <2>1. \A h \in FlowsOf[t] : \A w \in WorksIn(h) : w \in Blocks \ {m}
    BY <1>2, FlowWorks
  <2>2. \A h \in FlowsOf[t] : \A w \in WorksIn(h) : work'[w] = work[w] /\ (w \in jumped' <=> w \in jumped)
    BY <1>1, <1>7, <2>1
  <2> QED BY <1>1, <1>2, <1>8, <2>2, FlowKept
<1>11. BlockOK(m)'
  BY <1>3, <1>7, BlockFreed
<1>12. ASSUME NEW c \in Blocks \ X, work[c].graph \in FlowsOf[t]
       PROVE  BlockOK(c)'
  <2>1. c \in live => c \in WorksIn(work[c].graph)
    BY <1>2, <1>12, OwnerIs, <1>0
  <2>2. c \in live => c \in Range(flow'[work[c].graph])
    BY <1>1, <2>1 DEF WorksIn
  <2> QED BY <1>6, <1>9, <1>12, <2>2, BlockKept
<1>13. \A c \in Blocks : c \in X \/ work[c].graph \in FlowsOf[t] => BlockOK(c)'
  BY <1>11, <1>12
<1> QED BY <1>4, <1>8, <1>9, <1>10, <1>13, StepKeeps

\* A flow without one of its Works.
LEMMA HoleInFlow ==
  ASSUME BuildingTyped, NEW g \in Flows, IsInjective(flow[g]), NEW w \in WorksIn(g),
         flow' = [flow EXCEPT ![g] = RemovedFrom(@, w)]
  PROVE  /\ Range(flow'[g]) = WorksIn(g) \ {w} /\ IsInjective(flow'[g])
         /\ flow' \in [Flows -> Seq(Blocks)]
         /\ \A h \in Flows : h # g => flow'[h] = flow[h]
<1> DEFINE s == flow[g]
           i == IndexOf(s, w)
           r == RemovedFrom(s, w)
<1>1. flow \in [Flows -> Seq(Blocks)] /\ s \in Seq(Blocks) /\ IsInjective(s)
      /\ Range(s) = WorksIn(g)
  BY DEF BuildingTyped, WorksIn
<1>2. i \in DOMAIN s /\ s[i] = w
  BY <1>1 DEF IndexOf, Range
<1>3. DOMAIN s = 1 .. Len(s)
  BY <1>1, LenProperties
<1>4. r = Filled(s, i)
  BY DEF RemovedFrom, Filled
<1>5. flow' = [flow EXCEPT ![g] = r]
  OBVIOUS
<1> HIDE DEF s, i, r
<1>6. r \in Seq(Blocks)
  BY <1>1, <1>2, <1>3, <1>4, HoleFilled
<1>7. Range(r) = Range(s) \ {w} /\ IsInjective(r)
  BY <1>1, <1>2, <1>3, <1>4, HoleFilledRange
<1> QED BY <1>1, <1>5, <1>6, <1>7

\* A Work is taken from its graph and destroyed.
LEMMA EraseKeeps ==
  ASSUME IInv, PoolIInv', NEW t \in Threads, Erase(t)
  PROVE  IInv'
<1>0. PICK g \in FlowsOf[t] : \E w \in Range(flow[g]) :
        /\ flow' = [flow EXCEPT ![g] = RemovedFrom(@, w)]
        /\ work' = [Extracted(work, w) EXCEPT ![w] = NoWork]
        /\ Destroy(t, w)
  BY DEF Erase
<1>1. PICK w \in Range(flow[g]) :
        /\ flow' = [flow EXCEPT ![g] = RemovedFrom(@, w)]
        /\ work' = [Extracted(work, w) EXCEPT ![w] = NoWork]
        /\ Destroy(t, w)
  BY <1>0
<1>2. Calls(t, "erase") /\ UNCHANGED <<op, jumped>>
  BY DEF Erase
<1>3. /\ op[t] = NoOp /\ plan' = plan
      /\ (\A h : ~Empties(t, h)) /\ (\A c : ~Dooms(t, c))
      /\ \A h \in FlowsOf[t] : h \in Flows \ Dying
  BY <1>2, CallBegins
<1>4. /\ live' = live \ {w}
      /\ (\A u \in Threads \ {t} : call'[u] = call[u]) /\ ~Creating(call'[t])
  BY <1>1, WorkEnds
<1> DEFINE W == WorksIn(g)
           E == EdgesIn(g)
           f == Extracted(work, w)
           F == {e \in E : e[1] # w /\ e[2] # w}
           T == W \ {w}
           X == W
<1>5. /\ w \in W /\ W \in SUBSET Blocks /\ flow[g] \in Seq(Blocks) /\ IsInjective(flow[g])
      /\ Drawn(work, W, E) /\ Acyclic(E, W \ jumped)
      /\ \A b \in W : b \in Blocks /\ b \in live /\ work[b].graph = g
  BY <1>1, <1>3, FlowWorks DEF WorksIn
<1>6. Redrawn(work, f, W, F)
  BY <1>5, ExtractedRedraws
<1>7. E \in SUBSET (W \X W)
  BY DEF EdgesIn, Edges
<1>8. F \in SUBSET (T \X T)
  BY <1>7
<1>9. work' = [f EXCEPT ![w] = NoWork]
  BY <1>1
<1>10. Acyclic(F, T \ jumped)
  <2> DEFINE C == T \ jumped
             S == W \ jumped
  <2>1. \A d \in F : d[1] \in C /\ d[2] \in C => d \in E /\ d[1] \in S /\ d[2] \in S
    OBVIOUS
  <2>2. Acyclic(E, S)
    BY <1>5
  <2> HIDE DEF C, S, F, E
  <2>3. Acyclic(F, C)
    BY <2>1, <2>2, AcyclicFewer
  <2> QED BY <2>3 DEF C
<1>11. Range(flow'[g]) = T /\ IsInjective(flow'[g]) /\ flow' \in [Flows -> Seq(Blocks)]
       /\ \A h \in Flows : h # g => flow'[h] = flow[h]
  BY <1>1, <1>3, <1>5, HoleInFlow, IInvParts
<1>12. /\ f \in [Blocks -> WorkRecords]
       /\ \A b \in Blocks : (b \notin W => f[b] = work[b]) /\ Rest(f[b]) = Rest(work[b])
       /\ \A b \in W : /\ Edged(f[b])
                       /\ \A v : v \in Targets(f[b]) <=> v \in W /\ <<b, v>> \in F
                       /\ \A u : u \in Origins(f[b]) <=> u \in W /\ <<u, b>> \in F
  BY <1>6 DEF Redrawn, Drawn
<1>13. \A u, v : <<u, v>> \in F => u \in T /\ v \in T
  BY <1>8
<1> HIDE DEF W, E, F, T, f, X
<1>14. /\ work' \in [Blocks -> WorkRecords] /\ work'[w] = NoWork
       /\ \A b \in Blocks : b # w => work'[b] = f[b]
  BY <1>5, <1>9, <1>12, NoWorkOK
<1>15. T = W \ {w} /\ T \subseteq W /\ X = W
  BY DEF T, X
<1>16. BuildingTyped'
  BY <1>2, <1>3, <1>11, <1>14, IInvParts DEF BuildingTyped
<1>17. \A h : ~Empties(t, h)'
  BY <1>2, <1>3 DEF Empties
<1>18. Framed(t, X)
  <2>1. \A h \in Flows \ FlowsOf[t] : flow'[h] = flow[h]
    BY <1>1, <1>11
  <2>2. \A b \in Blocks \ W : work'[b] = work[b] /\ (b \in live' <=> b \in live)
    BY <1>4, <1>5, <1>12, <1>14
  <2>3. \A b \in W : work[b].graph \in FlowsOf[t]
    BY <1>1, <1>5
  <2> QED BY <1>2, <1>4, <1>15, <1>17, <2>1, <2>2, <2>3 DEF Framed
<1>19. FlowOK(g)'
  <2>1. \A b \in T : b \in Blocks /\ b \in W /\ b # w /\ work'[b] = f[b]
    BY <1>5, <1>14, <1>15
  <2>2. \A b \in T : /\ Edged(work'[b])
                     /\ \A v : v \in Targets(work'[b]) <=> v \in T /\ <<b, v>> \in F
                     /\ \A u : u \in Origins(work'[b]) <=> u \in T /\ <<u, b>> \in F
    BY <1>12, <1>13, <1>15, <2>1
  <2>3. Drawn(work', T, F)
    BY <1>14, <2>2 DEF Drawn
  <2>4. Edges(work', T) = F
    BY <1>8, <2>3, EdgesDrawn
  <2>5. \A b \in T : work'[b].graph = g
    <3>1. \A b \in T : Rest(work'[b]) = Rest(work[b])
      BY <1>12, <2>1
    <3> QED BY <1>5, <2>1, <3>1 DEF Rest
  <2>6. /\ IsInjective(flow'[g])
        /\ \A b \in Range(flow'[g]) : work'[b].graph = g
        /\ Drawn(work', Range(flow'[g]), Edges(work', Range(flow'[g])))
        /\ Acyclic(Edges(work', Range(flow'[g])), Range(flow'[g]) \ jumped')
    BY <1>2, <1>10, <1>11, <2>3, <2>4, <2>5
  <2> QED BY <2>6 DEF FlowOK, WorksIn, EdgesIn
<1>20. ASSUME NEW h \in FlowsOf[t], h # g
       PROVE  FlowOK(h)'
  <2>1. h \in Flows \ Dying /\ flow'[h] = flow[h]
    BY <1>3, <1>11, <1>20
  <2>2. \A b \in WorksIn(h) : b \in Blocks /\ b \notin W
    BY <1>5, <1>20, <2>1, FlowWorks
  <2>3. \A b \in WorksIn(h) : work'[b] = work[b] /\ (b \in jumped' <=> b \in jumped)
    BY <1>2, <1>5, <1>12, <1>14, <2>2
  <2> QED BY <1>16, <2>1, <2>3, FlowKept
<1>21. BlockOK(w)'
  BY <1>4, <1>5, <1>14, BlockFreed
<1>22. ASSUME NEW b \in T
       PROVE  BlockOK(b)'
  <2>1. /\ b \in Blocks /\ b \in live /\ b \in W /\ b # w /\ work'[b] = f[b]
        /\ Edged(work'[b])
    BY <1>5, <1>12, <1>14, <1>15
  <2>2. Rest(work'[b]) = Rest(work[b])
    BY <1>12, <2>1
  <2>3. /\ work'[b].graph = work[b].graph /\ work'[b].type = work[b].type
        /\ work'[b].acquires = work[b].acquires /\ work'[b].releases = work[b].releases
    BY <2>2 DEF Rest
  <2>4. BlockOK(b) /\ work[b].graph = g
    BY <1>5, <2>1, IInvParts
  <2>5. g \in Flows /\ g \notin Dying'
    BY <1>3, <1>17, <1>18, DyingNext
  <2>6. Owned(b)'
    BY <1>11, <1>22, <2>3, <2>4, <2>5 DEF Owned, WorksIn
  <2>7. b \in live'
    BY <1>4, <2>1
  <2> QED BY <1>2, <2>1, <2>3, <2>4, <2>5, <2>6, <2>7 DEF BlockOK, Edged, IsJump
<1>23. ASSUME NEW c \in Blocks \ X, work[c].graph \in FlowsOf[t]
       PROVE  BlockOK(c)'
  <2>1. op[t].made = None /\ c # None
    BY <1>3, NoOpTypes, PoolAssumption
  <2>2. c \in live => c \in WorksIn(work[c].graph)
    BY <1>3, <1>23, <2>1, OwnerIs
  <2>3. c \notin WorksIn(g)
    BY <1>15, <1>23 DEF W
  <2>4. c \in live => c \in Range(flow'[work[c].graph])
    BY <1>3, <1>11, <1>23, <2>2, <2>3 DEF WorksIn
  <2> QED BY <1>17, <1>18, <1>23, <2>4, BlockKept
<1>24. ThreadOK(t)'
  BY <1>2, <1>3, <1>4, NothingToDo
<1>25. \A h \in FlowsOf[t] : FlowOK(h)'
  BY <1>19, <1>20
<1>26. \A c \in Blocks : c \in X \/ work[c].graph \in FlowsOf[t] => BlockOK(c)'
  BY <1>15, <1>21, <1>22, <1>23
<1> QED BY <1>16, <1>18, <1>24, <1>25, <1>26, StepKeeps

\* What there is to do to empty g, whose Works are f, and perhaps to take over
\* another flow of t.
TearsDown(t, s, g, f) ==
  /\ Len(s) \in {Len(f) + 1, Len(f) + 2}
  /\ \A i \in 1 .. Len(f) : s[i].do = "destroy" /\ s[i].work = f[i]
  /\ s[Len(f) + 1].do = "empty" /\ s[Len(f) + 1].flow = g
  /\ Len(s) = Len(f) + 2 =>
       /\ s[Len(f) + 2].do = "take" /\ s[Len(f) + 2].flow = g
       /\ s[Len(f) + 2].from \in FlowsOf[t] \ {g}

\* A call that begins to empty g is about to empty g and no other flow.
LEMMA EmptyingIs ==
  ASSUME IInv, NEW t \in Threads, op[t] = NoOp,
         NEW g \in FlowsOf[t], NEW s \in Seq(Parts), Does(t, s), TearsDown(t, s, g, flow[g])
  PROVE  \A h : Empties(t, h)' <=> h = g
<1>1. PICK k : k = Len(flow[g])
  OBVIOUS
<1>2. k \in Nat
  <2>1. flow[g] \in Seq(Blocks)
    BY FlowsApart, IInvParts DEF BuildingTyped
  <2> QED BY <1>1, <2>1, LenProperties
<1>3. PICK n \in Nat : n = Len(s) /\ DOMAIN s = 1 .. n
  BY LenProperties
<1>4. /\ \A i \in 1 .. k : s[i].do = "destroy"
      /\ s[k + 1].do = "empty" /\ s[k + 1].flow = g
      /\ n = k + 2 => s[k + 2].do = "take"
      /\ n = k + 1 \/ n = k + 2
  BY <1>1, <1>3 DEF TearsDown
<1>5. \A i \in DOMAIN s : i \in 1 .. k \/ i = k + 1 \/ (i = k + 2 /\ n = k + 2)
  <2>1. \A i \in 1 .. n : i \in 1 .. k \/ i = k + 1 \/ (i = k + 2 /\ n = k + 2)
    BY <1>2, <1>4
  <2> QED BY <1>3, <2>1
<1>6. k + 1 \in DOMAIN s
  <2>1. k + 1 \in 1 .. n
    BY <1>2, <1>4
  <2> QED BY <1>3, <2>1
<1>7. op'[t].todo = s
  BY IInvParts DEF Does, BuildingTyped
<1> QED BY <1>4, <1>5, <1>6, <1>7 DEF Empties

\* A call that begins to empty g.
LEMMA EmptyingBegins ==
  ASSUME IInv, PoolIInv', NEW t \in Threads, NEW name, Calls(t, name),
         NEW g \in FlowsOf[t], NEW s \in Seq(Parts), Does(t, s), TearsDown(t, s, g, flow[g])
  PROVE  IInv'
<1>0. PICK k : k = Len(flow[g])
  OBVIOUS
<1> DEFINE o == [op[t] EXCEPT !.todo = s]
           X == {}
<1>1. op' = [op EXCEPT ![t] = o] /\ UNCHANGED <<poolVars, flow, work, jumped>>
  BY DEF Does
<1>2. /\ op[t] = NoOp /\ call[t] = Idle /\ plan' = plan
      /\ (\A h : ~Empties(t, h)) /\ (\A c : ~Dooms(t, c))
      /\ \A h \in FlowsOf[t] : h \in Flows \ Dying
  BY CallBegins
<1>3. o = [NoOp EXCEPT !.todo = s]
  BY <1>2
<1>4. o \in OpRecords /\ o.todo = s /\ o.made = None
  BY <1>3, TodoTypes
<1>5. UNCHANGED <<live, call>>
  BY <1>1 DEF poolVars
<1>6. o = [NoOp EXCEPT !.todo = o.todo]
  BY <1>3, <1>4
<1> HIDE DEF o
<1>7. op'[t] = o /\ (\A u \in Threads \ {t} : op'[u] = op[u]) /\ op' \in [Threads -> OpRecords]
  BY <1>1, <1>4, IInvParts DEF BuildingTyped
<1>8. BuildingTyped'
  BY <1>1, <1>2, <1>7, IInvParts DEF BuildingTyped
<1>9. /\ k \in Nat /\ DOMAIN flow[g] = 1 .. k /\ IsInjective(flow[g])
      /\ \A i \in 1 .. k : flow[g][i] \in live /\ work[flow[g][i]].graph = g
  <2>1. flow[g] \in Seq(Blocks) /\ IsInjective(flow[g])
        /\ \A w \in WorksIn(g) : w \in live /\ work[w].graph = g
    BY <1>2, FlowWorks
  <2>2. k \in Nat /\ DOMAIN flow[g] = 1 .. k
    BY <1>0, <2>1, LenProperties
  <2>3. \A i \in 1 .. k : flow[g][i] \in WorksIn(g)
    BY <2>2 DEF WorksIn, Range
  <2> QED BY <2>1, <2>2, <2>3
<1>10. PICK n \in Nat : n = Len(s) /\ DOMAIN s = 1 .. n
  BY LenProperties
<1>11. /\ \A i \in 1 .. k : s[i].do = "destroy" /\ s[i].work = flow[g][i]
       /\ s[k + 1].do = "empty" /\ s[k + 1].flow = g
       /\ n = k + 2 => /\ s[k + 2].do = "take" /\ s[k + 2].flow = g
                            /\ s[k + 2].from \in FlowsOf[t] \ {g}
       /\ n \in {k + 1, k + 2}
  BY <1>0, <1>10 DEF TearsDown
<1>13. \A h : Empties(t, h)' <=> h = g
  BY <1>2, EmptyingIs
<1>14. \A b \in WorksIn(g) : Dooms(t, b)'
  <2>1. \A i \in 1 .. k : i \in DOMAIN s
    <3>1. k \in Nat /\ (n = k + 1 \/ n = k + 2)
      BY <1>9, <1>10, <1>11
    <3>2. DOMAIN s = 1 .. n
      BY <1>10
    <3> QED BY <3>1, <3>2
  <2>2. \A b \in WorksIn(g) : \E i \in 1 .. k : flow[g][i] = b
    BY <1>9 DEF WorksIn, Range
  <2> QED BY <1>4, <1>7, <1>11, <2>1, <2>2 DEF Dooms
<1>15. Framed(t, X)
  <2>1. \A b \in X : FALSE
    OBVIOUS
  <2> HIDE DEF X
  <2> QED BY <1>1, <1>5, <1>7, <1>13, <2>1 DEF Framed
<1>16. ASSUME NEW h \in FlowsOf[t]
       PROVE  FlowOK(h)'
  <2>1. CASE h = g
    <3>1. h \in Dying'
      BY <1>2, <1>13, <1>15, <2>1, DyingNext
    <3> QED BY <3>1 DEF FlowOK
  <2>2. CASE h # g
    <3>1. \A w \in WorksIn(h) : work'[w] = work[w] /\ (w \in jumped' <=> w \in jumped)
      BY <1>1
    <3> QED BY <1>1, <1>2, <1>8, <3>1, FlowKept
  <2> QED BY <2>1, <2>2
<1>17. ASSUME NEW c \in Blocks, work[c].graph \in FlowsOf[t]
       PROVE  BlockOK(c)'
  <2>0. PICK h : h = work[c].graph
    OBVIOUS
  <2>1. op[t].made = None /\ c # None
    BY <1>2, NoOpTypes, PoolAssumption
  <2>2. c \in live => c \in WorksIn(h)
    BY <1>2, <1>17, <2>0, <2>1, OwnerIs
  <2>3. c \in live => (~Empties(t, h)' /\ c \in Range(flow'[h])) \/ Dooms(t, c)'
    <3>1. CASE h = g
      BY <1>14, <2>2, <3>1
    <3>2. CASE h # g
      BY <1>1, <1>13, <2>2, <3>2 DEF WorksIn
    <3> QED BY <3>1, <3>2
  <2>4. c \in Blocks \ X /\ h \in FlowsOf[t] /\ work[c].graph = h
    BY <1>17, <2>0
  <2> HIDE DEF X
  <2> QED BY <1>15, <2>3, <2>4, BlockKept
<1>18. ThreadOK(t)'
  <2>1. ~Creating(call'[t])
    BY <1>2, <1>5, IdleCreatesNothing
  <2>2. \A i, j \in 1 .. k : s[i].work = s[j].work => i = j
    <3>1. \A i, j \in 1 .. k : flow[g][i] = flow[g][j] => i = j
      BY <1>9 DEF IsInjective
    <3>2. \A i \in 1 .. k : s[i].work = flow[g][i]
      BY <1>11
    <3> QED BY <3>1, <3>2
  <2>3. \A i \in 1 .. k : s[i].do = "destroy" /\ s[i].work \in live' /\ work'[s[i].work].graph = g
    BY <1>1, <1>5, <1>9, <1>11
  <2>4. Emptying(t, g, k)'
    BY <1>4, <1>6, <1>7, <1>10, <1>11, <2>2, <2>3 DEF Emptying
  <2> QED BY <1>9, <2>1, <2>4 DEF ThreadOK
<1>19. \A c \in Blocks : c \in X \/ work[c].graph \in FlowsOf[t] => BlockOK(c)'
  BY <1>17
<1> HIDE DEF X
<1> QED BY <1>8, <1>15, <1>16, <1>18, <1>19, StepKeeps

\* What a destructor of a graph has to do.
LEMMA DestructionsAre ==
  ASSUME BuildingTyped, NEW g \in Flows, NEW s, s = Destructions(g)
  PROVE  LET k == Len(flow[g])
         IN  /\ k \in Nat /\ s \in Seq(Parts) /\ Len(s) = k + 1
             /\ \A i \in 1 .. k : s[i].do = "destroy" /\ s[i].work = flow[g][i]
             /\ s[k + 1].do = "empty" /\ s[k + 1].flow = g
<1>0. PICK f : f = flow[g]
  OBVIOUS
<1>1. PICK k \in Nat : k = Len(f) /\ DOMAIN f = 1 .. k /\ \A i \in 1 .. k : f[i] \in Blocks
  <2>1. f \in Seq(Blocks)
    BY <1>0 DEF BuildingTyped
  <2> QED BY <2>1, LenProperties, ElementOfSeq
<1> DEFINE d == [i \in DOMAIN f |-> [do |-> "destroy", work |-> f[i]]]
           p == [do |-> "empty", flow |-> g]
           e == <<p>>
<1>2. s = d \o e
  BY <1>0 DEF Destructions
<1>3. \A i \in 1 .. k : d[i].do = "destroy" /\ d[i].work = f[i] /\ d[i] \in Parts
  BY <1>1 DEF Parts
<1>4. d \in [1 .. k -> Parts]
  BY <1>1, <1>3
<1>5. p \in Parts /\ p.do = "empty" /\ p.flow = g
  BY DEF Parts
<1> HIDE DEF d, p
<1>6. d \in Seq(Parts) /\ Len(d) = k
  BY <1>4, FunctionIsSeq
<1>7. e \in Seq(Parts) /\ Len(e) = 1 /\ e[1] = p
  BY <1>5
<1> HIDE DEF e
<1>8. /\ d \o e \in Seq(Parts) /\ Len(d \o e) = Len(d) + Len(e)
      /\ \A i \in 1 .. Len(d) + Len(e) : (d \o e)[i] = IF i <= Len(d) THEN d[i] ELSE e[i - Len(d)]
  BY <1>6, <1>7, ConcatProperties
<1>9. /\ s \in Seq(Parts) /\ Len(s) = k + 1
      /\ \A i \in 1 .. k + 1 : s[i] = IF i <= k THEN d[i] ELSE e[i - k]
  BY <1>2, <1>6, <1>7, <1>8
<1>10. \A i \in 1 .. k : s[i] = d[i]
  <2>1. \A i \in 1 .. k : i \in 1 .. k + 1 /\ i <= k
    OBVIOUS
  <2> QED BY <1>9, <2>1
<1>11. s[k + 1] = p
  <2>1. k + 1 \in 1 .. k + 1 /\ ~(k + 1 <= k) /\ (k + 1) - k = 1
    OBVIOUS
  <2> QED BY <1>7, <1>9, <2>1
<1> QED BY <1>0, <1>1, <1>3, <1>5, <1>9, <1>10, <1>11

\* A graph is cleared, or is to take over another.
LEMMA TearDownIs ==
  ASSUME IInv, NEW t \in Threads, Clear(t) \/ Move(t)
  PROVE  \E g \in FlowsOf[t], s \in Seq(Parts) :
           /\ Calls(t, "clear") \/ Calls(t, "move")
           /\ Does(t, s) /\ TearsDown(t, s, g, flow[g])
<1>1. CASE Clear(t)
  <2>1. PICK g \in FlowsOf[t] : Does(t, Destructions(g))
    BY <1>1 DEF Clear
  <2>2. PICK s : s = Destructions(g)
    OBVIOUS
  <2>3. PICK f, k : f = flow[g] /\ k = Len(f)
    OBVIOUS
  <2>4. /\ k \in Nat /\ s \in Seq(Parts) /\ Len(s) = k + 1
        /\ \A i \in 1 .. k : s[i].do = "destroy" /\ s[i].work = f[i]
        /\ s[k + 1].do = "empty" /\ s[k + 1].flow = g
    BY <2>2, <2>3, IInvParts, FlowsApart, DestructionsAre
  <2>5. TearsDown(t, s, g, f)
    <3>1. Len(s) # k + 2
      BY <2>4
    <3> QED BY <2>3, <2>4, <3>1 DEF TearsDown
  <2>6. Calls(t, "clear")
    BY <1>1 DEF Clear
  <2>7. Does(t, s)
    BY <2>1, <2>2
  <2>8. TearsDown(t, s, g, flow[g])
    BY <2>3, <2>5
  <2> QED BY <2>4, <2>6, <2>7, <2>8
<1>2. CASE Move(t)
  <2>1. PICK g \in FlowsOf[t], h \in FlowsOf[t] :
          /\ g # h
          /\ Does(t, Destructions(g) \o <<[do |-> "take", flow |-> g, from |-> h]>>)
    BY <1>2 DEF Move
  <2>2. PICK d : d = Destructions(g)
    OBVIOUS
  <2>3. PICK f, k : f = flow[g] /\ k = Len(f)
    OBVIOUS
  <2>4. /\ k \in Nat /\ d \in Seq(Parts) /\ Len(d) = k + 1
        /\ \A i \in 1 .. k : d[i].do = "destroy" /\ d[i].work = f[i]
        /\ d[k + 1].do = "empty" /\ d[k + 1].flow = g
    BY <2>2, <2>3, IInvParts, FlowsApart, DestructionsAre
  <2> DEFINE p == [do |-> "take", flow |-> g, from |-> h]
             e == <<p>>
             s == d \o e
  <2>5. p \in Parts /\ p.do = "take" /\ p.flow = g /\ p.from = h
    BY FlowsApart DEF Parts
  <2>6. Does(t, s)
    BY <2>1, <2>2
  <2> HIDE DEF p
  <2>7. e \in Seq(Parts) /\ Len(e) = 1 /\ e[1] = p
    BY <2>5
  <2> HIDE DEF e
  <2>8. /\ s \in Seq(Parts) /\ Len(s) = Len(d) + Len(e)
        /\ \A i \in 1 .. Len(d) + Len(e) : s[i] = IF i <= Len(d) THEN d[i] ELSE e[i - Len(d)]
    BY <2>4, <2>7, ConcatProperties
  <2> HIDE DEF s
  <2>9. /\ Len(s) = k + 2
        /\ \A i \in 1 .. k + 2 : s[i] = IF i <= k + 1 THEN d[i] ELSE e[i - (k + 1)]
    BY <2>4, <2>7, <2>8
  <2>10. \A i \in 1 .. k : s[i] = d[i]
    <3>1. \A i \in 1 .. k : i \in 1 .. k + 2 /\ i <= k + 1
      BY <2>4
    <3> QED BY <2>9, <3>1
  <2>11. s[k + 1] = d[k + 1]
    <3>1. k + 1 \in 1 .. k + 2 /\ k + 1 <= k + 1
      BY <2>4
    <3> QED BY <2>9, <3>1
  <2>12. s[k + 2] = p
    <3>1. k + 2 \in 1 .. k + 2 /\ ~(k + 2 <= k + 1) /\ (k + 2) - (k + 1) = 1
      BY <2>4
    <3> QED BY <2>7, <2>9, <3>1
  <2>13. TearsDown(t, s, g, f)
    BY <2>1, <2>3, <2>4, <2>5, <2>9, <2>10, <2>11, <2>12 DEF TearsDown
  <2>14. Calls(t, "move")
    BY <1>2 DEF Move
  <2>15. TearsDown(t, s, g, flow[g]) /\ g \in FlowsOf[t] /\ s \in Seq(Parts)
    BY <2>3, <2>8, <2>13
  <2> QED BY <2>6, <2>14, <2>15
<1> QED BY <1>1, <1>2

\* It is to destroy its Works first.
LEMMA TearDownsKeep ==
  ASSUME IInv, PoolIInv', NEW t \in Threads, Clear(t) \/ Move(t)
  PROVE  IInv'
<1>1. PICK g \in FlowsOf[t], s \in Seq(Parts) :
        /\ Calls(t, "clear") \/ Calls(t, "move")
        /\ Does(t, s) /\ TearsDown(t, s, g, flow[g])
  BY TearDownIs
<1> QED BY <1>1, EmptyingBegins

\* The n parts s that t has still to do, k of them destructions of Works of g.
Left(t, g, k, s, n) ==
  /\ n = Len(s) /\ DOMAIN s = 1 .. n /\ (n = k + 1 \/ n = k + 2)
  /\ \A i \in 1 .. k : /\ s[i].do = "destroy" /\ s[i].work \in Blocks
                       /\ s[i].work \in live /\ work[s[i].work].graph = g
  /\ \A i, j \in 1 .. k : s[i].work = s[j].work => i = j
  /\ s[k + 1].do = "empty" /\ s[k + 1].flow = g
  /\ n = k + 2 => /\ s[k + 2].do = "take" /\ s[k + 2].flow = g
                  /\ s[k + 2].from \in FlowsOf[t] \ {g}
  /\ op[t].made = None
  /\ \A h : Empties(t, h) <=> h = g
  /\ \A h \in FlowsOf[t] : h # g => h \in Flows \ Dying

\* What is left of a call that empties g.
LEMMA EmptyingFacts ==
  ASSUME IInv, NEW t \in Threads, NEW g \in FlowsOf[t], NEW k \in Nat, Emptying(t, g, k),
         NEW s, s = op[t].todo
  PROVE  \E n \in Nat : Left(t, g, k, s, n)
<1>1. PICK n \in Nat : n = Len(s) /\ DOMAIN s = 1 .. n /\ \A i \in 1 .. n : s[i] \in Parts
  <2>1. Len(s) \in Nat /\ DOMAIN s = 1 .. Len(s) /\ \A i \in DOMAIN s : s[i] \in Parts
    BY IInvParts, OpTypes
  <2> QED BY <2>1
<1>2. /\ op[t] = [NoOp EXCEPT !.todo = op[t].todo]
      /\ n \in {k + 1, k + 2}
      /\ \A i \in 1 .. k : s[i].do = "destroy" /\ s[i].work \in live /\ work[s[i].work].graph = g
      /\ \A i, j \in 1 .. k : s[i].work = s[j].work => i = j
      /\ s[k + 1].do = "empty" /\ s[k + 1].flow = g
      /\ n = k + 2 => /\ s[k + 2].do = "take" /\ s[k + 2].flow = g
                      /\ s[k + 2].from \in FlowsOf[t] \ {g}
  BY <1>1 DEF Emptying
<1>3. op[t].made = None
  BY <1>2 DEF NoOp
<1>4. \A i \in 1 .. n : i \in 1 .. k \/ i = k + 1 \/ (i = k + 2 /\ n = k + 2)
  BY <1>2
<1>5. \A i \in 1 .. k : i \in 1 .. n
  BY <1>2
<1>6. k + 1 \in 1 .. n
  BY <1>2
<1>7. \A h : Empties(t, h) <=> h = g
  BY <1>1, <1>2, <1>4, <1>6 DEF Empties
<1>8. \A h \in FlowsOf[t] : h # g => h \in Flows \ Dying
  BY <1>7, DyingIs, FlowsApart
<1>9. \A i \in 1 .. k : s[i].work \in Blocks
  BY <1>1, <1>2, <1>5, PartFields
<1>10. Left(t, g, k, s, n)
  BY <1>1, <1>2, <1>3, <1>7, <1>8, <1>9 DEF Left
<1> QED BY <1>10

\* One Work of a graph that is emptied goes.
LEMMA DestroyWorkKeeps ==
  ASSUME IInv, PoolIInv', NEW t \in Threads, DestroyWork(t)
  PROVE  IInv'
<1>0. PICK w, s : s = op[t].todo /\ w = Head(s).work
  OBVIOUS
<1>1. /\ Part(t, "destroy") /\ Destroy(t, w)
      /\ work' = [work EXCEPT ![w] = NoWork] /\ PartDone(t)
      /\ flow' = flow /\ plan' = plan /\ jumped' = jumped
  BY <1>0 DEF DestroyWork
<1>2. s # <<>> /\ Head(s).do = "destroy" /\ Head(s) = s[1]
  BY <1>0, <1>1, PartIsDue
<1>3. PICK g \in FlowsOf[t], k \in Nat : k # 0 /\ Emptying(t, g, k)
  BY <1>0, <1>2, Phases
<1>20. PICK n \in Nat : Left(t, g, k, s, n)
  BY <1>0, <1>3, EmptyingFacts
<1>4. /\ n = Len(s) /\ DOMAIN s = 1 .. n /\ (n = k + 1 \/ n = k + 2)
      /\ \A i \in 1 .. k : /\ s[i].do = "destroy" /\ s[i].work \in Blocks
                           /\ s[i].work \in live /\ work[s[i].work].graph = g
      /\ \A i, j \in 1 .. k : s[i].work = s[j].work => i = j
      /\ s[k + 1].do = "empty" /\ s[k + 1].flow = g
      /\ n = k + 2 => /\ s[k + 2].do = "take" /\ s[k + 2].flow = g
                      /\ s[k + 2].from \in FlowsOf[t] \ {g}
      /\ op[t].made = None
      /\ \A h : Empties(t, h) <=> h = g
      /\ \A h \in FlowsOf[t] : h # g => h \in Flows \ Dying
  BY <1>20 DEF Left
<1>5. /\ w \in Blocks /\ w \in live /\ live' = live \ {w}
      /\ (\A u \in Threads \ {t} : call'[u] = call[u]) /\ ~Creating(call'[t])
  BY <1>1, WorkEnds
<1>6. PICK r : r = op'[t].todo
  OBVIOUS
<1>7. /\ op' \in [Threads -> OpRecords] /\ \A u \in Threads \ {t} : op'[u] = op[u]
      /\ op'[t] = [NoOp EXCEPT !.todo = op'[t].todo] /\ op'[t].made = None
      /\ Len(r) = n - 1 /\ DOMAIN r = 1 .. n - 1
      /\ \A i \in 1 .. n - 1 : r[i] = s[i + 1]
  BY <1>0, <1>1, <1>2, <1>4, <1>6, IInvParts, PartIsDone
<1>8. PICK m \in Nat : k = m + 1
  BY <1>3
<1>9. /\ DOMAIN r = 1 .. Len(r) /\ (Len(r) = m + 1 \/ Len(r) = m + 2)
      /\ \A i \in 1 .. m : r[i] = s[i + 1] /\ i + 1 \in 1 .. k /\ i + 1 # 1
      /\ 1 \in 1 .. k
      /\ r[m + 1] = s[k + 1]
      /\ Len(r) = m + 2 => r[m + 2] = s[k + 2] /\ n = k + 2
  <2>1. m + 1 \in 1 .. n - 1 /\ (m + 1) + 1 = k + 1
    BY <1>4, <1>8
  <2>2. Len(r) = m + 2 => m + 2 \in 1 .. n - 1 /\ (m + 2) + 1 = k + 2 /\ n = k + 2
    BY <1>4, <1>7, <1>8
  <2>3. \A i \in 1 .. m : i \in 1 .. n - 1 /\ i + 1 \in 1 .. k /\ i + 1 # 1
    BY <1>4, <1>8
  <2>4. Len(r) = m + 1 \/ Len(r) = m + 2
    BY <1>4, <1>7, <1>8
  <2>5. 1 \in 1 .. k
    BY <1>8
  <2>6. r[m + 1] = s[k + 1]
    BY <1>7, <2>1
  <2>7. Len(r) = m + 2 => r[m + 2] = s[k + 2] /\ n = k + 2
    BY <1>7, <2>2
  <2>8. DOMAIN r = 1 .. Len(r)
    BY <1>7
  <2>9. \A i \in 1 .. m : r[i] = s[i + 1] /\ i + 1 \in 1 .. k /\ i + 1 # 1
    BY <1>7, <2>3
  <2> QED BY <2>4, <2>5, <2>6, <2>7, <2>8, <2>9
<1>10. w = s[1].work /\ work[w].graph = g
  BY <1>0, <1>2, <1>4, <1>9
<1>11. /\ work' \in [Blocks -> WorkRecords] /\ work'[w] = NoWork
       /\ \A b \in Blocks \ {w} : work'[b] = work[b]
  BY <1>1, <1>5, NoWorkOK, IInvParts DEF BuildingTyped
<1>12. BuildingTyped'
  BY <1>1, <1>7, <1>11, IInvParts DEF BuildingTyped
<1>13. Emptying(t, g, m)'
  <2>1. \A i \in 1 .. m : /\ r[i].do = "destroy" /\ r[i].work \in live'
                          /\ work'[r[i].work].graph = g
    <3>1. \A i \in 1 .. m : /\ r[i].do = "destroy" /\ r[i].work \in Blocks \ {w}
                            /\ r[i].work \in live /\ work[r[i].work].graph = g
      <4>1. \A i \in 2 .. k : s[i].work # s[1].work
        <5>1. \A i \in 2 .. k : i \in 1 .. k /\ 1 \in 1 .. k /\ i # 1
          OBVIOUS
        <5> QED BY <1>4, <5>1
      <4>2. \A i \in 1 .. m : i + 1 \in 2 .. k /\ i + 1 \in 1 .. k /\ r[i] = s[i + 1]
        <5>1. \A i \in 1 .. m : i + 1 \in 2 .. k /\ i + 1 \in 1 .. k
          BY <1>8
        <5>2. \A i \in 1 .. m : r[i] = s[i + 1]
          BY <1>9
        <5> QED BY <5>1, <5>2
      <4>3. \A i \in 2 .. k : /\ s[i].do = "destroy" /\ s[i].work \in Blocks
                              /\ s[i].work \in live /\ work[s[i].work].graph = g
        <5>1. \A i \in 2 .. k : i \in 1 .. k
          OBVIOUS
        <5> QED BY <1>4, <5>1
      <4> QED BY <1>10, <4>1, <4>2, <4>3
    <3> QED BY <1>5, <1>11, <3>1
  <2>2. \A i, j \in 1 .. m : r[i].work = r[j].work => i = j
    <3>1. \A i \in 1 .. m : r[i] = s[i + 1] /\ i + 1 \in 1 .. k
      BY <1>9
    <3>2. \A i, j \in 1 .. m : s[i + 1].work = s[j + 1].work => i + 1 = j + 1
      BY <1>4, <3>1
    <3>3. \A i, j \in 1 .. m : i + 1 = j + 1 => i = j
      OBVIOUS
    <3> QED BY <3>1, <3>2, <3>3
  <2>3. Len(r) \in {m + 1, m + 2}
    BY <1>9
  <2>4. r[m + 1].do = "empty" /\ r[m + 1].flow = g
    BY <1>4, <1>9
  <2>5. Len(r) = m + 2 => /\ r[m + 2].do = "take" /\ r[m + 2].flow = g
                          /\ r[m + 2].from \in FlowsOf[t] \ {g}
    BY <1>4, <1>9
  <2> QED BY <1>6, <1>7, <2>1, <2>2, <2>3, <2>4, <2>5 DEF Emptying
<1>14. \A h : Empties(t, h)' <=> h = g
  <2>1. \A i \in DOMAIN r : i \in 1 .. m \/ i = m + 1 \/ (i = m + 2 /\ Len(r) = m + 2)
    <3>1. \A i \in 1 .. n - 1 : i \in 1 .. m \/ i = m + 1 \/ (i = m + 2 /\ n - 1 = m + 2)
      BY <1>4, <1>8
    <3> QED BY <1>7, <3>1
  <2>2. m + 1 \in DOMAIN r
    <3>1. m + 1 \in 1 .. n - 1
      BY <1>4, <1>8
    <3> QED BY <1>7, <3>1
  <2>3. \A i \in DOMAIN r : r[i].do = "empty" => r[i].flow = g
    BY <1>4, <1>9, <2>1
  <2>4. r[m + 1].do = "empty" /\ r[m + 1].flow = g
    BY <1>4, <1>9
  <2> QED BY <1>6, <2>2, <2>3, <2>4 DEF Empties
<1> DEFINE X == {w}
<1>15. Framed(t, X)
  BY <1>1, <1>5, <1>7, <1>10, <1>11, <1>14 DEF Framed
<1>16. ASSUME NEW h \in FlowsOf[t]
       PROVE  FlowOK(h)'
  <2>1. CASE h = g
    <3>1. h \in Dying'
      BY <1>14, <1>15, <2>1, FlowsApart, DyingNext
    <3> QED BY <3>1 DEF FlowOK
  <2>2. CASE h # g
    <3>1. h \in Flows \ Dying
      BY <1>4, <2>2
    <3>2. \A b \in WorksIn(h) : b \in Blocks \ {w}
      BY <1>10, <2>2, <3>1, FlowWorks
    <3>3. \A b \in WorksIn(h) : work'[b] = work[b] /\ (b \in jumped' <=> b \in jumped)
      BY <1>1, <1>11, <3>2
    <3> QED BY <1>1, <1>12, <3>1, <3>3, FlowKept
  <2> QED BY <2>1, <2>2
<1>17. BlockOK(w)'
  BY <1>5, <1>11, BlockFreed
<1>18. ASSUME NEW c \in Blocks \ X, work[c].graph \in FlowsOf[t]
       PROVE  BlockOK(c)'
  <2>0. PICK h : h = work[c].graph
    OBVIOUS
  <2>1. c # None
    BY PoolAssumption
  <2>2. c \in live => (h # g /\ c \in WorksIn(h)) \/ Dooms(t, c)
    BY <1>4, <1>18, <2>0, <2>1, OwnerIs
  <2>3. Dooms(t, c) => Dooms(t, c)'
    <3>1. ASSUME Dooms(t, c)
          PROVE  \E i \in DOMAIN r : r[i].do = "destroy" /\ r[i].work = c
      <4>1. PICK i \in 1 .. n : s[i].do = "destroy" /\ s[i].work = c
        BY <1>0, <1>4, <3>1 DEF Dooms
      <4>2. i # 1
        BY <1>10, <1>18, <4>1
      <4>3. i - 1 \in 1 .. n - 1 /\ (i - 1) + 1 = i
        BY <4>2
      <4>4. r[i - 1] = s[i] /\ i - 1 \in DOMAIN r
        BY <1>7, <4>3
      <4> QED BY <4>1, <4>4
    <3> QED BY <1>6, <3>1 DEF Dooms
  <2>4. c \in live => (~Empties(t, h)' /\ c \in Range(flow'[h])) \/ Dooms(t, c)'
    BY <1>1, <1>14, <2>2, <2>3 DEF WorksIn
  <2>5. h \in FlowsOf[t] /\ work[c].graph = h
    BY <1>18, <2>0
  <2> HIDE DEF X
  <2> QED BY <1>15, <1>18, <2>4, <2>5, BlockKept
<1>19. ThreadOK(t)'
  BY <1>5, <1>13 DEF ThreadOK
<1>21. \A c \in Blocks : c \in X \/ work[c].graph \in FlowsOf[t] => BlockOK(c)'
  BY <1>17, <1>18
<1> HIDE DEF X
<1> QED BY <1>12, <1>15, <1>16, <1>19, <1>21, StepKeeps

\* The graph forgets the Works it has destroyed.
LEMMA ForgetKeeps ==
  ASSUME IInv, PoolIInv', NEW t \in Threads, Forget(t)
  PROVE  IInv'
<1>0. PICK s : s = op[t].todo
  OBVIOUS
<1>1. /\ Part(t, "empty") /\ flow' = [flow EXCEPT ![Head(s).flow] = <<>>] /\ PartDone(t)
      /\ UNCHANGED poolVars /\ work' = work /\ plan' = plan /\ jumped' = jumped
  BY <1>0 DEF Forget
<1>2. s # <<>> /\ Head(s).do = "empty" /\ Head(s) = s[1] /\ call[t] = Idle
  BY <1>0, <1>1, PartIsDue
<1>3. PICK g \in FlowsOf[t] : Emptying(t, g, 0)
  BY <1>0, <1>2, Phases
<1>4. PICK n \in Nat : Left(t, g, 0, s, n)
  BY <1>0, <1>3, EmptyingFacts
<1>5. /\ n = Len(s) /\ DOMAIN s = 1 .. n /\ (n = 1 \/ n = 2)
      /\ s[1].do = "empty" /\ s[1].flow = g
      /\ n = 2 => /\ s[2].do = "take" /\ s[2].flow = g /\ s[2].from \in FlowsOf[t] \ {g}
      /\ op[t].made = None
      /\ \A h : Empties(t, h) <=> h = g
      /\ \A h \in FlowsOf[t] : h # g => h \in Flows \ Dying
  BY <1>4 DEF Left
<1>6. PICK r : r = op'[t].todo
  OBVIOUS
<1>7. /\ op' \in [Threads -> OpRecords] /\ \A u \in Threads \ {t} : op'[u] = op[u]
      /\ op'[t] = [NoOp EXCEPT !.todo = r]
      /\ Len(r) = n - 1 /\ DOMAIN r = 1 .. n - 1
      /\ \A i \in 1 .. n - 1 : r[i] = s[i + 1]
  BY <1>0, <1>1, <1>2, <1>5, <1>6, IInvParts, PartIsDone
<1>8. n = 2 => r[1] = s[2] /\ Len(r) = 1
  <2>1. n = 2 => 1 \in 1 .. n - 1 /\ 1 + 1 = 2 /\ n - 1 = 1
    OBVIOUS
  <2> QED BY <1>7, <2>1
<1>9. \A i \in DOMAIN r : i = 1 /\ n = 2
  <2>1. \A i \in 1 .. n - 1 : i = 1 /\ n = 2
    BY <1>5
  <2> QED BY <1>7, <2>1
<1>10. \A h : ~Empties(t, h)'
  <2>1. \A i \in DOMAIN r : r[i].do # "empty"
    BY <1>5, <1>8, <1>9
  <2> QED BY <1>6, <2>1 DEF Empties
<1>11. g \in Flows /\ UNCHANGED <<live, call>>
  BY <1>1, FlowsApart DEF poolVars
<1>12. /\ flow' \in [Flows -> Seq(Blocks)] /\ flow'[g] = <<>>
       /\ \A h \in Flows \ {g} : flow'[h] = flow[h]
  <2>1. <<>> \in Seq(Blocks) /\ flow \in [Flows -> Seq(Blocks)]
    BY EmptySeq, IInvParts DEF BuildingTyped
  <2>2. flow' = [flow EXCEPT ![g] = <<>>]
    BY <1>1, <1>2, <1>5
  <2> QED BY <1>11, <2>1, <2>2
<1>13. BuildingTyped'
  BY <1>1, <1>7, <1>12, IInvParts DEF BuildingTyped
<1>14. Framed(t, {})
  BY <1>1, <1>7, <1>10, <1>11, <1>12 DEF Framed
<1>15. ASSUME NEW h \in FlowsOf[t]
       PROVE  FlowOK(h)'
  <2>1. CASE h = g
    BY <1>12, <1>13, <2>1, EmptyFlow
  <2>2. CASE h # g
    BY <1>1, <1>5, <1>12, <1>13, <2>2, FlowKept
  <2> QED BY <2>1, <2>2
<1>16. ASSUME NEW c \in Blocks, NEW h \in FlowsOf[t], work[c].graph = h
       PROVE  BlockOK(c)'
  <2>1. ~Dooms(t, c)
    <3>1. \A i \in 1 .. n : i = 1 \/ (i = 2 /\ n = 2)
      BY <1>5
    <3>2. \A i \in DOMAIN s : s[i].do # "destroy"
      BY <1>5, <3>1
    <3> QED BY <1>0, <3>2 DEF Dooms
  <2>2. c # None
    BY PoolAssumption
  <2>3. c \in live => ~Empties(t, h) /\ c \in WorksIn(h)
    BY <1>5, <1>16, <2>1, <2>2, OwnerIs
  <2>4. c \in live => h # g
    BY <1>5, <2>3
  <2>5. c \in live => c \in Range(flow'[h])
    BY <1>12, <2>3, <2>4, FlowsApart DEF WorksIn
  <2>6. c \in Blocks \ {}
    OBVIOUS
  <2> QED BY <1>10, <1>14, <1>16, <2>5, <2>6, BlockKept
<1>17. ThreadOK(t)'
  <2>1. ~Creating(call'[t])
    BY <1>2, <1>11, IdleCreatesNothing
  <2>2. CASE n = 1
    <3>1. r = <<>>
      <4>1. r \in Seq(Parts)
        BY <1>6, <1>7 DEF OpRecords
      <4>2. Len(r) = 0
        BY <1>7, <2>2
      <4> QED BY <4>1, <4>2, EmptySeq
    <3>2. op'[t] = NoOp
      BY <1>7, <3>1 DEF NoOp
    <3> QED BY <2>1, <3>2, NothingToDo
  <2>3. CASE n = 2
    <3>1. /\ r[1].do = "take" /\ r[1].flow = g /\ r[1].from \in FlowsOf[t] /\ r[1].from # g
          /\ Len(r) = 1
      BY <1>5, <1>8, <2>3
    <3>2. Taking(t)'
      BY <1>6, <1>7, <1>12, <3>1 DEF Taking
    <3> QED BY <2>1, <3>2 DEF ThreadOK
  <2> QED BY <1>5, <2>2, <2>3
<1>18. \A c \in Blocks : c \in {} \/ work[c].graph \in FlowsOf[t] => BlockOK(c)'
  BY <1>16
<1> QED BY <1>13, <1>14, <1>15, <1>17, <1>18, StepKeeps

\* Works that only learn of another graph keep their edges.
LEMMA RelabelledEdges ==
  ASSUME NEW f \in [Blocks -> WorkRecords], NEW h \in [Blocks -> WorkRecords],
         NEW W \in SUBSET Blocks, NEW E, Drawn(f, W, E),
         \A b \in W : h[b].edges = f[b].edges /\ h[b].nsucc = f[b].nsucc
  PROVE  Edges(h, W) = Edges(f, W) /\ Drawn(h, W, E)
<1>1. ASSUME NEW b \in W
      PROVE  Targets(h[b]) = Targets(f[b]) /\ Origins(h[b]) = Origins(f[b])
  BY DEF Targets, Origins
<1>2. ASSUME NEW b \in W, Edged(f[b])
      PROVE  Edged(h[b])
  BY <1>2 DEF Edged
<1>3. Edges(h, W) = Edges(f, W)
  <2>1. \A e \in W \X W : Targets(h[e[1]]) = Targets(f[e[1]])
    BY <1>1
  <2> QED BY <2>1 DEF Edges
<1>4. Drawn(h, W, E)
  BY <1>1, <1>2 DEF Drawn
<1> QED BY <1>3, <1>4

\* The one part that is left, if a call is to take over a graph.
LEMMA TakingFacts ==
  ASSUME IInv, NEW t \in Threads, Taking(t)
  PROVE  \E g \in FlowsOf[t], h \in FlowsOf[t] :
           /\ g # h /\ Head(op[t].todo).flow = g /\ Head(op[t].todo).from = h
           /\ flow[g] = <<>> /\ Tail(op[t].todo) = <<>> /\ op[t].made = None
           /\ (\A d : ~Empties(t, d)) /\ (\A b : ~Dooms(t, b))
<1>1. PICK s : s = op[t].todo
  OBVIOUS
<1>2. /\ Len(s) = 1 /\ DOMAIN s = 1 .. Len(s) /\ s \in Seq(Parts)
      /\ s[1].do = "take" /\ s[1].flow \in FlowsOf[t] /\ s[1].from \in FlowsOf[t]
      /\ s[1].flow # s[1].from /\ flow[s[1].flow] = <<>> /\ op[t] = [NoOp EXCEPT !.todo = s]
  BY <1>1, IInvParts, OpTypes DEF Taking
<1>3. s # <<>> /\ Head(s) = s[1]
  <2>1. Len(<<>>) = 0 /\ Len(s) = 1
    BY <1>2
  <2>2. s # <<>>
    BY <2>1
  <2> QED BY <1>1, <2>2, IInvParts, OpTypes
<1>4. Tail(s) = <<>>
  <2>1. Tail(s) \in Seq(Parts) /\ Len(Tail(s)) = 0
    BY <1>2, <1>3, HeadTailProperties
  <2> QED BY <2>1, EmptySeq
<1>5. \A i \in DOMAIN s : i = 1
  BY <1>2
<1>6. (\A d : ~Empties(t, d)) /\ (\A b : ~Dooms(t, b))
  BY <1>1, <1>2, <1>5 DEF Empties, Dooms
<1>7. op[t].made = None
  BY <1>2 DEF NoOp
<1> QED BY <1>1, <1>2, <1>3, <1>4, <1>6, <1>7

\* A graph takes over the Works of another.
LEMMA TakeOverKeeps ==
  ASSUME IInv, PoolIInv', NEW t \in Threads, TakeOver(t)
  PROVE  IInv'
<1>1. /\ Part(t, "take") /\ PartDone(t)
      /\ flow' = [flow EXCEPT ![Head(op[t].todo).flow] = flow[Head(op[t].todo).from],
                              ![Head(op[t].todo).from] = <<>>]
      /\ work' = [b \in Blocks |->
                    IF b \in Range(flow[Head(op[t].todo).from])
                    THEN [work[b] EXCEPT !.graph = Head(op[t].todo).flow] ELSE work[b]]
      /\ UNCHANGED poolVars /\ plan' = plan /\ jumped' = jumped
  BY DEF TakeOver
<1>2. op[t].todo # <<>> /\ Head(op[t].todo).do = "take" /\ call[t] = Idle
  BY <1>1, PartIsDue
<1>3. PICK g \in FlowsOf[t] : \E h \in FlowsOf[t] :
        /\ g # h /\ Head(op[t].todo).flow = g /\ Head(op[t].todo).from = h
        /\ flow[g] = <<>> /\ Tail(op[t].todo) = <<>> /\ op[t].made = None
        /\ (\A d : ~Empties(t, d)) /\ (\A b : ~Dooms(t, b))
  BY <1>2, Phases, TakingFacts
<1>4. PICK h \in FlowsOf[t] :
        /\ g # h /\ Head(op[t].todo).flow = g /\ Head(op[t].todo).from = h
        /\ flow[g] = <<>> /\ Tail(op[t].todo) = <<>> /\ op[t].made = None
        /\ (\A d : ~Empties(t, d)) /\ (\A b : ~Dooms(t, b))
  BY <1>3
<1>5. PICK W, q : W = WorksIn(h) /\ q = flow[h]
  OBVIOUS
<1>6. g \in Flows /\ h \in Flows \ Dying /\ \A d \in FlowsOf[t] : d \in Flows \ Dying
  BY <1>4, DyingIs, FlowsApart
<1>7. /\ IsInjective(q) /\ q \in Seq(Blocks) /\ Range(q) = W /\ W \in SUBSET Blocks
      /\ Drawn(work, W, Edges(work, W)) /\ Acyclic(Edges(work, W), W \ jumped)
      /\ \A w \in W : w \in live /\ work[w].graph = h /\ work[w] \in WorkRecords
  <2>1. Range(q) = W
    BY <1>5 DEF WorksIn
  <2> QED BY <1>5, <1>6, <2>1, FlowWorks DEF EdgesIn
<1>8. op'[t] = NoOp /\ op' \in [Threads -> OpRecords] /\ \A u \in Threads \ {t} : op'[u] = op[u]
  <2>1. op' = [op EXCEPT ![t] = [NoOp EXCEPT !.todo = <<>>]]
    BY <1>1, <1>4 DEF PartDone
  <2>2. [NoOp EXCEPT !.todo = <<>>] = NoOp
    BY DEF NoOp
  <2>3. op \in [Threads -> OpRecords] /\ NoOp \in OpRecords
    BY IInvParts, NoOpTypes DEF BuildingTyped
  <2> QED BY <2>1, <2>2, <2>3
<1>9. UNCHANGED <<live, call>> /\ ~Creating(call'[t])
  BY <1>1, <1>2, IdleCreatesNothing DEF poolVars
<1>10. /\ flow' \in [Flows -> Seq(Blocks)] /\ flow'[g] = q /\ flow'[h] = <<>>
       /\ \A d \in Flows \ {g, h} : flow'[d] = flow[d]
  <2>1. <<>> \in Seq(Blocks) /\ flow \in [Flows -> Seq(Blocks)] /\ q \in Seq(Blocks)
    BY <1>7, EmptySeq, IInvParts DEF BuildingTyped
  <2>2. flow' = [flow EXCEPT ![g] = q, ![h] = <<>>]
    BY <1>1, <1>4, <1>5
  <2> QED BY <1>4, <1>6, <2>1, <2>2
<1>11. /\ work' \in [Blocks -> WorkRecords]
       /\ \A b \in W : /\ work'[b].graph = g /\ work'[b].type = work[b].type
                       /\ work'[b].edges = work[b].edges /\ work'[b].nsucc = work[b].nsucc
                       /\ work'[b].acquires = work[b].acquires
                       /\ work'[b].releases = work[b].releases
       /\ \A b \in Blocks \ W : work'[b] = work[b]
  <2>1. work \in [Blocks -> WorkRecords]
    BY IInvParts DEF BuildingTyped
  <2>2. work' = [b \in Blocks |-> IF b \in W THEN [work[b] EXCEPT !.graph = g] ELSE work[b]]
    BY <1>1, <1>4, <1>5, <1>7
  <2>3. ASSUME NEW x \in WorkRecords, NEW y, y = [x EXCEPT !.graph = g]
        PROVE  /\ y \in WorkRecords /\ y.graph = g /\ y.type = x.type /\ y.edges = x.edges
               /\ y.nsucc = x.nsucc /\ y.acquires = x.acquires /\ y.releases = x.releases
    BY <1>6, <2>3 DEF WorkRecords
  <2>4. ASSUME NEW b \in W
        PROVE  /\ work'[b] \in WorkRecords /\ work'[b].graph = g
               /\ work'[b].type = work[b].type
               /\ work'[b].edges = work[b].edges /\ work'[b].nsucc = work[b].nsucc
               /\ work'[b].acquires = work[b].acquires
               /\ work'[b].releases = work[b].releases
    <3>1. work'[b] = [work[b] EXCEPT !.graph = g] /\ work[b] \in WorkRecords
      BY <1>7, <2>1, <2>2
    <3> QED BY <2>3, <3>1
  <2>5. \A b \in Blocks \ W : work'[b] = work[b] /\ work'[b] \in WorkRecords
    BY <2>1, <2>2
  <2>6. \A b \in Blocks : work'[b] \in WorkRecords
    BY <2>4, <2>5
  <2>7. DOMAIN work' = Blocks /\ work' = [b \in Blocks |-> work'[b]]
    BY <2>2
  <2>8. work' \in [Blocks -> WorkRecords]
    BY <2>6, <2>7
  <2> QED BY <2>4, <2>5, <2>8
<1>12. BuildingTyped'
  BY <1>1, <1>8, <1>10, <1>11, IInvParts DEF BuildingTyped
<1>13. \A d : ~Empties(t, d)'
  BY <1>8, NoOpTypes DEF Empties
<1>14. Framed(t, W)
  BY <1>1, <1>4, <1>6, <1>7, <1>8, <1>9, <1>10, <1>11, <1>13 DEF Framed
<1>15. FlowOK(g)'
  <2>1. WorksIn(g)' = W
    BY <1>7, <1>10 DEF WorksIn
  <2>2. work \in [Blocks -> WorkRecords]
    BY IInvParts DEF BuildingTyped
  <2>3. Edges(work', W) = Edges(work, W) /\ Drawn(work', W, Edges(work, W))
    BY <1>7, <1>11, <2>2, RelabelledEdges
  <2>4. Acyclic(Edges(work', W), W \ jumped')
    BY <1>1, <1>7, <2>3
  <2>5. EdgesIn(g)' = Edges(work', W)
    BY <2>1 DEF EdgesIn
  <2>6. IsInjective(flow'[g]) /\ \A w \in W : work'[w].graph = g
    BY <1>7, <1>10, <1>11
  <2> QED BY <2>1, <2>3, <2>4, <2>5, <2>6 DEF FlowOK
<1>16. ASSUME NEW d \in FlowsOf[t] \ {g, h}
       PROVE  FlowOK(d)'
  <2>1. d \in Flows \ Dying /\ flow'[d] = flow[d]
    BY <1>6, <1>10
  <2>2. \A w \in WorksIn(d) : w \in Blocks \ W
    BY <1>7, <2>1, FlowWorks
  <2>3. \A w \in WorksIn(d) : work'[w] = work[w] /\ (w \in jumped' <=> w \in jumped)
    BY <1>1, <1>11, <2>2
  <2> QED BY <1>12, <2>1, <2>3, FlowKept
<1>17. FlowOK(h)'
  BY <1>10, <1>12, EmptyFlow
<1>18. ASSUME NEW b \in W
       PROVE  BlockOK(b)'
  <2>1. BlockOK(b) /\ b \in live /\ b \in live'
    BY <1>7, <1>9, IInvParts
  <2>2. work'[b].nsucc \in 0 .. Len(work'[b].edges)
    BY <1>11, <2>1 DEF BlockOK
  <2>3. Ordered(work'[b].acquires) /\ Distinct(work'[b].releases)
    BY <1>11, <2>1 DEF BlockOK
  <2>4. IsJump(work'[b]) => b \in jumped'
    BY <1>1, <1>11, <2>1 DEF BlockOK, IsJump
  <2>5. g \notin Dying'
    BY <1>4, <1>6, <1>13, <1>14, DyingNext
  <2>6. b \in Range(flow'[g]) /\ work'[b].graph = g
    BY <1>7, <1>10, <1>11
  <2>7. Owned(b)'
    BY <2>5, <2>6 DEF Owned, WorksIn
  <2> QED BY <1>6, <2>1, <2>2, <2>3, <2>4, <2>6, <2>7 DEF BlockOK
<1>19. ASSUME NEW c \in Blocks \ W, NEW d \in FlowsOf[t], work[c].graph = d
       PROVE  BlockOK(c)'
  <2>1. c # None
    BY PoolAssumption
  <2>2. c \in live => c \in WorksIn(d)
    BY <1>4, <1>19, <2>1, OwnerIs
  <2>3. c \in live => d \notin {g, h}
    <3>1. WorksIn(g) = {}
      BY <1>4, RangeOfEmpty DEF WorksIn
    <3> QED BY <1>5, <2>2, <3>1
  <2>4. c \in live => c \in Range(flow'[d])
    BY <1>10, <2>2, <2>3, FlowsApart DEF WorksIn
  <2> QED BY <1>13, <1>14, <1>19, <2>4, BlockKept
<1>20. ThreadOK(t)'
  BY <1>8, <1>9, NothingToDo
<1>21. \A d \in FlowsOf[t] : FlowOK(d)'
  BY <1>15, <1>16, <1>17
<1>22. \A c \in Blocks : c \in W \/ work[c].graph \in FlowsOf[t] => BlockOK(c)'
  BY <1>18, <1>19
<1> QED BY <1>12, <1>14, <1>20, <1>21, <1>22, StepKeeps

-----------------------------------------------------------------------------
(* The invariant holds in every state.                                     *)

\* The plans of a run, at the places that matter.
LEMMA PlanFits ==
  ASSUME NEW p \in Plans
  PROVE  /\ Fitting(p.taken) /\ p.flows \in [Flows -> Seq(Blocks)]
         /\ \A b \in Taken(p.taken) : /\ p.types[b] \in GraphKinds
                                      /\ \E g \in Flows : b \in Range(p.flows[g])
         /\ \A g \in Flows : Range(p.flows[g]) \subseteq Taken(p.taken)
         /\ \A g, h \in Flows : \A i \in DOMAIN p.flows[g], j \in DOMAIN p.flows[h] :
              p.flows[g][i] = p.flows[h][j] => g = h /\ i = j
<1>1. /\ p.taken \in [Buckets -> Nat]
      /\ \A k \in Buckets : p.taken[k] <= Len(Slabs[k][1])
      /\ p.flows \in [Flows -> Seq(Blocks)]
      /\ UNION {Range(p.flows[g]) : g \in Flows} = Taken(p.taken)
      /\ \A g, h \in Flows : \A i \in DOMAIN p.flows[g], j \in DOMAIN p.flows[h] :
           p.flows[g][i] = p.flows[h][j] => g = h /\ i = j
      /\ \A b \in Taken(p.taken) : p.types[b] \in GraphKinds
  BY BuildingAssumption
<1>2. Fitting(p.taken)
  BY <1>1 DEF Fitting
<1> QED BY <1>1, <1>2

\* A run begins in it.
LEMMA InitIInv == Init => IInv
<1> SUFFICES ASSUME Init PROVE IInv
  OBVIOUS
<1>1. /\ plan \in Plans /\ flow = plan.flows /\ PoolInit(plan.taken)
      /\ op = [t \in Threads |-> NoOp]
      /\ jumped = {b \in live : IsJump(work[b])}
  BY DEF Init
<1>2. work = [b \in Blocks |->
                IF b \in live
                THEN Created(CHOOSE g \in Flows : b \in Range(flow[g]), plan.types[b])
                ELSE NoWork]
  BY DEF Init
<1>3. live = Taken(plan.taken) /\ call = [t \in Threads |-> Idle]
  BY <1>1 DEF PoolInit
<1>4. /\ PoolIInv /\ flow \in [Flows -> Seq(Blocks)] /\ live \subseteq Blocks
      /\ \A b \in live : /\ plan.types[b] \in GraphKinds
                         /\ \E g \in Flows : b \in Range(flow[g])
      /\ \A g \in Flows : Range(flow[g]) \subseteq live
      /\ \A g, h \in Flows : \A i \in DOMAIN flow[g], j \in DOMAIN flow[h] :
           flow[g][i] = flow[h][j] => g = h /\ i = j
  <2>1. PoolIInv
    BY <1>1, PlanFits, PoolInitIInv
  <2>2. live \subseteq Blocks
    BY <2>1 DEF PoolIInv, PoolTyped
  <2>3. PICK p \in Plans : p = plan
    BY <1>1
  <2>4. flow = p.flows /\ live = Taken(p.taken)
    BY <1>1, <1>3, <2>3
  <2>5. \A b \in live : /\ plan.types[b] \in GraphKinds
                        /\ \E g \in Flows : b \in Range(flow[g])
    BY <2>3, <2>4, PlanFits
  <2>6. flow \in [Flows -> Seq(Blocks)]
    BY <2>3, <2>4, PlanFits
  <2>7. \A g \in Flows : Range(flow[g]) \subseteq live
    BY <2>3, <2>4, PlanFits
  <2>8. \A g, h \in Flows : \A i \in DOMAIN flow[g], j \in DOMAIN flow[h] :
          flow[g][i] = flow[h][j] => g = h /\ i = j
    <3>1. \A g, h \in Flows : \A i \in DOMAIN p.flows[g], j \in DOMAIN p.flows[h] :
            p.flows[g][i] = p.flows[h][j] => g = h /\ i = j
      BY <2>3, BuildingAssumption
    <3>2. ASSUME NEW g \in Flows, NEW h \in Flows, NEW i \in DOMAIN flow[g],
                 NEW j \in DOMAIN flow[h], flow[g][i] = flow[h][j]
          PROVE  g = h /\ i = j
      <4>1. flow[g] = p.flows[g] /\ flow[h] = p.flows[h]
        BY <2>4
      <4> QED BY <3>1, <3>2, <4>1
    <3> QED BY <3>2
  <2> QED BY <2>1, <2>2, <2>5, <2>6, <2>7, <2>8
<1>5. ASSUME NEW b \in live
      PROVE  \E g \in Flows : b \in Range(flow[g]) /\ work[b] = Created(g, plan.types[b])
  <2> DEFINE g == CHOOSE g \in Flows : b \in Range(flow[g])
  <2>1. g \in Flows /\ b \in Range(flow[g])
    BY <1>4
  <2>2. work[b] = Created(g, plan.types[b])
    BY <1>2, <1>4
  <2> HIDE DEF g
  <2> QED BY <2>1, <2>2
<1>6. ASSUME NEW b \in Blocks
      PROVE  /\ work[b] \in WorkRecords /\ Edged(work[b])
             /\ Targets(work[b]) = {} /\ Origins(work[b]) = {}
             /\ work[b].nsucc \in 0 .. Len(work[b].edges)
             /\ Ordered(work[b].acquires) /\ Distinct(work[b].releases)
             /\ b \notin live => work[b] = NoWork
             /\ IsJump(work[b]) => b \in live
  <2>1. CASE b \in live
    <3>1. PICK g \in Flows : work[b] = Created(g, plan.types[b])
      BY <1>5, <2>1
    <3> QED BY <1>4, <2>1, <3>1, CreatedOK
  <2>2. CASE b \notin live
    <3>1. work[b] = NoWork
      BY <1>2, <2>2
    <3>2. NoWork.edges = <<>> /\ NoWork.nsucc = 0
      BY DEF NoWork
    <3>3. Len(<<>>) = 0 /\ 1 .. 0 = {} /\ 0 + 1 .. 0 = {} /\ 0 \in 0 .. 0
      OBVIOUS
    <3>4. Targets(NoWork) = {} /\ Origins(NoWork) = {} /\ Edged(NoWork)
      BY <3>2, <3>3 DEF Targets, Origins, Edged
    <3> QED BY <2>2, <3>1, <3>4, NoWorkOK
  <2> QED BY <2>1, <2>2
<1>7. BuildingTyped
  <2>1. work \in [Blocks -> WorkRecords]
    <3>1. work = [b \in Blocks |-> work[b]]
      BY <1>2
    <3> QED BY <1>6, <3>1
  <2>2. op \in [Threads -> OpRecords]
    BY <1>1, NoOpTypes
  <2> QED BY <1>1, <1>4, <2>1, <2>2 DEF BuildingTyped
<1>8. \A t \in Threads : op[t] = NoOp /\ call[t] = Idle
  BY <1>1, <1>3
<1>9. \A g : g \notin Dying
  <2>1. \A t \in Threads : DOMAIN op[t].todo = {}
    BY <1>8, NoOpTypes
  <2> QED BY <2>1 DEF Dying
<1>10. ASSUME NEW g \in Flows, NEW w \in WorksIn(g)
       PROVE  w \in Blocks /\ w \in live /\ work[w].graph = g
  <2>1. w \in live /\ w \in Range(flow[g])
    BY <1>4 DEF WorksIn
  <2>2. PICK h \in Flows : w \in Range(flow[h]) /\ work[w] = Created(h, plan.types[w])
    BY <1>5, <2>1
  <2>3. h = g
    BY <1>4, <2>1, <2>2 DEF Range
  <2> QED BY <1>4, <2>1, <2>2, <2>3, CreatedOK
<1>11. ASSUME NEW g \in Flows
       PROVE  FlowOK(g)
  <2>1. IsInjective(flow[g])
    BY <1>4 DEF IsInjective
  <2>2. PICK W : W = WorksIn(g)
    OBVIOUS
  <2>3. \A w \in W : w \in Blocks
    BY <1>10, <2>2
  <2>4. Edges(work, W) = {}
    <3>1. \A e \in W \X W : Targets(work[e[1]]) = {}
      BY <1>6, <2>3
    <3> QED BY <3>1 DEF Edges
  <2>5. Drawn(work, W, {})
    BY <1>6, <1>7, <2>3 DEF Drawn, BuildingTyped
  <2>6. Acyclic({}, W \ jumped)
    BY DEF Acyclic
  <2> QED BY <1>10, <2>1, <2>2, <2>4, <2>5, <2>6 DEF FlowOK, EdgesIn
<1>12. ASSUME NEW b \in Blocks
       PROVE  BlockOK(b)
  <2>1. ASSUME b \in live
        PROVE  work[b].graph \in Flows /\ Owned(b)
    <3>1. PICK g \in Flows : b \in Range(flow[g]) /\ work[b] = Created(g, plan.types[b])
      BY <1>5, <2>1
    <3>2. b \in WorksIn(g)
      BY <3>1 DEF WorksIn
    <3>3. work[b].graph = g
      BY <1>10, <3>2
    <3> QED BY <1>9, <3>2, <3>3 DEF Owned
  <2>2. IsJump(work[b]) => b \in jumped
    BY <1>1, <1>6
  <2> QED BY <1>6, <2>1, <2>2 DEF BlockOK
<1>13. ASSUME NEW t \in Threads
       PROVE  ThreadOK(t)
  <2>1. ~Creating(call[t])
    BY <1>8, IdleCreatesNothing
  <2>2. DOMAIN NoOp.todo = {}
    BY NoOpTypes
  <2>3. Making(t)
    BY <1>8, <2>2, NoOpTypes DEF Making
  <2> QED BY <2>1, <2>3 DEF ThreadOK
<1> QED BY <1>4, <1>7, <1>11, <1>12, <1>13 DEF IInv

\* A step that leaves the graphs, the Works and the calls alone keeps it.
LEMMA StutterKeeps ==
  ASSUME IInv, PoolIInv', UNCHANGED <<poolVars, flow, work, op, plan, jumped>>
  PROVE  IInv'
<1>1. UNCHANGED <<live, call>>
  BY DEF poolVars
<1>2. Dying' = Dying
  BY DEF Dying
<1>3. BuildingTyped'
  BY IInvParts DEF BuildingTyped
<1>4. \A g \in Flows : FlowOK(g)'
  <2>1. \A g \in Flows : FlowOK(g)
    BY IInvParts
  <2>2. \A g : WorksIn(g)' = WorksIn(g) /\ EdgesIn(g)' = EdgesIn(g)
    BY DEF WorksIn, EdgesIn
  <2> QED BY <1>2, <2>1, <2>2 DEF FlowOK
<1>5. \A t, b : Dooms(t, b)' <=> Dooms(t, b)
  BY DEF Dooms
<1>6. \A b \in Blocks : BlockOK(b)'
  <2>1. \A b \in Blocks : BlockOK(b)
    BY IInvParts
  <2>2. \A b \in Blocks : Owned(b)' <=> Owned(b)
    BY <1>2, <1>5 DEF Owned, WorksIn
  <2> QED BY <1>1, <2>1, <2>2 DEF BlockOK
<1>7. \A t \in Threads : ThreadOK(t)'
  <2>1. ASSUME NEW t \in Threads
        PROVE  ThreadOK(t)'
    <3>1. ThreadOK(t)
      BY IInvParts
    <3>2. Creating(call'[t]) <=> Creating(call[t])
      BY <1>1
    <3>3. Making(t)' <=> Making(t)
      BY <1>1 DEF Making, WorksIn
    <3>4. Connecting(t)' <=> Connecting(t)
      BY DEF Connecting, WorksOf, WorksIn
    <3>5. \A g, k : Emptying(t, g, k)' <=> Emptying(t, g, k)
      BY <1>1 DEF Emptying
    <3>6. Taking(t)' <=> Taking(t)
      BY DEF Taking
    <3>7. InCallback(t)' <=> InCallback(t)
      BY DEF InCallback, WorksOf, Chooser, ChoosesOne
    <3> QED BY <1>1, <3>1, <3>2, <3>3, <3>4, <3>5, <3>6, <3>7 DEF ThreadOK
  <2> QED BY <2>1
<1> QED BY <1>3, <1>4, <1>6, <1>7 DEF IInv

\* So does every step.
LEMMA NextIInv == IInv /\ [Next]_vars => IInv'
<1> SUFFICES ASSUME IInv, [Next]_vars PROVE IInv'
  OBVIOUS
<1>1. PoolIInv'
  BY PoolKept
<1>2. CASE UNCHANGED vars
  <2>1. UNCHANGED <<poolVars, flow, work, op, plan, jumped>>
    BY <1>2 DEF vars
  <2> QED BY <1>1, <2>1, StutterKeeps
<1>3. ASSUME NEW t \in Threads, Edit(t)
      PROVE  IInv'
  <2>1. CASE Emplace(t) \/ EmplaceObject(t)
    BY <1>1, <2>1, EmplaceKeeps
  <2>2. CASE Erase(t)
    BY <1>1, <2>2, EraseKeeps
  <2>3. CASE Clear(t) \/ Move(t)
    BY <1>1, <2>3, TearDownsKeep
  <2>4. CASE Precede(t) \/ Succeed(t) \/ Linearize(t)
    BY <1>1, <2>4, ConnectCallsKeep
  <2>5. CASE Disconnect(t) \/ DropPredecessors(t) \/ DropSuccessors(t)
    BY <1>1, <2>5, DisconnectKeeps
  <2>6. CASE Replace(t) \/ ReplaceObject(t) \/ ReplaceThrows(t)
    BY <1>1, <2>6, ReplaceKeeps
  <2>7. CASE AddAcquire(t) \/ AddRelease(t) \/ DropAcquire(t) \/ DropRelease(t) \/ DropRequests(t)
    BY <1>1, <2>7, RequestsKeep
  <2>8. CASE Callback(t)
    BY <1>1, <2>8, CallbackKeeps
  <2> QED BY <1>3, <2>1, <2>2, <2>3, <2>4, <2>5, <2>6, <2>7, <2>8 DEF Edit
<1>4. ASSUME NEW t \in Threads, Proceed(t)
      PROVE  IInv'
  <2>1. CASE MakeWork(t)
    BY <1>1, <2>1, MakeWorkKeeps
  <2>2. CASE ConstructWork(t)
    BY <1>1, <2>2, ConstructKeeps
  <2>3. CASE CopyThrows(t) \/ CreateThrows(t)
    BY <1>1, <2>3, ThrowsKeep
  <2>4. CASE Adopt(t)
    BY <1>1, <2>4, AdoptKeeps
  <2>5. CASE AdoptThrows(t)
    BY <1>1, <2>5, AdoptThrowsKeeps
  <2>6. CASE DestroyWork(t)
    BY <1>1, <2>6, DestroyWorkKeeps
  <2>7. CASE Forget(t)
    BY <1>1, <2>7, ForgetKeeps
  <2>8. CASE TakeOver(t)
    BY <1>1, <2>8, TakeOverKeeps
  <2>9. CASE Check(t)
    BY <1>1, <2>9, CheckKeeps
  <2>10. CASE Search(t)
    BY <1>1, <2>10, SearchKeeps
  <2>11. CASE RefuseCycle(t)
    BY <1>1, <2>11, RefuseKeeps
  <2>12. CASE Connect(t)
    BY <1>1, <2>12, ConnectKeeps
  <2>13. CASE ConnectThrows(t)
    BY <1>1, <2>13, ConnectThrowsKeeps
  <2>14. CASE BranchCall(t) \/ JumpCall(t) \/ MultiBranchCall(t) \/ MultiJumpCall(t)
    BY <1>1, <2>14, ChoiceCallsKeep
  <2>15. CASE CallbackReturns(t)
    BY <1>1, <2>15, CallbackReturnKeeps
  <2>16. CASE PoolStep(t) /\ UNCHANGED graphVars
    BY <1>1, <2>16, PoolStepKeeps
  <2> QED BY <1>4, <2>1, <2>2, <2>3, <2>4, <2>5, <2>6, <2>7, <2>8, <2>9, <2>10, <2>11, <2>12,
             <2>13, <2>14, <2>15, <2>16 DEF Proceed
<1>5. ASSUME NEW t \in Threads, UseVectors(t)
      PROVE  IInv'
  <2>1. Calls(t, "vector") /\ UNCHANGED <<poolVars, flow, work, op, jumped>>
    BY <1>5 DEF UseVectors
  <2> QED BY <1>1, <2>1, NoEditKeeps
<1> QED BY <1>2, <1>3, <1>4, <1>5 DEF Next

\* The invariant on which everything below rests: at every moment of every
\* interleaving the blocks, the flows, the edges, the requests and the calls in
\* flight fit together.
THEOREM BuildingInvariant == Spec => []IInv
<1>1. Init => IInv
  BY InitIInv
<1>2. IInv /\ [Next]_vars => IInv'
  BY NextIInv
<1> QED BY <1>1, <1>2, PTL DEF Spec

-----------------------------------------------------------------------------
(* What the invariant says.                                                *)

\* The owners of a Work, one by one.
LEMMA OwnersAre ==
  ASSUME NEW b
  PROVE  /\ \A o \in Owners(b) :
              \/ \E g \in Flows \ Dying : \E i \in DOMAIN flow[g] : flow[g][i] = b /\ o = <<g, i>>
              \/ \E t \in Threads : op[t].made = b /\ o = <<t, 0>>
              \/ \E t \in Threads : Dooms(t, b) /\ o = <<t, 1>>
         /\ \A g \in Flows \ Dying : \A i \in DOMAIN flow[g] : flow[g][i] = b => <<g, i>> \in Owners(b)
         /\ \A t \in Threads : op[t].made = b => <<t, 0>> \in Owners(b)
         /\ \A t \in Threads : Dooms(t, b) => <<t, 1>> \in Owners(b)
<1> DEFINE F == UNION {{g} \X {i \in DOMAIN flow[g] : flow[g][i] = b} : g \in Flows \ Dying}
           M == {<<t, 0>> : t \in {u \in Threads : op[u].made = b}}
           C == {<<t, 1>> : t \in {u \in Threads : \E i \in DOMAIN op[u].todo :
                     op[u].todo[i].do = "destroy" /\ op[u].todo[i].work = b}}
<1>1. Owners(b) = (F \cup M) \cup C
  BY DEF Owners
<1>2. \A o \in F : \E g \in Flows \ Dying : \E i \in DOMAIN flow[g] : flow[g][i] = b /\ o = <<g, i>>
  OBVIOUS
<1>3. \A g \in Flows \ Dying : \A i \in DOMAIN flow[g] : flow[g][i] = b => <<g, i>> \in F
  OBVIOUS
<1>4. /\ \A o \in M : \E t \in Threads : op[t].made = b /\ o = <<t, 0>>
      /\ \A t \in Threads : op[t].made = b => <<t, 0>> \in M
  OBVIOUS
<1>5. /\ \A o \in C : \E t \in Threads : Dooms(t, b) /\ o = <<t, 1>>
      /\ \A t \in Threads : Dooms(t, b) => <<t, 1>> \in C
  BY DEF Dooms
<1> HIDE DEF F, M, C
<1> QED BY <1>1, <1>2, <1>3, <1>4, <1>5

\* A Work has one owner, a block without one has none.
LEMMA OneOwnerEach ==
  ASSUME IInv, NEW b \in Blocks
  PROVE  Cardinality(Owners(b)) = IF b \in live THEN 1 ELSE 0
<1>1. ASSUME NEW g \in Flows \ Dying, NEW i \in DOMAIN flow[g], flow[g][i] = b
      PROVE  b \in live /\ work[b].graph = g /\ b \in WorksIn(g)
  <2>1. b \in WorksIn(g)
    BY <1>1 DEF WorksIn, Range
  <2> QED BY <2>1, FlowWorks
<1>2. ASSUME NEW t \in Threads, op[t].made = b
      PROVE  /\ b \in live /\ work[b].graph \in FlowsOf[t] /\ b \notin WorksIn(work[b].graph)
             /\ \A g : ~Empties(t, g)
  <2>1. op[t].made # None
    BY <1>2, PoolAssumption
  <2>2. NoOp.made = None
    BY NoOpTypes
  <2>3. op[t] # [NoOp EXCEPT !.todo = op[t].todo]
    BY <2>1 DEF NoOp
  <2> QED BY <1>2, <2>1, <2>3, IInvParts, OwnParts
<1>3. ASSUME NEW t \in Threads, Dooms(t, b)
      PROVE  /\ b \in live /\ work[b].graph \in FlowsOf[t] /\ work[b].graph \in Dying
             /\ Empties(t, work[b].graph)
  <2>1. b \in live /\ work[b].graph \in FlowsOf[t] /\ Empties(t, work[b].graph)
    BY <1>3, IInvParts, OwnParts
  <2> QED BY <2>1, DyingIs
<1>4. CASE b \notin live
  <2>1. \A o \in Owners(b) : FALSE
    BY <1>1, <1>2, <1>3, <1>4, OwnersAre
  <2>2. Owners(b) = {}
    BY <2>1
  <2> QED BY <1>4, <2>2, FS_EmptySet
<1>5. CASE b \in live
  <2>1. Owned(b)
    BY <1>5, IInvParts DEF BlockOK
  <2>2. PICK g : g = work[b].graph
    OBVIOUS
  <2>3. g \in Flows
    BY <1>5, <2>2, IInvParts DEF BlockOK
  <2>4. \E o : Owners(b) = {o}
    <3>1. CASE g \notin Dying /\ b \in WorksIn(g)
      <4>1. PICK i \in DOMAIN flow[g] : flow[g][i] = b
        BY <3>1 DEF WorksIn, Range
      <4>2. <<g, i>> \in Owners(b)
        BY <2>3, <3>1, <4>1, OwnersAre
      <4>3. \A h \in Flows \ Dying : \A j \in DOMAIN flow[h] : flow[h][j] = b => h = g /\ j = i
        <5>1. IsInjective(flow[g])
          BY <2>3, <3>1, FlowWorks
        <5>2. \A j \in DOMAIN flow[g] : flow[g][j] = b => j = i
          BY <4>1, <5>1 DEF IsInjective
        <5> QED BY <1>1, <2>2, <5>2
      <4>4. \A t \in Threads : op[t].made # b /\ ~Dooms(t, b)
        BY <1>2, <1>3, <2>2, <3>1
      <4>5. \A o \in Owners(b) : o = <<g, i>>
        BY <4>3, <4>4, OwnersAre
      <4> QED BY <4>2, <4>5
    <3>2. ASSUME NEW t \in Threads, op[t].made = b
          PROVE  \E o : Owners(b) = {o}
      <4>1. <<t, 0>> \in Owners(b)
        BY <3>2, OwnersAre
      <4>2. g \in FlowsOf[t] /\ b \notin WorksIn(g) /\ ~Empties(t, g)
        BY <1>2, <2>2, <3>2
      <4>3. \A h \in Flows \ Dying : \A j \in DOMAIN flow[h] : flow[h][j] # b
        BY <1>1, <2>2, <4>2
      <4>4. \A u \in Threads : op[u].made = b => u = t
        BY <1>2, <2>2, <4>2, FlowsApart
      <4>5. \A u \in Threads : ~Dooms(u, b)
        BY <1>3, <2>2, <4>2, FlowsApart
      <4>6. \A o \in Owners(b) : o = <<t, 0>>
        BY <4>3, <4>4, <4>5, OwnersAre
      <4> QED BY <4>1, <4>6
    <3>3. ASSUME NEW t \in Threads, Dooms(t, b)
          PROVE  \E o : Owners(b) = {o}
      <4>1. <<t, 1>> \in Owners(b)
        BY <3>3, OwnersAre
      <4>2. g \in FlowsOf[t] /\ g \in Dying /\ Empties(t, g)
        BY <1>3, <2>2, <3>3
      <4>3. \A h \in Flows \ Dying : \A j \in DOMAIN flow[h] : flow[h][j] # b
        BY <1>1, <2>2, <4>2
      <4>4. \A u \in Threads : op[u].made # b
        BY <1>2, <2>2, <4>2, FlowsApart
      <4>5. \A u \in Threads : Dooms(u, b) => u = t
        BY <1>3, <2>2, <4>2, FlowsApart
      <4>6. \A o \in Owners(b) : o = <<t, 1>>
        BY <4>3, <4>4, <4>5, OwnersAre
      <4> QED BY <4>1, <4>6
    <3> QED BY <2>1, <2>2, <3>1, <3>2, <3>3 DEF Owned
  <2>5. PICK o : Owners(b) = {o}
    BY <2>4
  <2> QED BY <1>5, <2>5, FS_Singleton
<1> QED BY <1>4, <1>5

\* The records are those of Works.
LEMMA WorksTyped == IInv => TypeOK
<1> SUFFICES ASSUME IInv PROVE TypeOK
  OBVIOUS
<1>1. flow \in [Flows -> Seq(Blocks)] /\ work \in [Blocks -> WorkRecords]
  BY IInvParts DEF BuildingTyped
<1>2. ASSUME NEW b \in Blocks
      PROVE  /\ work[b].graph \in Flows \cup {Nothing} /\ work[b].type \in GraphKinds \cup {Nothing}
             /\ work[b].nsucc \in 0 .. Len(work[b].edges) /\ (b \notin live => work[b] = NoWork)
  <2>1. work[b] \in WorkRecords
    BY <1>1
  <2>2. work[b].graph \in Flows \cup {Nothing} /\ work[b].type \in GraphKinds \cup {Nothing}
    BY <2>1, EdgeTypes
  <2>3. BlockOK(b)
    BY IInvParts
  <2> QED BY <2>2, <2>3 DEF BlockOK
<1> QED BY <1>1, <1>2 DEF TypeOK

\* One lemma for the search and for cycles: a path that avoids the Works
\* outside S is one in the flow of its beginning.
LEMMA ReachesInFlow ==
  ASSUME IInv, NEW g \in Flows \ Dying, NEW S \in SUBSET Adopted,
         NEW v \in WorksIn(g) \cap S, NEW u
  PROVE  Reaches(v, u, S) <=> ~Apart(v, u, EdgesIn(g), WorksIn(g) \cap S)
<1>1. PICK W, E : W = WorksIn(g) /\ E = EdgesIn(g)
  OBVIOUS
<1>2. W \subseteq Blocks /\ Drawn(work, W, E) /\ \A w \in W : work[w] \in WorkRecords /\ Edged(work[w])
  BY <1>1, FlowWorks
<1>3. \A w \in W : \A x : x \in Range(Successors(work[w])) <=> x \in W /\ <<w, x>> \in E
  <2>1. \A w \in W : Range(Successors(work[w])) = Targets(work[w])
    BY <1>2, EdgeSets
  <2> QED BY <1>2, <2>1 DEF Drawn
<1>4. \A e \in E : e[1] \in W /\ e[2] \in W /\ e = <<e[1], e[2]>>
  BY <1>1 DEF EdgesIn, Edges
<1>5. ASSUME NEW R \in SUBSET (W \cap S), v \in R, u \notin R, Closed(R, E, W \cap S)
      PROVE  ~Reaches(v, u, S)
  <2>1. ASSUME NEW w \in R, NEW x \in Range(Successors(work[w])) \cap S
        PROVE  x \in R
    <3>1. x \in W /\ <<w, x>> \in E
      BY <1>3, <1>5
    <3>2. PICK e \in E : e = <<w, x>>
      BY <3>1
    <3>3. e[1] \in R /\ e[2] \in W \cap S /\ e[2] = x
      BY <3>1, <3>2
    <3> QED BY <1>5, <3>3 DEF Closed
  <2> QED BY <1>5, <2>1 DEF Reaches
<1>6. ASSUME NEW R \in SUBSET S, v \in R, u \notin R,
             \A w \in R : Range(Successors(work[w])) \cap S \subseteq R
      PROVE  Apart(v, u, E, W \cap S)
  <2>1. Closed(R \cap W, E, W \cap S)
    <3>1. ASSUME NEW e \in E, e[1] \in R \cap W, e[2] \in W \cap S
          PROVE  e[2] \in R \cap W
      <4>1. e[2] \in Range(Successors(work[e[1]]))
        BY <1>3, <1>4, <3>1
      <4> QED BY <1>6, <3>1, <4>1
    <3> QED BY <3>1 DEF Closed
  <2>2. R \cap W \in SUBSET (W \cap S) /\ v \in R \cap W /\ u \notin R \cap W
    BY <1>1, <1>6
  <2> QED BY <2>1, <2>2 DEF Apart
<1>7. Apart(v, u, E, W \cap S) => ~Reaches(v, u, S)
  BY <1>5 DEF Apart
<1>8. ~Reaches(v, u, S) => Apart(v, u, E, W \cap S)
  BY <1>6 DEF Reaches
<1> QED BY <1>1, <1>7, <1>8

\* The answer of the search.
LEMMA SearchAnswers == IInv => SearchIsExact
<1> SUFFICES ASSUME IInv, NEW t \in Threads,
                    op[t].todo # <<>>, op[t].search.pc \in {"path", "noPath"}
             PROVE  op[t].search.pc = "path" <=>
                      Reaches(Head(op[t].todo).to, Head(op[t].todo).from,
                              {w \in Adopted : ~IsJump(work[w])})
  BY DEF SearchIsExact
<1>1. PICK u, v, s : u = Head(op[t].todo).from /\ v = Head(op[t].todo).to /\ s = op[t].search
  OBVIOUS
<1>2. s # NoSearch /\ s.pc \in {"path", "noPath"}
  BY <1>1, NoOpTypes
<1>3. Connecting(t)
  <2>1. ThreadOK(t)
    BY IInvParts
  <2>2. ~Making(t)
    BY <1>1, <1>2 DEF Making
  <2>3. ASSUME NEW x, NEW c, op[t] = [NoOp EXCEPT !.todo = x] \/ op[t] = [NoOp EXCEPT !.choice = c]
        PROVE  FALSE
    <3>1. op[t].search = NoSearch
      BY <2>3, NoOpTypes DEF NoOp
    <3> QED BY <1>1, <1>2, <3>1
  <2> QED BY <2>1, <2>2, <2>3 DEF ThreadOK, Emptying, Taking, InCallback
<1>4. PICK g : g = work[u].graph
  OBVIOUS
<1>5. SearchFacts(work, WorksIn(g), u, v, s)
  BY <1>1, <1>2, <1>3, <1>4 DEF Connecting
<1>6. 1 \in DOMAIN op[t].todo /\ Head(op[t].todo) = op[t].todo[1]
  BY IInvParts, OpTypes
<1>7. u \in WorksOf(t) /\ \A h : ~Empties(t, h)
  BY <1>1, <1>3, <1>6 DEF Connecting, Empties
<1>8. g \in Flows \ Dying
  <2>1. PICK h \in FlowsOf[t] : u \in WorksIn(h)
    BY <1>7 DEF WorksOf, WorksIn
  <2>2. h \in Flows \ Dying
    BY <1>7, DyingIs, FlowsApart
  <2>3. h = g
    BY <1>4, <2>1, <2>2, FlowWorks
  <2> QED BY <2>2, <2>3
<1> DEFINE S == {w \in Adopted : ~IsJump(work[w])}
           L == {w \in WorksIn(g) : ~IsJump(work[w])}
<1>9. WorksIn(g) \cap S = L /\ S \in SUBSET Adopted
  BY <1>8 DEF Adopted, WorksIn
<1>10. /\ v \in L
       /\ s.pc = "noPath" => Apart(v, u, EdgesIn(g), L)
       /\ s.pc = "path" => ~Apart(v, u, EdgesIn(g), L)
  BY <1>2, <1>5 DEF SearchFacts, EdgesIn
<1> HIDE DEF S, L
<1>11. Reaches(v, u, S) <=> ~Apart(v, u, EdgesIn(g), L)
  BY <1>8, <1>9, <1>10, ReachesInFlow
<1>12. s.pc = "path" <=> Reaches(v, u, S)
  BY <1>2, <1>10, <1>11
<1> QED BY <1>1, <1>12 DEF S

\* Cycles among Works that never jumped.
LEMMA CyclesJump == IInv => NoStrictCycle
<1> DEFINE S == Adopted \ jumped
<1> SUFFICES ASSUME IInv, NEW u \in S, NEW v \in Range(Successors(work[u])) \cap S
             PROVE  ~Reaches(v, u, S)
  BY DEF NoStrictCycle
<1>1. PICK g \in Flows \ Dying : u \in WorksIn(g)
  BY DEF Adopted, WorksIn
<1>2. PICK W, E : W = WorksIn(g) /\ E = EdgesIn(g)
  OBVIOUS
<1>3. Drawn(work, W, E) /\ Acyclic(E, W \ jumped) /\ work[u] \in WorkRecords /\ Edged(work[u])
  BY <1>1, <1>2, FlowWorks
<1>4. v \in W /\ <<u, v>> \in E
  BY <1>1, <1>2, <1>3, EdgeSets DEF Drawn
<1>5. W \cap S = W \ jumped
  BY <1>1, <1>2 DEF Adopted, WorksIn
<1>6. Apart(v, u, E, W \cap S)
  <2>1. PICK e \in E : e = <<u, v>>
    BY <1>4
  <2>2. e[1] = u /\ e[2] = v /\ e[1] \in W \ jumped /\ e[2] \in W \ jumped
    BY <1>1, <1>2, <1>4, <2>1
  <2> QED BY <1>3, <1>5, <2>2 DEF Acyclic
<1> HIDE DEF S
<1>7. S \in SUBSET Adopted /\ v \in WorksIn(g) \cap S
  BY <1>2, <1>4 DEF S
<1> QED BY <1>2, <1>6, <1>7, ReachesInFlow

\* What the callable of a branch or a jump hands over.
LEMMA ChoicesAreSound == IInv => ChoiceIsSound
<1> SUFFICES ASSUME IInv, NEW t \in Threads, Choosing(t)
             PROVE  /\ Range(op[t].choice.targets) \subseteq Range(Successors(Chooser(t)))
                    /\ IsInjective(op[t].choice.targets)
                    /\ ChoosesOne(t) => Len(op[t].choice.targets) <= 1
  BY DEF ChoiceIsSound
<1>1. InCallback(t)
  BY Phases DEF Choosing
<1>2. op[t] = [NoOp EXCEPT !.choice = op[t].choice]
  BY <1>1 DEF InCallback
<1>3. \A g : ~Empties(t, g)
  <2>1. op[t].todo = <<>>
    BY <1>2, NoOpTypes DEF NoOp
  <2> QED BY <2>1 DEF Empties
<1>4. PICK w : w = op[t].choice.work
  OBVIOUS
<1>5. PICK g \in FlowsOf[t] : w \in WorksIn(g)
  BY <1>1, <1>4 DEF InCallback, WorksOf, WorksIn
<1>6. work[w] \in WorkRecords /\ Edged(work[w])
  BY <1>3, <1>5, DyingIs, FlowsApart, FlowWorks
<1>7. Range(Successors(Chooser(t))) = Targets(Chooser(t))
  BY <1>4, <1>6, EdgeSets DEF Chooser
<1> QED BY <1>1, <1>7 DEF InCallback, Chosen

\* Every Work has exactly one owner, whatever throws and while graphs are moved
\* and cleared: none leaks, none is destroyed twice (flow.hpp, graph.hpp).
THEOREM WorksOwnedHolds == Spec => []WorksOwned
<1>1. IInv => WorksOwned
  <2> SUFFICES ASSUME IInv PROVE WorksOwned
    OBVIOUS
  <2>1. \A g \in Flows \ Dying : \A w \in Range(flow[g]) : work[w].graph = g
    BY FlowWorks DEF WorksIn
  <2> QED BY <2>1, WorksTyped, OneOwnerEach DEF WorksOwned
<1> QED BY <1>1, BuildingInvariant, PTL

\* Every block of the pool has one owner while threads build their graphs from
\* it, also when a callable throws or there is no memory.
THEOREM BlocksOwned == Spec => []OneOwner
<1>1. IInv => OneOwner
  BY DEF IInv, PoolIInv, OneOwner
<1> QED BY <1>1, BuildingInvariant, PTL

\* The search for a path without jumps finds one exactly if there is one
\* (work.hpp:1295-1330).
THEOREM SearchIsExactHolds == Spec => []SearchIsExact
BY SearchAnswers, BuildingInvariant, PTL

\* However edges come and go, a cycle passes through a Work that is or was a
\* jump.
THEOREM NoStrictCycleHolds == Spec => []NoStrictCycle
BY CyclesJump, BuildingInvariant, PTL

\* The requests of a Work are in the order of the semaphores, each once
\* (work.hpp:213 locks them in that order).
THEOREM RequestsOrderedHolds == Spec => []RequestsOrdered
<1>1. IInv => RequestsOrdered
  BY DEF IInv, BlockOK, BuildingTyped, PoolIInv, PoolTyped, RequestsOrdered, Ordered, Distinct
<1> QED BY <1>1, BuildingInvariant, PTL

\* A callable hands over successors only, each once, and one at most where only
\* one is scheduled (branch.hpp:311).
THEOREM ChoiceIsSoundHolds == Spec => []ChoiceIsSound
BY ChoicesAreSound, BuildingInvariant, PTL

-----------------------------------------------------------------------------
(* The edits are those of a digraph.                                       *)

\* The edges of all flows that nobody empties.
AllEdges == Edges(work, Adopted)

\* Both ends of the edges, as GraphBuilding shows them to Digraph.
OutEdges == UNION {{u} \X Range(Successors(work[u])) : u \in Adopted}
InEdges == UNION {Range(Predecessors(work[v])) \X {v} : v \in Adopted}

\* The flows that nobody empties form one digraph.
LEMMA AllDrawn ==
  ASSUME IInv
  PROVE  Adopted \in SUBSET Blocks /\ Drawn(work, Adopted, AllEdges)
<1>1. \A b : b \in Adopted <=> \E g \in Flows \ Dying : b \in WorksIn(g)
  BY DEF Adopted, WorksIn
<1>2. Adopted \in SUBSET Blocks
  BY <1>1, FlowWorks
<1>3. work \in [Blocks -> WorkRecords]
  BY IInvParts DEF BuildingTyped
<1>4. ASSUME NEW b \in Adopted
      PROVE  /\ Edged(work[b])
             /\ \A v : v \in Targets(work[b]) <=> v \in Adopted /\ <<b, v>> \in AllEdges
             /\ \A u : u \in Origins(work[b]) <=> u \in Adopted /\ <<u, b>> \in AllEdges
  <2>1. PICK g \in Flows \ Dying : b \in WorksIn(g)
    BY <1>1
  <2>2. PICK W, E : W = WorksIn(g) /\ E = EdgesIn(g)
    OBVIOUS
  <2>3. Drawn(work, W, E) /\ E = Edges(work, W) /\ W \subseteq Adopted
    BY <1>1, <2>1, <2>2, FlowWorks DEF EdgesIn
  <2>4. Edged(work[b]) /\ b \in W
    BY <2>1, <2>2, <2>3 DEF Drawn
  <2>5. \A v : v \in Targets(work[b]) => v \in Adopted
    BY <2>3, <2>4 DEF Drawn
  <2>6. \A u, v : <<u, v>> \in AllEdges <=> u \in Adopted /\ v \in Adopted /\ v \in Targets(work[u])
    BY DEF AllEdges, Edges
  <2>7. \A u : u \in Origins(work[b]) => u \in W /\ b \in Targets(work[u])
    <3>1. ASSUME NEW u \in Origins(work[b])
          PROVE  u \in W /\ b \in Targets(work[u])
      <4>1. u \in W /\ <<u, b>> \in E
        BY <2>3, <2>4 DEF Drawn
      <4> QED BY <2>3, <2>4, <4>1 DEF Drawn
    <3> QED BY <3>1
  <2>8. ASSUME NEW u \in Adopted, b \in Targets(work[u])
        PROVE  u \in Origins(work[b])
    <3>1. PICK h \in Flows \ Dying : u \in WorksIn(h)
      BY <1>1
    <3>2. Drawn(work, WorksIn(h), EdgesIn(h))
      BY FlowWorks
    <3>3. b \in WorksIn(h) /\ <<u, b>> \in EdgesIn(h)
      BY <2>8, <3>1, <3>2 DEF Drawn
    <3> QED BY <3>1, <3>2, <3>3 DEF Drawn
  <2> QED BY <2>3, <2>4, <2>5, <2>6, <2>7, <2>8
<1> QED BY <1>2, <1>3, <1>4 DEF Drawn

\* Both ends of an edge agree on it.
LEMMA EndsAgree ==
  ASSUME IInv
  PROVE  OutEdges = AllEdges /\ InEdges = AllEdges
<1>1. Adopted \in SUBSET Blocks /\ Drawn(work, Adopted, AllEdges)
  BY AllDrawn
<1>2. \A e \in AllEdges : e \in Adopted \X Adopted
  BY DEF AllEdges, Edges
<1>3. ASSUME NEW b \in Adopted
      PROVE  /\ \A v : v \in Range(Successors(work[b])) <=> v \in Adopted /\ <<b, v>> \in AllEdges
             /\ \A u : u \in Range(Predecessors(work[b])) <=> u \in Adopted /\ <<u, b>> \in AllEdges
  <2>1. work[b] \in WorkRecords /\ Edged(work[b])
    BY <1>1 DEF Drawn
  <2> QED BY <1>1, <2>1, EdgeSets DEF Drawn
<1>4. ASSUME NEW e
      PROVE  e \in OutEdges <=> e \in AllEdges
  <2>1. e \in OutEdges <=> \E u \in Adopted : \E v \in Range(Successors(work[u])) : e = <<u, v>>
    BY DEF OutEdges
  <2>2. e \in AllEdges => e = <<e[1], e[2]>> /\ e[1] \in Adopted /\ e[2] \in Adopted
    BY <1>2
  <2> QED BY <1>3, <2>1, <2>2
<1>5. ASSUME NEW e
      PROVE  e \in InEdges <=> e \in AllEdges
  <2>1. e \in InEdges <=> \E v \in Adopted : \E u \in Range(Predecessors(work[v])) : e = <<u, v>>
    BY DEF InEdges
  <2>2. e \in AllEdges => e = <<e[1], e[2]>> /\ e[1] \in Adopted /\ e[2] \in Adopted
    BY <1>2
  <2> QED BY <1>3, <2>1, <2>2
<1> QED BY <1>4, <1>5

\* What a step may do to the Works X and the edges E.
GraphStep(X, E, Y, F) ==
  \/ Y = X /\ F = E
  \/ \E v \in Blocks : v \notin X /\ Y = X \cup {v} /\ F = E
  \/ \E u, v \in X : Y = X /\ (F = E \cup {<<u, v>>} \/ F = E \ {<<u, v>>})
  \/ \E v \in X : Y = X /\ (F = {e \in E : e[2] # v} \/ F = {e \in E : e[1] # v})
  \/ \E S \in SUBSET X : Y = X \ S /\ F = {e \in E : e[1] \notin S /\ e[2] \notin S}

\* What a step does is among that.
Moves == GraphStep(Adopted, AllEdges, Adopted', AllEdges')

\* That is what Digraph allows.
LEMMA MovesAllowed ==
  ASSUME IInv, OutEdges' = AllEdges', InEdges' = AllEdges', Moves
  PROVE  [D!DigraphNext]_<<Adopted, OutEdges, InEdges>>
<1>1. PICK X, E, Y, F : X = Adopted /\ E = AllEdges /\ Y = Adopted' /\ F = AllEdges'
  OBVIOUS
<1>2. OutEdges = E /\ InEdges = E /\ OutEdges' = F /\ InEdges' = F
  BY <1>1, EndsAgree
<1>3. X \in SUBSET Blocks /\ \A e \in E : e \in Blocks \X Blocks
  BY <1>1, AllDrawn DEF AllEdges, Edges
<1>4. CASE Y = X /\ F = E
  BY <1>1, <1>2, <1>4
<1>5. ASSUME NEW v \in Blocks, v \notin X, Y = X \cup {v}, F = E
      PROVE  D!AddNode(v)
  BY <1>1, <1>2, <1>5 DEF D!AddNode, OutEdges, InEdges
<1>6. ASSUME NEW u \in X, NEW v \in X, Y = X, F = E \cup {<<u, v>>}
      PROVE  D!AddEdge(u, v)
  BY <1>1, <1>2, <1>6 DEF D!AddEdge, OutEdges, InEdges
<1>7. ASSUME NEW B, Y = X, F = E \ B
      PROVE  D!DropEdges(B)
  BY <1>1, <1>2, <1>7 DEF D!DropEdges, OutEdges, InEdges
<1>8. ASSUME NEW S \in SUBSET X, Y = X \ S, F = {e \in E : e[1] \notin S /\ e[2] \notin S}
      PROVE  D!DropNodes(S)
  <2>1. E \ D!Touching(S) = F
    BY <1>3, <1>8 DEF D!Touching
  <2> QED BY <1>1, <1>2, <1>8, <2>1 DEF D!DropNodes, OutEdges, InEdges
<1>9. ASSUME NEW v \in X, Y = X,
             F = {e \in E : e[2] # v} \/ F = {e \in E : e[1] # v}
      PROVE  D!DropEdges(Blocks \X {v}) \/ D!DropEdges({v} \X Blocks)
  <2>1. E \ (Blocks \X {v}) = {e \in E : e[2] # v}
    BY <1>3
  <2>2. E \ ({v} \X Blocks) = {e \in E : e[1] # v}
    BY <1>3
  <2> QED BY <1>7, <1>9, <2>1, <2>2
<1> QED BY <1>1, <1>4, <1>5, <1>6, <1>7, <1>8, <1>9 DEF Moves, GraphStep, D!DigraphNext

\* Whether flows are being emptied depends on what threads have still to do.
LEMMA DyingStays ==
  ASSUME NEW t \in Threads, \A u \in Threads \ {t} : op'[u] = op[u],
         \A h : Empties(t, h)' <=> Empties(t, h)
  PROVE  Dying' = Dying
<1>1. \A h : h \in Dying <=> h \in Flows /\ \E u \in Threads : Empties(u, h)
  BY DEF Dying, Empties
<1>2. \A h : h \in Dying' <=> h \in Flows /\ \E u \in Threads : Empties(u, h)'
  BY DEF Dying, Empties
<1>3. \A u \in Threads : \A h : Empties(u, h)' <=> Empties(u, h)
  BY DEF Empties
<1> QED BY <1>1, <1>2, <1>3

\* A step that redraws the edges.
LEMMA RedrawMoves ==
  ASSUME Dying' = Dying, flow' = flow, NEW F \in SUBSET (Adopted \X Adopted),
         Drawn(work', Adopted, F)
  PROVE  Adopted' = Adopted /\ AllEdges' = F
<1>1. Adopted' = Adopted
  BY DEF Adopted
<1> QED BY <1>1, EdgesDrawn DEF AllEdges

\* A step that leaves the graphs as they are.
LEMMA NothingMoves ==
  ASSUME Dying' = Dying, flow' = flow,
         \A b \in Adopted : Targets(work'[b]) = Targets(work[b])
  PROVE  Moves
<1>1. PICK X : X = Adopted
  OBVIOUS
<1>2. Adopted' = X
  BY <1>1 DEF Adopted
<1>3. \A e \in X \X X : Targets(work'[e[1]]) = Targets(work[e[1]])
  BY <1>1
<1>4. Edges(work', X) = Edges(work, X)
  BY <1>3 DEF Edges
<1>5. AllEdges' = AllEdges
  BY <1>1, <1>2, <1>4 DEF AllEdges
<1> QED BY <1>1, <1>2, <1>5 DEF Moves, GraphStep

\* A part that does not empty a graph is done, and the others follow.
LEMMA DoneDooms ==
  ASSUME BuildingTyped, NEW t \in Threads, op[t].todo # <<>>, Head(op[t].todo).do # "empty",
         PartDone(t)
  PROVE  Dying' = Dying
<1>1. PICK s, r, n : s = op[t].todo /\ r = op'[t].todo /\ n = Len(s)
  OBVIOUS
<1>2. n \in Nat /\ DOMAIN s = 1 .. n /\ Head(s) = s[1] /\ 1 \in 1 .. n
  BY <1>1, OpTypes
<1>3. /\ \A u \in Threads \ {t} : op'[u] = op[u]
      /\ DOMAIN r = 1 .. n - 1
      /\ \A i \in 1 .. n - 1 : r[i] = s[i + 1]
  BY <1>1, PartIsDone
<1>4. \A i \in 1 .. n - 1 : i + 1 \in 1 .. n
  BY <1>2
<1>5. \A i \in 1 .. n : i = 1 \/ (i - 1 \in 1 .. n - 1 /\ (i - 1) + 1 = i)
  BY <1>2
<1>6. s[1].do # "empty"
  BY <1>1, <1>2
<1>7. ASSUME NEW h
      PROVE  Empties(t, h)' <=> Empties(t, h)
  <2>1. (\E i \in 1 .. n - 1 : r[i].do = "empty" /\ r[i].flow = h) =>
          \E i \in 1 .. n : s[i].do = "empty" /\ s[i].flow = h
    BY <1>3, <1>4
  <2>2. ASSUME NEW i \in 1 .. n, s[i].do = "empty", s[i].flow = h
        PROVE  \E j \in 1 .. n - 1 : r[j].do = "empty" /\ r[j].flow = h
    <3>1. i - 1 \in 1 .. n - 1 /\ (i - 1) + 1 = i
      BY <1>5, <1>6, <2>2
    <3>2. r[i - 1] = s[i]
      BY <1>3, <3>1
    <3> QED BY <2>2, <3>1, <3>2
  <2> QED BY <1>1, <1>2, <1>3, <2>1, <2>2 DEF Empties
<1> QED BY <1>3, <1>7, DyingStays

\* The call of a thread that empties no graph is over, or becomes another that
\* empties none.
LEMMA PlainDooms ==
  ASSUME BuildingTyped, NEW t \in Threads, \A h : ~Empties(t, h), NEW o,
         op' = [op EXCEPT ![t] = o],
         (\A i \in DOMAIN o.todo : o.todo[i].do # "empty") \/ o.todo = op[t].todo
  PROVE  Dying' = Dying
<1>1. op'[t] = o /\ \A u \in Threads \ {t} : op'[u] = op[u]
  BY DEF BuildingTyped
<1>2. \A h : ~Empties(t, h)'
  BY <1>1 DEF Empties
<1> QED BY <1>1, <1>2, DyingStays

\* A step that only changes what t is at.
LEMMA OpMoves ==
  ASSUME BuildingTyped, NEW t \in Threads, \A h : ~Empties(t, h), NEW o,
         op' = [op EXCEPT ![t] = o],
         (\A i \in DOMAIN o.todo : o.todo[i].do # "empty") \/ o.todo = op[t].todo,
         flow' = flow, work' = work
  PROVE  Moves
BY PlainDooms, NothingMoves

\* The end of such a call,
LEMMA UnwindMoves ==
  ASSUME BuildingTyped, NEW t \in Threads, \A h : ~Empties(t, h), Unwind(t),
         flow' = flow, \A b \in Adopted : Targets(work'[b]) = Targets(work[b])
  PROVE  Moves
<1>1. op' = [op EXCEPT ![t] = NoOp] /\ \A i \in DOMAIN NoOp.todo : FALSE
  BY NoOpTypes DEF Unwind
<1>2. Dying' = Dying
  BY <1>1, PlainDooms
<1> QED BY <1>2, NothingMoves

\* and an edit that leaves the calls alone.
LEMMA EditMoves ==
  ASSUME op' = op, flow' = flow, \A b \in Adopted : Targets(work'[b]) = Targets(work[b])
  PROVE  Moves
<1>1. Dying' = Dying
  BY DEF Dying
<1> QED BY <1>1, NothingMoves

\* Steps that make Works.
LEMMA MakingMoves ==
  ASSUME IInv, NEW t \in Threads,
         \/ Emplace(t) \/ EmplaceObject(t) \/ MakeWork(t) \/ ConstructWork(t)
         \/ CopyThrows(t) \/ CreateThrows(t)
  PROVE  Moves
<1>0. BuildingTyped
  BY IInvParts
<1>1. CASE Emplace(t) \/ EmplaceObject(t)
  <2>1. Calls(t, "emplace")
    BY <1>1 DEF Emplace, EmplaceObject
  <2>2. \A h : ~Empties(t, h)
    BY <2>1, CallBegins
  <2>3. ASSUME NEW g, NEW kinds,
               Does(t, [i \in DOMAIN kinds |-> [do |-> "make", flow |-> g, kind |-> kinds[i]]])
        PROVE  Moves
    <3> DEFINE s == [i \in DOMAIN kinds |-> [do |-> "make", flow |-> g, kind |-> kinds[i]]]
               o == [op[t] EXCEPT !.todo = s]
    <3>1. op' = [op EXCEPT ![t] = o] /\ flow' = flow /\ work' = work
      BY <2>3 DEF Does
    <3>2. \A i \in DOMAIN s : s[i].do # "empty"
      OBVIOUS
    <3> HIDE DEF s
    <3>3. o.todo = s
      BY <1>0, OpTypes DEF OpRecords
    <3> HIDE DEF o
    <3> QED BY <1>0, <2>2, <3>1, <3>2, <3>3, OpMoves
  <2>4. ASSUME NEW g, NEW kinds,
               Does(t, <<[do |-> "make", flow |-> g, kind |-> Head(kinds)]>>)
        PROVE  Moves
    <3> DEFINE p == [do |-> "make", flow |-> g, kind |-> Head(kinds)]
               s == <<p>>
               o == [op[t] EXCEPT !.todo = s]
    <3>1. op' = [op EXCEPT ![t] = o] /\ flow' = flow /\ work' = work
      BY <2>4 DEF Does
    <3>2. p.do = "make"
      OBVIOUS
    <3> HIDE DEF p
    <3>3. \A i \in DOMAIN s : s[i].do # "empty"
      BY <3>2
    <3> HIDE DEF s
    <3>4. o.todo = s
      BY <1>0, OpTypes DEF OpRecords
    <3> HIDE DEF o
    <3> QED BY <1>0, <2>2, <3>1, <3>3, <3>4, OpMoves
  <2> QED BY <1>1, <2>3, <2>4 DEF Emplace, EmplaceObject
<1>2. CASE MakeWork(t)
  BY <1>2, EditMoves DEF MakeWork, graphVars
<1>3. ASSUME Creating(call[t])
      PROVE  \A h : ~Empties(t, h)
  <2>1. Making(t)
    BY <1>3, IInvParts, Phases DEF ThreadOK
  <2> QED BY <2>1 DEF Making, Empties
<1>4. CASE ConstructWork(t)
  <2>1. PICK b : b = call[t].block
    OBVIOUS
  <2>2. /\ call[t].pc = "got" /\ flow' = flow
        /\ work' = [work EXCEPT ![b] = Created(Head(op[t].todo).flow, Head(op[t].todo).kind)]
        /\ op' = [op EXCEPT ![t].made = b]
    BY <1>4, <2>1 DEF ConstructWork, Construct
  <2>3. \A h : ~Empties(t, h)
    BY <1>3, <2>2 DEF Creating
  <2>4. b \notin live
    <3>1. /\ call \in [Threads -> CallRecords] /\ Fits(call[t]) /\ Held(t) \cap live = {}
      BY IInvParts DEF PoolIInv, PoolTyped, Partitioned
    <3>2. b # None
      BY <2>1, <2>2, <3>1 DEF Fits
    <3>3. b \in Held(t)
      BY <2>1, <3>2 DEF Held
    <3> QED BY <3>1, <3>3
  <2>5. b \notin Adopted /\ Adopted \in SUBSET Blocks
    <3>1. Adopted \in SUBSET Blocks
      BY AllDrawn
    <3>2. ASSUME b \in Adopted
          PROVE  FALSE
      <4>1. PICK g \in Flows \ Dying : b \in WorksIn(g)
        BY <3>2 DEF Adopted, WorksIn
      <4> QED BY <2>4, <4>1, FlowWorks
    <3> QED BY <3>1, <3>2
  <2>6. \A c \in Adopted : Targets(work'[c]) = Targets(work[c])
    <3>1. \A c \in Adopted : work'[c] = work[c]
      BY <1>0, <2>2, <2>5 DEF BuildingTyped
    <3> QED BY <3>1
  <2>7. Dying' = Dying
    <3> DEFINE o == [op[t] EXCEPT !.made = b]
    <3>1. op' = [op EXCEPT ![t] = o]
      BY <2>2
    <3>2. o.todo = op[t].todo
      BY <1>0, OpTypes DEF OpRecords
    <3> HIDE DEF o
    <3> QED BY <1>0, <2>3, <3>1, <3>2, PlainDooms
  <2> QED BY <2>2, <2>6, <2>7, NothingMoves
<1>5. CASE CopyThrows(t) \/ CreateThrows(t)
  <2>1. call[t].pc \in {"got", "slab"} /\ Unwind(t) /\ flow' = flow /\ work' = work
    BY <1>5 DEF CopyThrows, CreateThrows, ConstructThrows, NoMemory
  <2>2. CASE call[t].pc = "got"
    BY <1>0, <1>3, <2>1, <2>2, UnwindMoves DEF Creating
  <2>3. CASE call[t].pc = "slab"
    <3>1. Creating(call[t])
      BY <2>3 DEF Creating, Popping
    <3> QED BY <1>0, <1>3, <2>1, <3>1, UnwindMoves
  <2> QED BY <2>1, <2>2, <2>3
<1> QED BY <1>1, <1>2, <1>4, <1>5

\* A flow takes the Work, or it goes again.
LEMMA AdoptMoves ==
  ASSUME IInv, NEW t \in Threads, Adopt(t) \/ AdoptThrows(t)
  PROVE  Moves
<1>1. PICK m, g : m = op[t].made /\ g = Head(op[t].todo).flow
  OBVIOUS
<1>2. /\ op[t].todo # <<>> /\ g \in Flows \ Dying /\ m \in Blocks /\ work[m].graph = g
      /\ m \notin WorksIn(g) /\ Targets(work[m]) = {} /\ \A h : ~Empties(t, h)
      /\ Head(op[t].todo).do = "make"
  <2>1. Part(t, "make") /\ op[t].made # None
    BY DEF Adopt, AdoptThrows
  <2>2. Unbound(t, op[t].made, Head(op[t].todo).flow)
    BY <2>1, MadeWork
  <2> QED BY <1>1, <2>1, <2>2 DEF Unbound, Part
<1>3. PICK X : X = Adopted
  OBVIOUS
<1>4. X \in SUBSET Blocks /\ \A b : b \in X <=> \E h \in Flows \ Dying : b \in WorksIn(h)
  BY <1>3, AllDrawn DEF Adopted, WorksIn
<1>5. m \notin X
  BY <1>2, <1>4, FlowWorks
<1>6. CASE Adopt(t)
  <2>1. /\ flow' = [flow EXCEPT ![g] = Append(@, m)] /\ PartDone(t) /\ work' = work
    BY <1>1, <1>6 DEF Adopt
  <2>2. Dying' = Dying
    BY <1>2, <2>1, IInvParts, DoneDooms
  <2>3. /\ Range(flow'[g]) = Range(flow[g]) \cup {m}
        /\ \A h \in Flows : h # g => flow'[h] = flow[h]
    <3>1. flow[g] \in Seq(Blocks) /\ flow \in [Flows -> Seq(Blocks)]
      BY <1>2, IInvParts DEF BuildingTyped
    <3>2. Range(Append(flow[g], m)) = Range(flow[g]) \cup {m}
      BY <1>2, <3>1, RangeOfAppend
    <3> QED BY <1>2, <2>1, <3>1, <3>2
  <2>4. Adopted' = X \cup {m}
    <3>1. \A b : b \in Adopted' <=> \E h \in Flows \ Dying : b \in Range(flow'[h])
      BY <2>2 DEF Adopted
    <3>2. \A h \in Flows \ Dying : \A b : b \in Range(flow'[h]) <=> b \in WorksIn(h) \/ (h = g /\ b = m)
      BY <2>3 DEF WorksIn
    <3>3. \A b : b \in Adopted' <=> b \in X \/ b = m
      BY <1>2, <1>4, <3>1, <3>2
    <3> QED BY <3>3
  <2>5. AllEdges' = AllEdges
    <3>1. AllEdges' = Edges(work, X \cup {m})
      BY <2>1, <2>4 DEF AllEdges
    <3>2. \A b \in X : \A v : v \in Targets(work[b]) => v \in X
      BY <1>3, AllDrawn DEF Drawn
    <3>3. \A e \in (X \cup {m}) \X (X \cup {m}) : e[2] \in Targets(work[e[1]]) => e \in X \X X
      <4>1. ASSUME NEW a \in X \cup {m}, NEW b \in X \cup {m}, b \in Targets(work[a])
            PROVE  a \in X /\ b \in X
        BY <1>2, <3>2, <4>1
      <4> QED BY <4>1
    <3>4. \A e \in X \X X : e \in (X \cup {m}) \X (X \cup {m})
      OBVIOUS
    <3>5. Edges(work, X \cup {m}) = Edges(work, X)
      BY <3>3, <3>4 DEF Edges
    <3> QED BY <1>3, <3>1, <3>5 DEF AllEdges
  <2> QED BY <1>2, <1>3, <1>5, <2>4, <2>5 DEF Moves, GraphStep
<1>7. CASE AdoptThrows(t)
  <2>1. work' = [work EXCEPT ![m] = NoWork] /\ Unwind(t) /\ flow' = flow
    BY <1>1, <1>7 DEF AdoptThrows
  <2>2. \A b \in Adopted : work'[b] = work[b]
    BY <1>3, <1>4, <1>5, <2>1, IInvParts DEF BuildingTyped
  <2>3. \A b \in Adopted : Targets(work'[b]) = Targets(work[b])
    BY <2>2
  <2> QED BY <1>2, <2>1, <2>3, IInvParts, UnwindMoves
<1> QED BY <1>6, <1>7

\* The Works of a thread that empties no flow are in the digraph.
LEMMA OwnAdopted ==
  ASSUME IInv, NEW t \in Threads, \A g : ~Empties(t, g), NEW w \in WorksOf(t)
  PROVE  w \in Adopted
<1>1. work[w].graph \in Flows \ Dying /\ w \in WorksIn(work[w].graph)
  BY WorkOfThread
<1> QED BY <1>1 DEF Adopted, WorksIn

\* The digraph, before a step and after one that redraws its edges.
LEMMA RedrawnMoves ==
  ASSUME IInv, Dying' = Dying, flow' = flow, NEW X, NEW E, X = Adopted, E = AllEdges
  PROVE  /\ X \in SUBSET Blocks /\ Drawn(work, X, E) /\ E \in SUBSET (X \X X)
         /\ \A F \in SUBSET (X \X X) :
              Redrawn(work, work', X, F) => Adopted' = X /\ AllEdges' = F
<1>1. X \in SUBSET Blocks /\ Drawn(work, X, E) /\ E \in SUBSET (X \X X)
  BY AllDrawn DEF AllEdges, Edges
<1>2. ASSUME NEW F \in SUBSET (X \X X), Redrawn(work, work', X, F)
      PROVE  Adopted' = X /\ AllEdges' = F
  <2>1. Drawn(work', X, F)
    BY <1>2 DEF Redrawn
  <2> QED BY <2>1, RedrawMoves
<1> QED BY <1>1, <1>2

\* Edges that a client removes.
LEMMA DisconnectMoves ==
  ASSUME IInv, NEW t \in Threads, Disconnect(t) \/ DropPredecessors(t) \/ DropSuccessors(t)
  PROVE  Moves
<1>1. op' = op /\ flow' = flow
  BY DEF Disconnect, DropPredecessors, DropSuccessors, Edits
<1>2. \A w \in WorksOf(t) : w \in Adopted
  <2>1. Calls(t, "disconnect")
    BY DEF Disconnect, DropPredecessors, DropSuccessors
  <2>2. \A h : ~Empties(t, h)
    BY <2>1, CallBegins
  <2> QED BY <2>2, OwnAdopted
<1>3. Dying' = Dying
  BY <1>1 DEF Dying
<1>4. PICK X, E : X = Adopted /\ E = AllEdges
  OBVIOUS
<1>5. /\ X \in SUBSET Blocks /\ Drawn(work, X, E) /\ E \in SUBSET (X \X X)
      /\ \A F \in SUBSET (X \X X) : Redrawn(work, work', X, F) => Adopted' = X /\ AllEdges' = F
  BY <1>1, <1>3, <1>4, RedrawnMoves
<1>6. CASE Disconnect(t)
  <2>1. PICK u \in WorksOf(t), v \in WorksOf(t) : work' = RemoveSuccessor(work, u, v)
    BY <1>6 DEF Disconnect, Edits
  <2>2. u \in X /\ v \in X
    BY <1>2, <1>4
  <2>3. PICK F : F = E \ {<<u, v>>}
    OBVIOUS
  <2>4. F \in SUBSET (X \X X)
    BY <1>5, <2>3
  <2>5. Redrawn(work, work', X, F)
    BY <1>5, <2>1, <2>2, <2>3, RemoveSuccessorRedraws
  <2>6. Adopted' = X /\ AllEdges' = F
    BY <1>5, <2>4, <2>5
  <2> QED BY <1>4, <2>2, <2>3, <2>6 DEF Moves, GraphStep
<1>7. CASE DropPredecessors(t)
  <2>1. PICK v \in WorksOf(t) : work' = ClearPredecessors(work, v)
    BY <1>7 DEF DropPredecessors, Edits
  <2>2. v \in X
    BY <1>2, <1>4
  <2>3. PICK F : F = {e \in E : e[2] # v}
    OBVIOUS
  <2>4. F \in SUBSET (X \X X)
    BY <1>5, <2>3
  <2>5. Redrawn(work, work', X, F)
    BY <1>5, <2>1, <2>2, <2>3, ClearPredecessorsRedraws
  <2>6. Adopted' = X /\ AllEdges' = F
    BY <1>5, <2>4, <2>5
  <2> QED BY <1>4, <2>2, <2>3, <2>6 DEF Moves, GraphStep
<1>8. CASE DropSuccessors(t)
  <2>1. PICK u \in WorksOf(t) : work' = ClearSuccessors(work, u)
    BY <1>8 DEF DropSuccessors, Edits
  <2>2. u \in X
    BY <1>2, <1>4
  <2>3. PICK F : F = {e \in E : e[1] # u}
    OBVIOUS
  <2>4. F \in SUBSET (X \X X)
    BY <1>5, <2>3
  <2>5. Redrawn(work, work', X, F)
    BY <1>5, <2>1, <2>2, <2>3, ClearSuccessorsRedraws
  <2>6. Adopted' = X /\ AllEdges' = F
    BY <1>5, <2>4, <2>5
  <2> QED BY <1>4, <2>2, <2>3, <2>6 DEF Moves, GraphStep
<1> QED BY <1>6, <1>7, <1>8

\* The edge that a client adds, or fails to add.
LEMMA ConnectMoves ==
  ASSUME IInv, NEW t \in Threads, Connect(t) \/ ConnectThrows(t)
  PROVE  Moves
<1>0. PICK u, v : u = Head(op[t].todo).from /\ v = Head(op[t].todo).to
  OBVIOUS
<1>1. /\ Part(t, "connect") /\ op[t].search.pc \in {"fine", "noPath"} /\ flow' = flow
      /\ \/ work' = Connected(work, u, v) /\ PartDone(t)
         \/ work' \in Unconnected(work, u, v) /\ Unwind(t)
  BY <1>0 DEF Connect, ConnectThrows
<1>2. PICK g : g = work[u].graph
  OBVIOUS
<1>3. /\ g \in FlowsOf[t] \ Dying /\ u \in WorksIn(g) /\ v \in WorksIn(g)
      /\ <<u, v>> \notin EdgesIn(g)
  BY <1>0, <1>1, <1>2, EdgeMakesNoCycle
<1>4. BuildingTyped /\ op[t].todo # <<>> /\ Head(op[t].todo).do = "connect"
      /\ \A h : ~Empties(t, h)
  BY <1>0, <1>1, IInvParts, DueEdge DEF Part
<1>5. Dying' = Dying
  <2>1. CASE PartDone(t)
    BY <1>4, <2>1, DoneDooms
  <2>2. CASE Unwind(t)
    <3>1. op' = [op EXCEPT ![t] = NoOp] /\ \A i \in DOMAIN NoOp.todo : FALSE
      BY <2>2, NoOpTypes DEF Unwind
    <3> QED BY <1>4, <3>1, PlainDooms
  <2> QED BY <1>1, <2>1, <2>2
<1>6. PICK X, E : X = Adopted /\ E = AllEdges
  OBVIOUS
<1>7. /\ X \in SUBSET Blocks /\ Drawn(work, X, E) /\ E \in SUBSET (X \X X)
      /\ \A F \in SUBSET (X \X X) : Redrawn(work, work', X, F) => Adopted' = X /\ AllEdges' = F
  BY <1>1, <1>5, <1>6, RedrawnMoves
<1>8. u \in X /\ v \in X
  <2>1. g \in Flows \ Dying
    BY <1>3, FlowsApart
  <2> QED BY <1>3, <1>6, <2>1 DEF Adopted, WorksIn
<1>9. <<u, v>> \notin E
  <2>1. <<u, v>> \in E => v \in Targets(work[u])
    BY <1>6 DEF AllEdges, Edges
  <2>2. v \in Targets(work[u]) => <<u, v>> \in EdgesIn(g)
    BY <1>3 DEF EdgesIn, Edges
  <2> QED BY <1>3, <2>1, <2>2
<1>10. CASE work' = Connected(work, u, v)
  <2>1. PICK F : F = E \cup {<<u, v>>}
    OBVIOUS
  <2>2. F \in SUBSET (X \X X)
    BY <1>7, <1>8, <2>1
  <2>3. Redrawn(work, work', X, F)
    BY <1>7, <1>8, <1>9, <1>10, <2>1, ConnectedRedraws
  <2>4. Adopted' = X /\ AllEdges' = F
    BY <1>7, <2>2, <2>3
  <2> QED BY <1>6, <1>8, <2>1, <2>4 DEF Moves, GraphStep
<1>11. CASE work' \in Unconnected(work, u, v)
  <2>1. Redrawn(work, work', X, E)
    BY <1>7, <1>8, <1>9, <1>11, UnconnectedRedraws
  <2>2. Adopted' = X /\ AllEdges' = E
    BY <1>7, <2>1
  <2> QED BY <1>6, <2>2 DEF Moves, GraphStep
<1> QED BY <1>1, <1>10, <1>11

\* What leads up to that: the calls, and the search for a cycle.
LEMMA SearchMoves ==
  ASSUME IInv, NEW t \in Threads,
         Precede(t) \/ Succeed(t) \/ Linearize(t) \/ Check(t) \/ Search(t) \/ RefuseCycle(t)
  PROVE  Moves
<1>0. BuildingTyped
  BY IInvParts
<1>1. CASE Precede(t) \/ Succeed(t) \/ Linearize(t)
  <2>1. Calls(t, "connect")
    BY <1>1 DEF Precede, Succeed, Linearize
  <2>2. \A h : ~Empties(t, h)
    BY <2>1, CallBegins
  <2>3. PICK pairs : Does(t, EdgesOf(pairs))
    BY <1>1 DEF Precede, Succeed, Linearize
  <2> DEFINE s == EdgesOf(pairs)
             o == [op[t] EXCEPT !.todo = s]
  <2>4. op' = [op EXCEPT ![t] = o] /\ flow' = flow /\ work' = work
    BY <2>3 DEF Does
  <2>5. \A i \in DOMAIN s : s[i].do # "empty"
    BY DEF EdgesOf
  <2> HIDE DEF s
  <2>6. o.todo = s
    BY <1>0, OpTypes DEF OpRecords
  <2> HIDE DEF o
  <2> QED BY <1>0, <2>2, <2>4, <2>5, <2>6, OpMoves
<1>2. ASSUME Part(t, "connect")
      PROVE  \A h : ~Empties(t, h)
  BY <1>2, DueEdge
<1>3. CASE RefuseCycle(t)
  <2>1. Part(t, "connect") /\ Unwind(t) /\ flow' = flow /\ work' = work
    BY <1>3 DEF RefuseCycle
  <2> QED BY <1>0, <1>2, <2>1, UnwindMoves
<1>4. CASE Check(t) \/ Search(t)
  <2>1. /\ Part(t, "connect") /\ flow' = flow /\ work' = work
        /\ Unwind(t) \/ \E s : op' = [op EXCEPT ![t].search = s]
    <3>1. CASE Check(t)
      <4> DEFINE verdict == MayPrecede(work, Head(op[t].todo).from, Head(op[t].todo).to)
      <4>1. Part(t, "connect") /\ flow' = flow /\ work' = work
        BY <3>1 DEF Check
      <4>2. CASE verdict = "refused"
        <5>1. Unwind(t)
          BY <3>1, <4>2 DEF Check
        <5> QED BY <4>1, <5>1
      <4>3. CASE verdict # "refused"
        <5>1. PICK r : /\ r = IF verdict = "fine" THEN [op[t].search EXCEPT !.pc = "fine"]
                             ELSE [pc |-> "search", stack |-> <<Head(op[t].todo).to>>,
                                   visited |-> {Head(op[t].todo).to}]
          OBVIOUS
        <5>2. op' = [op EXCEPT ![t].search = r]
          BY <3>1, <4>3, <5>1 DEF Check
        <5> QED BY <4>1, <5>2
      <4> QED BY <4>2, <4>3
    <3>2. CASE Search(t)
      <4>1. Part(t, "connect") /\ flow' = flow /\ work' = work
        BY <3>2 DEF Search
      <4>2. \E s : op' = [op EXCEPT ![t].search = s]
        BY <3>2 DEF Search
      <4> QED BY <4>1, <4>2
    <3> QED BY <1>4, <3>1, <3>2
  <2>2. CASE Unwind(t)
    BY <1>0, <1>2, <2>1, <2>2, UnwindMoves
  <2>3. ASSUME NEW s, op' = [op EXCEPT ![t].search = s]
        PROVE  Moves
    <3> DEFINE o == [op[t] EXCEPT !.search = s]
    <3>1. op' = [op EXCEPT ![t] = o]
      BY <2>3
    <3>2. o.todo = op[t].todo
      BY <1>0, OpTypes DEF OpRecords
    <3> HIDE DEF o
    <3> QED BY <1>0, <1>2, <2>1, <3>1, <3>2, OpMoves
  <2> QED BY <2>1, <2>2, <2>3
<1> QED BY <1>1, <1>3, <1>4

\* A Work that only gets another type or other requests.
LEMMA RecordMoves ==
  ASSUME IInv, op' = op, flow' = flow, NEW w \in Blocks, NEW y,
         y.edges = work[w].edges, y.nsucc = work[w].nsucc, work' = [work EXCEPT ![w] = y]
  PROVE  Moves
<1>1. work \in [Blocks -> WorkRecords] /\ Adopted \subseteq Blocks
  BY IInvParts, AllDrawn DEF BuildingTyped
<1>2. Targets(y) = Targets(work[w])
  BY DEF Targets
<1>3. \A b \in Blocks : b # w => work'[b] = work[b]
  BY <1>1
<1>4. work'[w] = y
  BY <1>1
<1>5. ASSUME NEW b \in Adopted
      PROVE  Targets(work'[b]) = Targets(work[b])
  <2>1. CASE b = w
    BY <1>2, <1>4, <2>1
  <2>2. CASE b # w
    BY <1>1, <1>3, <2>2
  <2> QED BY <2>1, <2>2
<1> QED BY <1>5, EditMoves

\* What a Work does, and what it asks for.
LEMMA WorkMoves ==
  ASSUME IInv, NEW t \in Threads,
         \/ Replace(t) \/ ReplaceObject(t) \/ ReplaceThrows(t)
         \/ AddAcquire(t) \/ AddRelease(t) \/ DropAcquire(t) \/ DropRelease(t)
         \/ DropRequests(t)
  PROVE  Moves
<1>1. CASE Replace(t) \/ ReplaceObject(t) \/ ReplaceThrows(t)
  <2>1. Calls(t, "replace")
    BY <1>1 DEF Replace, ReplaceObject, ReplaceThrows
  <2>2. PICK w \in WorksOf(t) : \E k : Becomes(w, k)
    BY <1>1 DEF Replace, ReplaceObject, ReplaceThrows
  <2>6. PICK k : Becomes(w, k)
    BY <2>2
  <2>3. w \in Blocks /\ work[w] \in WorkRecords
    BY <2>1, OneWork
  <2> DEFINE y == [work[w] EXCEPT !.type = k]
  <2>4. y.edges = work[w].edges /\ y.nsucc = work[w].nsucc
    BY <2>3 DEF WorkRecords
  <2>5. work' = [work EXCEPT ![w] = y] /\ op' = op /\ flow' = flow
    BY <2>6 DEF Becomes
  <2> HIDE DEF y
  <2> QED BY <2>3, <2>4, <2>5, RecordMoves
<1>2. CASE AddAcquire(t) \/ AddRelease(t) \/ DropAcquire(t) \/ DropRelease(t)
             \/ DropRequests(t)
  <2>1. Calls(t, "request")
    BY <1>2 DEF AddAcquire, AddRelease, DropAcquire, DropRelease, DropRequests
  <2>2. PICK w \in WorksOf(t) :
          \E a : \/ Edits([work EXCEPT ![w].acquires = a])
                \/ Edits([work EXCEPT ![w].releases = a])
    <3>1. CASE AddAcquire(t)
      BY <3>1 DEF AddAcquire
    <3>2. CASE AddRelease(t)
      BY <3>2 DEF AddRelease
    <3>3. CASE DropAcquire(t)
      BY <3>3 DEF DropAcquire
    <3>4. CASE DropRelease(t)
      BY <3>4 DEF DropRelease
    <3>5. CASE DropRequests(t)
      BY <3>5 DEF DropRequests
    <3> QED BY <1>2, <3>1, <3>2, <3>3, <3>4, <3>5
  <2>3. w \in Blocks /\ work[w] \in WorkRecords
    BY <2>1, OneWork
  <2>4. PICK a : \/ Edits([work EXCEPT ![w].acquires = a])
                 \/ Edits([work EXCEPT ![w].releases = a])
    BY <2>2
  <2>6. ASSUME NEW y, y = [work[w] EXCEPT !.acquires = a] \/ y = [work[w] EXCEPT !.releases = a],
               Edits([work EXCEPT ![w] = y])
        PROVE  Moves
    <3>2. work' = [work EXCEPT ![w] = y] /\ op' = op /\ flow' = flow
      BY <2>6 DEF Edits
    <3>1. y.edges = work[w].edges /\ y.nsucc = work[w].nsucc
      BY <2>3, <2>6 DEF WorkRecords
    <3> QED BY <2>3, <3>1, <3>2, RecordMoves
  <2>7. \/ Edits([work EXCEPT ![w] = [work[w] EXCEPT !.acquires = a]])
        \/ Edits([work EXCEPT ![w] = [work[w] EXCEPT !.releases = a]])
    BY <2>4
  <2> QED BY <2>6, <2>7
<1> QED BY <1>1, <1>2

\* The callables of branches and jumps.
LEMMA ChoiceMoves ==
  ASSUME IInv, NEW t \in Threads,
         \/ Callback(t) \/ BranchCall(t) \/ JumpCall(t) \/ MultiBranchCall(t)
         \/ MultiJumpCall(t) \/ CallbackReturns(t)
  PROVE  Moves
<1>0. BuildingTyped
  BY IInvParts
<1>1. ASSUME NEW c, op' = [op EXCEPT ![t].choice = c], flow' = flow, work' = work,
             \A h : ~Empties(t, h)
      PROVE  Moves
  <2> DEFINE o == [op[t] EXCEPT !.choice = c]
  <2>1. op' = [op EXCEPT ![t] = o]
    BY <1>1
  <2>2. o.todo = op[t].todo
    BY <1>0, OpTypes DEF OpRecords
  <2> HIDE DEF o
  <2> QED BY <1>0, <1>1, <2>1, <2>2, OpMoves
<1>2. CASE Callback(t)
  <2>1. Calls(t, "choose") /\ flow' = flow /\ work' = work
    BY <1>2 DEF Callback
  <2>2. \A h : ~Empties(t, h)
    BY <2>1, CallBegins
  <2>3. PICK c : op' = [op EXCEPT ![t].choice = c]
    BY <1>2 DEF Callback
  <2> QED BY <1>1, <2>1, <2>2, <2>3
<1>3. ASSUME Choosing(t)
      PROVE  \A h : ~Empties(t, h)
  <2>1. InCallback(t)
    BY <1>3, Phases DEF Choosing
  <2>2. op[t].todo = <<>>
    BY <2>1 DEF InCallback, NoOp
  <2> QED BY <2>2 DEF Empties
<1>4. CASE BranchCall(t) \/ JumpCall(t) \/ MultiBranchCall(t) \/ MultiJumpCall(t)
  <2>1. Choosing(t) /\ flow' = flow /\ work' = work
    BY <1>4 DEF BranchCall, JumpCall, MultiBranchCall, MultiJumpCall, Chooses
  <2>2. PICK r : op' = [op EXCEPT ![t].choice.targets = r]
    BY <1>4 DEF BranchCall, JumpCall, MultiBranchCall, MultiJumpCall, Chooses
  <2>3. op' = [op EXCEPT ![t].choice = [op[t].choice EXCEPT !.targets = r]]
    BY <2>2
  <2> QED BY <1>1, <1>3, <2>1, <2>3
<1>5. CASE CallbackReturns(t)
  <2>1. Choosing(t) /\ Unwind(t) /\ flow' = flow /\ work' = work
    BY <1>5 DEF CallbackReturns
  <2> QED BY <1>0, <1>3, <2>1, UnwindMoves
<1> QED BY <1>2, <1>4, <1>5

\* Works that leave the digraph take their edges with them.
LEMMA FewerEdges ==
  ASSUME NEW f, NEW X, NEW S \in SUBSET X, NEW Y, Y = X \ S,
         NEW F, \A e : e \in F <=> e \in Edges(f, X) /\ e[1] \notin S /\ e[2] \notin S
  PROVE  Edges(f, Y) = F
BY DEF Edges

\* A Work belongs to one flow.
LEMMA OneFlow ==
  ASSUME IInv, NEW g \in Flows \ Dying, NEW h \in Flows \ Dying,
         NEW b \in WorksIn(g), b \in WorksIn(h)
  PROVE  g = h
BY FlowWorks

\* A Work is erased.
LEMMA EraseMoves ==
  ASSUME IInv, NEW t \in Threads, Erase(t)
  PROVE  Moves
<1>0. PICK g \in FlowsOf[t] : \E w \in Range(flow[g]) :
        /\ flow' = [flow EXCEPT ![g] = RemovedFrom(@, w)]
        /\ work' = [Extracted(work, w) EXCEPT ![w] = NoWork]
  BY DEF Erase
<1>1. PICK w \in Range(flow[g]) :
        /\ flow' = [flow EXCEPT ![g] = RemovedFrom(@, w)]
        /\ work' = [Extracted(work, w) EXCEPT ![w] = NoWork]
  BY <1>0
<1>2. Calls(t, "erase") /\ op' = op
  BY DEF Erase
<1>3. g \in Flows \ Dying /\ w \in WorksIn(g)
  BY <1>1, <1>2, CallBegins DEF WorksIn
<1>4. Dying' = Dying
  BY <1>2 DEF Dying
<1>5. /\ \A b : b \in Range(flow'[g]) <=> b \in WorksIn(g) /\ b # w
      /\ \A h \in Flows : h # g => flow'[h] = flow[h]
  <2>1. g \in Flows /\ IsInjective(flow[g]) /\ BuildingTyped
    BY <1>3, IInvParts, FlowWorks
  <2>2. /\ Range(flow'[g]) = WorksIn(g) \ {w}
        /\ \A h \in Flows : h # g => flow'[h] = flow[h]
    BY <1>1, <1>3, <2>1, HoleInFlow
  <2> QED BY <2>2
<1>6. PICK X, E : X = Adopted /\ E = AllEdges
  OBVIOUS
<1>7. X \in SUBSET Blocks /\ Drawn(work, X, E) /\ E \in SUBSET (X \X X)
  BY <1>6, AllDrawn DEF AllEdges, Edges
<1>8. w \in X
  BY <1>3, <1>6 DEF Adopted, WorksIn
<1>9. Adopted' = X \ {w}
  <2>1. \A b : b \in X <=> \E h \in Flows \ Dying : b \in WorksIn(h)
    BY <1>6 DEF Adopted, WorksIn
  <2>2. \A b : b \in Adopted' <=> \E h \in Flows \ Dying : b \in Range(flow'[h])
    BY <1>4 DEF Adopted
  <2>3. \A h \in Flows \ Dying : w \in WorksIn(h) => h = g
    BY <1>3, OneFlow
  <2>4. \A h \in Flows \ Dying : \A b : b \in Range(flow'[h]) <=> b \in WorksIn(h) /\ b # w
    BY <1>5, <2>3 DEF WorksIn
  <2>5. \A b : b \in Adopted' <=> b \in X /\ b # w
    BY <2>1, <2>2, <2>4
  <2> QED BY <2>5
<1>10. PICK f, F : f = Extracted(work, w) /\ F = {e \in E : e[1] # w /\ e[2] # w}
  OBVIOUS
<1>11. Redrawn(work, f, X, F)
  BY <1>7, <1>8, <1>10, ExtractedRedraws
<1>12. Drawn(f, X, F) /\ f \in [Blocks -> WorkRecords]
  BY <1>11 DEF Redrawn, Drawn
<1>13. F \in SUBSET (X \X X)
  BY <1>7, <1>10
<1>14. Edges(f, X) = F
  BY <1>12, <1>13, EdgesDrawn
<1>15. AllEdges' = F
  <2> DEFINE Y == X \ {w}
  <2>1. \A b \in Y : work'[b] = f[b]
    BY <1>1, <1>7, <1>10, <1>12
  <2>2. PICK S : S = {w}
    OBVIOUS
  <2>6. S \in SUBSET X /\ Y = X \ S
        /\ \A e : e \in F <=> e \in Edges(f, X) /\ e[1] \notin S /\ e[2] \notin S
    BY <1>8, <1>10, <1>14, <2>2
  <2>3. Edges(f, Y) = F
    BY <2>6, FewerEdges
  <2>4. AllEdges' = Edges(work', Y)
    BY <1>9 DEF AllEdges
  <2> HIDE DEF Y
  <2>5. Edges(work', Y) = Edges(f, Y)
    BY <2>1, EdgesAgree
  <2> QED BY <2>3, <2>4, <2>5
<1>16. PICK S : S = {w}
  OBVIOUS
<1>17. S \in SUBSET X /\ Adopted' = X \ S
       /\ AllEdges' = {e \in E : e[1] \notin S /\ e[2] \notin S}
  BY <1>8, <1>9, <1>10, <1>15, <1>16
<1> QED BY <1>6, <1>17 DEF Moves, GraphStep

\* A graph is torn down: from the digraph its Works go at once.
LEMMA TearDownMoves ==
  ASSUME IInv, NEW t \in Threads, Clear(t) \/ Move(t)
  PROVE  Moves
<1>1. PICK g \in FlowsOf[t], s \in Seq(Parts) :
        /\ Calls(t, "clear") \/ Calls(t, "move")
        /\ Does(t, s) /\ TearsDown(t, s, g, flow[g])
  BY TearDownIs
<1>2. op[t] = NoOp /\ g \in Flows \ Dying /\ \A h : ~Empties(t, h)
  BY <1>1, CallBegins
<1>3. \A h : Empties(t, h)' <=> h = g
  BY <1>1, <1>2, EmptyingIs
<1>4. flow' = flow /\ work' = work /\ \A u \in Threads \ {t} : op'[u] = op[u]
  BY <1>1, IInvParts DEF Does, BuildingTyped
<1>5. Dying' = Dying \cup {g}
  <2>1. \A h : h \in Dying <=> h \in Flows /\ \E u \in Threads : Empties(u, h)
    BY DEF Dying, Empties
  <2>2. \A h : h \in Dying' <=> h \in Flows /\ \E u \in Threads : Empties(u, h)'
    BY DEF Dying, Empties
  <2>3. \A u \in Threads \ {t} : \A h : Empties(u, h)' <=> Empties(u, h)
    BY <1>4 DEF Empties
  <2>4. \A h : h \in Dying' <=> h \in Dying \/ h = g
    BY <1>2, <1>3, <2>1, <2>2, <2>3
  <2> QED BY <2>4
<1>6. PICK X, E, S : X = Adopted /\ E = AllEdges /\ S = WorksIn(g)
  OBVIOUS
<1>7. S \in SUBSET X
  BY <1>2, <1>6 DEF Adopted, WorksIn
<1>8. Adopted' = X \ S
  <2>1. \A b : b \in X <=> \E h \in Flows \ Dying : b \in WorksIn(h)
    BY <1>6 DEF Adopted, WorksIn
  <2>2. \A b : b \in Adopted' <=> \E h \in (Flows \ Dying) \ {g} : b \in WorksIn(h)
    BY <1>4, <1>5 DEF Adopted, WorksIn
  <2>3. \A h \in Flows \ Dying : \A b : b \in WorksIn(h) /\ b \in S => h = g
    BY <1>2, <1>6, OneFlow
  <2>4. \A b : b \in Adopted' <=> b \in X /\ b \notin S
    BY <1>2, <1>6, <2>1, <2>2, <2>3
  <2> QED BY <2>4
<1>9. AllEdges' = {e \in E : e[1] \notin S /\ e[2] \notin S}
  <2>1. PICK Y, F : Y = X \ S /\ F = {e \in E : e[1] \notin S /\ e[2] \notin S}
    OBVIOUS
  <2>2. AllEdges' = Edges(work, Y) /\ E = Edges(work, X)
    BY <1>4, <1>6, <1>8, <2>1 DEF AllEdges
  <2>4. \A e : e \in F <=> e \in Edges(work, X) /\ e[1] \notin S /\ e[2] \notin S
    BY <2>1, <2>2
  <2>3. Edges(work, Y) = F
    BY <1>7, <2>1, <2>4, FewerEdges
  <2> QED BY <2>1, <2>2, <2>3
<1> QED BY <1>6, <1>7, <1>8, <1>9 DEF Moves, GraphStep

\* The Works of a graph that is torn down are in the digraph no more,
LEMMA DestroyMoves ==
  ASSUME IInv, NEW t \in Threads, DestroyWork(t)
  PROVE  Moves
<1>0. PICK w : w = Head(op[t].todo).work
  OBVIOUS
<1>1. /\ Part(t, "destroy") /\ work' = [work EXCEPT ![w] = NoWork] /\ PartDone(t)
      /\ flow' = flow
  BY <1>0 DEF DestroyWork
<1>2. /\ op[t].todo # <<>> /\ Head(op[t].todo).do = "destroy"
      /\ Head(op[t].todo) = op[t].todo[1] /\ 1 \in DOMAIN op[t].todo
  BY <1>1, PartIsDue
<1>3. Dooms(t, w)
  BY <1>0, <1>2 DEF Dooms
<1>4. w \in Blocks /\ work[w].graph \in FlowsOf[t] /\ Empties(t, work[w].graph)
  BY <1>3, IInvParts, OwnParts
<1>5. work[w].graph \in Dying
  BY <1>4, DyingIs
<1>6. Adopted \subseteq Blocks /\ w \notin Adopted
  <2>1. ASSUME w \in Adopted
        PROVE  FALSE
    <3>1. PICK h \in Flows \ Dying : w \in WorksIn(h)
      BY <2>1 DEF Adopted, WorksIn
    <3> QED BY <1>5, <3>1, FlowWorks
  <2> QED BY <2>1, AllDrawn
<1>7. \A b \in Adopted : work'[b] = work[b]
  BY <1>1, <1>6, IInvParts DEF BuildingTyped
<1>8. \A b \in Adopted : Targets(work'[b]) = Targets(work[b])
  BY <1>7
<1>9. Dying' = Dying
  BY <1>1, <1>2, IInvParts, DoneDooms
<1> QED BY <1>1, <1>8, <1>9, NothingMoves

\* and neither are they when it forgets them.
LEMMA ForgetMoves ==
  ASSUME IInv, NEW t \in Threads, Forget(t)
  PROVE  Moves
<1>0. PICK s : s = op[t].todo
  OBVIOUS
<1>1. /\ Part(t, "empty") /\ flow' = [flow EXCEPT ![Head(s).flow] = <<>>] /\ PartDone(t)
      /\ work' = work
  BY <1>0 DEF Forget
<1>2. s # <<>> /\ Head(s).do = "empty" /\ Head(s) = s[1]
  BY <1>0, <1>1, PartIsDue
<1>3. PICK g \in FlowsOf[t] : Emptying(t, g, 0)
  BY <1>0, <1>2, Phases
<1>4. PICK n \in Nat : Left(t, g, 0, s, n)
  BY <1>0, <1>3, EmptyingFacts
<1>5. s[1].flow = g /\ \A h : Empties(t, h) <=> h = g
  BY <1>4 DEF Left
<1>6. /\ \A u \in Threads \ {t} : op'[u] = op[u]
      /\ DOMAIN op'[t].todo = 1 .. Len(s) - 1
      /\ \A i \in 1 .. Len(s) - 1 : i + 1 \in DOMAIN s /\ op'[t].todo[i] = s[i + 1]
  BY <1>0, <1>1, <1>2, IInvParts, PartIsDone
<1>7. \A h : Empties(t, h)' => Empties(t, h)
  BY <1>0, <1>6 DEF Empties
<1>8. \A h : h # g => (h \in Dying' <=> h \in Dying)
  <2>1. \A h : h \in Dying <=> h \in Flows /\ \E u \in Threads : Empties(u, h)
    BY DEF Dying, Empties
  <2>2. \A h : h \in Dying' <=> h \in Flows /\ \E u \in Threads : Empties(u, h)'
    BY DEF Dying, Empties
  <2>3. \A u \in Threads \ {t} : \A h : Empties(u, h)' <=> Empties(u, h)
    BY <1>6 DEF Empties
  <2> QED BY <1>5, <1>7, <2>1, <2>2, <2>3
<1>9. g \in Flows /\ g \in Dying
  BY <1>5, FlowsApart, DyingIs
<1>10. flow'[g] = <<>> /\ \A h \in Flows : h # g => flow'[h] = flow[h]
  BY <1>1, <1>2, <1>5, <1>9, IInvParts DEF BuildingTyped
<1>11. Adopted' = Adopted
  <2>1. \A b : b \in Adopted <=> \E h \in Flows \ Dying : b \in Range(flow[h])
    BY DEF Adopted
  <2>2. \A b : b \in Adopted' <=> \E h \in Flows \ Dying' : b \in Range(flow'[h])
    BY DEF Adopted
  <2>3. \A b : b \notin Range(flow'[g])
    BY <1>10, RangeOfEmpty
  <2>4. \A b : b \in Adopted' <=> b \in Adopted
    BY <1>8, <1>9, <1>10, <2>1, <2>2, <2>3
  <2> QED BY <2>4
<1>12. AllEdges' = AllEdges
  BY <1>1, <1>11 DEF AllEdges
<1> QED BY <1>11, <1>12 DEF Moves, GraphStep

\* A graph that takes over another has its Works and edges.
LEMMA TakeOverMoves ==
  ASSUME IInv, NEW t \in Threads, TakeOver(t)
  PROVE  Moves
<1>1. /\ Part(t, "take") /\ PartDone(t)
      /\ flow' = [flow EXCEPT ![Head(op[t].todo).flow] = flow[Head(op[t].todo).from],
                              ![Head(op[t].todo).from] = <<>>]
      /\ work' = [b \in Blocks |->
                    IF b \in Range(flow[Head(op[t].todo).from])
                    THEN [work[b] EXCEPT !.graph = Head(op[t].todo).flow] ELSE work[b]]
  BY DEF TakeOver
<1>2. op[t].todo # <<>> /\ Head(op[t].todo).do = "take"
  BY <1>1, PartIsDue
<1>3. PICK g \in FlowsOf[t], h \in FlowsOf[t] :
        /\ g # h /\ Head(op[t].todo).flow = g /\ Head(op[t].todo).from = h
        /\ flow[g] = <<>> /\ \A d : ~Empties(t, d)
  BY <1>2, Phases, TakingFacts
<1>4. Dying' = Dying
  BY <1>1, <1>2, IInvParts, DoneDooms
<1>5. g \in Flows \ Dying /\ h \in Flows \ Dying
  BY <1>3, DyingIs, FlowsApart
<1>6. flow'[g] = flow[h] /\ flow'[h] = <<>> /\ \A d \in Flows \ {g, h} : flow'[d] = flow[d]
  BY <1>1, <1>3, <1>5, IInvParts DEF BuildingTyped
<1>7. Adopted' = Adopted
  <2>1. \A b : b \in Adopted <=> \E d \in Flows \ Dying : b \in Range(flow[d])
    BY DEF Adopted
  <2>2. \A b : b \in Adopted' <=> \E d \in Flows \ Dying : b \in Range(flow'[d])
    BY <1>4 DEF Adopted
  <2>3. \A b : b \notin Range(flow[g]) /\ b \notin Range(flow'[h])
    BY <1>3, <1>6, RangeOfEmpty
  <2>4. \A b : b \in Adopted' <=> b \in Adopted
    BY <1>3, <1>5, <1>6, <2>1, <2>2, <2>3
  <2> QED BY <2>4
<1>8. AllEdges' = AllEdges
  <2>1. PICK X : X = Adopted
    OBVIOUS
  <2>2. X \subseteq Blocks /\ work \in [Blocks -> WorkRecords]
    BY <2>1, AllDrawn, IInvParts DEF BuildingTyped
  <2>3. ASSUME NEW b \in X
        PROVE  Targets(work'[b]) = Targets(work[b])
    <3>1. b \in Blocks /\ work[b] \in WorkRecords
      BY <2>2
    <3>2. work'[b] \in {work[b], [work[b] EXCEPT !.graph = g]}
      BY <1>1, <1>3, <3>1
    <3>3. work'[b].edges = work[b].edges /\ work'[b].nsucc = work[b].nsucc
      BY <3>1, <3>2 DEF WorkRecords
    <3> QED BY <3>3 DEF Targets
  <2>4. \A e \in X \X X : Targets(work'[e[1]]) = Targets(work[e[1]])
    BY <2>3
  <2>5. Edges(work', X) = Edges(work, X)
    BY <2>4 DEF Edges
  <2> QED BY <1>7, <2>1, <2>5 DEF AllEdges
<1> QED BY <1>7, <1>8 DEF Moves, GraphStep

\* Every step is one of the digraph's, or none.
LEMMA NextMoves ==
  ASSUME IInv, [Next]_vars
  PROVE  Moves
<1>1. CASE UNCHANGED vars
  <2>1. op' = op /\ flow' = flow /\ work' = work
    BY <1>1 DEF vars
  <2> QED BY <2>1, EditMoves
<1>2. ASSUME NEW t \in Threads, Edit(t)
      PROVE  Moves
  <2>1. CASE Emplace(t) \/ EmplaceObject(t)
    BY <2>1, MakingMoves
  <2>2. CASE Erase(t)
    BY <2>2, EraseMoves
  <2>3. CASE Clear(t) \/ Move(t)
    BY <2>3, TearDownMoves
  <2>4. CASE Precede(t) \/ Succeed(t) \/ Linearize(t)
    BY <2>4, SearchMoves
  <2>5. CASE Disconnect(t) \/ DropPredecessors(t) \/ DropSuccessors(t)
    BY <2>5, DisconnectMoves
  <2>6. CASE \/ Replace(t) \/ ReplaceObject(t) \/ ReplaceThrows(t)
             \/ AddAcquire(t) \/ AddRelease(t) \/ DropAcquire(t) \/ DropRelease(t)
             \/ DropRequests(t)
    BY <2>6, WorkMoves
  <2>7. CASE Callback(t)
    BY <2>7, ChoiceMoves
  <2> QED BY <1>2, <2>1, <2>2, <2>3, <2>4, <2>5, <2>6, <2>7 DEF Edit
<1>3. ASSUME NEW t \in Threads, Proceed(t)
      PROVE  Moves
  <2>1. CASE MakeWork(t) \/ ConstructWork(t) \/ CopyThrows(t) \/ CreateThrows(t)
    BY <2>1, MakingMoves
  <2>2. CASE Adopt(t) \/ AdoptThrows(t)
    BY <2>2, AdoptMoves
  <2>3. CASE DestroyWork(t)
    BY <2>3, DestroyMoves
  <2>4. CASE Forget(t)
    BY <2>4, ForgetMoves
  <2>5. CASE TakeOver(t)
    BY <2>5, TakeOverMoves
  <2>6. CASE Check(t) \/ Search(t) \/ RefuseCycle(t)
    BY <2>6, SearchMoves
  <2>7. CASE Connect(t) \/ ConnectThrows(t)
    BY <2>7, ConnectMoves
  <2>8. CASE \/ BranchCall(t) \/ JumpCall(t) \/ MultiBranchCall(t) \/ MultiJumpCall(t)
             \/ CallbackReturns(t)
    BY <2>8, ChoiceMoves
  <2>9. CASE PoolStep(t) /\ UNCHANGED graphVars
    <3>1. op' = op /\ flow' = flow /\ work' = work
      BY <2>9 DEF graphVars
    <3> QED BY <3>1, EditMoves
  <2> QED BY <1>3, <2>1, <2>2, <2>3, <2>4, <2>5, <2>6, <2>7, <2>8, <2>9 DEF Proceed
<1>4. ASSUME NEW t \in Threads, UseVectors(t)
      PROVE  Moves
  <2>1. op' = op /\ flow' = flow /\ work' = work
    BY <1>4 DEF UseVectors
  <2> QED BY <2>1, EditMoves
<1> QED BY <1>1, <1>2, <1>3, <1>4 DEF Next

\* A run begins without edges.
LEMMA InitEdges == Init => D!DigraphInit
<1> SUFFICES ASSUME Init PROVE D!DigraphInit
  OBVIOUS
<1>1. IInv
  BY InitIInv
<1>2. Adopted \subseteq Blocks
  BY <1>1, AllDrawn
<1>3. ASSUME NEW b \in Blocks
      PROVE  Targets(work[b]) = {}
  <2>1. PICK g, k : work[b] = Created(g, k) \/ work[b] = NoWork
    BY DEF Init
  <2>4. Created(g, k).nsucc = 0 /\ NoWork.nsucc = 0
    BY DEF Created, NoWork
  <2>2. work[b].nsucc = 0
    BY <2>1, <2>4
  <2>3. 1 .. 0 = {}
    OBVIOUS
  <2> QED BY <2>2, <2>3 DEF Targets
<1>4. \A e \in AllEdges : FALSE
  BY <1>2, <1>3 DEF AllEdges, Edges
<1>5. OutEdges = {} /\ InEdges = {}
  BY <1>1, <1>4, EndsAgree
<1> QED BY <1>5 DEF D!DigraphInit, OutEdges, InEdges

\* The edits implement those of a digraph (the property ImplementsDigraph of
\* GraphBuilding): at every moment both ends of every edge know it, a failed
\* call changes nothing, and no step changes more of the graph than its call
\* says.
THEOREM BuildingImplementsDigraph == Spec => ImplementsDigraph
<1>1. Init => IInv /\ D!DigraphInit
  BY InitIInv, InitEdges
<1>2. IInv /\ [Next]_vars => IInv'
  BY NextIInv
<1>3. IInv' => (OutEdges = AllEdges /\ InEdges = AllEdges)'
  <2>1. IInv => OutEdges = AllEdges /\ InEdges = AllEdges
    BY EndsAgree
  <2> QED BY <2>1, PTL
<1>4. IInv /\ [Next]_vars => [D!DigraphNext]_<<Adopted, OutEdges, InEdges>>
  BY <1>2, <1>3, NextMoves, MovesAllowed
<1> QED BY <1>1, <1>2, <1>4, PTL DEF Spec, ImplementsDigraph, D!DigraphSpec, OutEdges, InEdges
===============================================================================
