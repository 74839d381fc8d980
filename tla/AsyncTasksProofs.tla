-------------------------- MODULE AsyncTasksProofs --------------------------
(***************************************************************************)
(* Asynchronous tasks, for any number of tasks, clients, workers and       *)
(* dependencies: the use counts and the join counters are exact, no task   *)
(* is freed while it can be reached, no waiter sleeps through the end of   *)
(* its task, and a task runs once, after all it depends on.                *)
(***************************************************************************)
EXTENDS AsyncTasks, SequenceFacts, TLAPS

-----------------------------------------------------------------------------
(* The sums, with their parts named.                                       *)

Unlinks(r) == IF r.pc = "unlink" THEN r.todo ELSE <<>>
StartsFor(r, t) ==
  IF r.task = t /\ r.pc \in {"unlock", "link", "append"} THEN Len(r.todo) + 1 ELSE 0
Caches(r, t) == IF r.cache = t THEN 1 ELSE 0
Runs(r, t) == IF r.pc = "body" /\ r.task = t THEN 1 ELSE 0
Promised(d) == IF status[d] = "Running" THEN Successors(d) ELSE <<>>

FutureOf(t) == [c \in Clients |-> IF t \in Held(c) THEN 1 ELSE 0]
PredecessorsOf == [u \in Tasks |-> Predecessors(u)]
UnlinksOf == [x \in Threads |-> Unlinks(at[x])]
PendingOf == [x \in Threads |-> at[x].pending]
StarterOf(t) == [x \in Threads |-> StartsFor(at[x], t)]
PromisedOf == [d \in Tasks |-> Promised(d)]
ToReachOf == [x \in Threads |-> ToReach(x)]
CacheOf(t) == [x \in Threads |-> Caches(at[x], t)]
BodyOf(t) == [x \in Threads |-> Runs(at[x], t)]

RefsFinite(t) ==
  /\ IsFiniteSet(Units(FutureOf(t), Clients))
  /\ IsFiniteSet(Places(PredecessorsOf, Tasks, t))
  /\ IsFiniteSet(Places(UnlinksOf, Threads, t))
  /\ IsFiniteSet(Places(PendingOf, Threads, t))
ArrivalsFinite(t) ==
  /\ IsFiniteSet(Units(StarterOf(t), Threads))
  /\ IsFiniteSet(Places(PromisedOf, Tasks, t))
  /\ IsFiniteSet(Places(ToReachOf, Threads, t))
ScheduleFinite(t) ==
  /\ IsFiniteSet(Units(CacheOf(t), Threads))
  /\ IsFiniteSet(Units(BodyOf(t), Threads))
Finite(t) == RefsFinite(t) /\ ArrivalsFinite(t) /\ ScheduleFinite(t)

Dependents(t) == Occurrences(PredecessorsOf, Tasks, t)
Unlinkers(t) == Occurrences(UnlinksOf, Threads, t)
Starters(t) == Total(StarterOf(t), Threads)
Promises(t) == Occurrences(PromisedOf, Tasks, t)
Reaches(t) == Occurrences(ToReachOf, Threads, t)

-----------------------------------------------------------------------------
(* The inductive invariant.                                                *)

Starting(r, t) == r.task = t /\ r.pc \in {"unlock", "link", "append"}
Ending(r, t) == r.task = t /\ r.pc \in {"notify", "successors"}
Locks(r, t) ==
  \/ r.pc \in {"prepare", "unlock"} /\ r.task = t
  \/ r.pc = "append" /\ Head(r.todo) = t

\* What the fields of a thread say at each of its steps.
Shape(r) ==
  /\ r.pc = "idle" => r = Idle
  /\ r.pc \notin {"idle", "destroy", "unlink"} => r.task \in Tasks
  /\ r.cache # Nil => r.pc \in {"successors", "destroy", "unlink"}
  /\ r.pending # <<>> => r.pc \in {"destroy", "unlink"}
  /\ r.pc = "destroy" => r.pending # <<>>
  /\ r.todo # <<>> => r.pc \in {"lock", "prepare", "unlock", "link", "append", "unlink"}
  /\ r.pc \in {"append", "unlink"} => r.todo # <<>>

Shapes ==
  /\ \A c \in Clients : /\ at[c].pc \notin {"body", "notify", "successors"}
                        /\ at[c].cache = Nil
  /\ \A w \in Workers : at[w].pc \notin {"blocked", "lock", "prepare", "unlock", "link", "append"}
  /\ \A x \in Threads : Shape(at[x])

\* What a task has before its start, while it lives and after its end.
TaskStages ==
  \A t \in Tasks :
    /\ status[t] = "Idle" => m_edges[t] = <<>> /\ needs[t] = {}
    /\ life[t] = "none" => status[t] = "Idle"
    /\ life[t] # "live" => m_edges[t] = <<>> /\ refs[t] = 0
    /\ life[t] = "live" => \A d \in Tasks : d \in needs[t] <=> Count(Predecessors(t), d) >= 1
    /\ status[t] # "Running" => join[t] = 0
    /\ \A d \in needs[t] : status[d] # "Idle" /\ d # t

\* What a client in the middle of an operation holds and has seen.
ClientHolds(c) ==
  LET r == at[c] IN
  /\ r.pc \in {"blocked", "lock", "prepare", "unlock"} => r.task \in handles[c]
  /\ r.pc \in {"lock", "prepare"} => /\ Range(r.todo) \subseteq handles[c] \ {r.task}
                                     /\ \A d \in Range(r.todo) : status[d] # "Idle"
  /\ r.pc = "prepare" => status[r.task] = "Idle"
  /\ r.pc \in {"unlock", "link", "append"} => /\ status[r.task] = "Running"
                                              /\ Range(r.todo) \subseteq needs[r.task]
  /\ r.pc = "append" => status[Head(r.todo)] = "Running"

ClientsHold == \A c \in Clients : ClientHolds(c)

\* The lock of a task has one holder.
LocksHeld ==
  /\ \A x \in Threads, t \in Tasks : Locks(at[x], t) => locked[t]
  /\ \A x, y \in Threads, t \in Tasks : Locks(at[x], t) /\ Locks(at[y], t) => x = y

\* A task is started by one thread, and torn down by one, once it has finished.
StartsOnce == \A x, y \in Threads, t \in Tasks : Starting(at[x], t) /\ Starting(at[y], t) => x = y
EndsOnce ==
  /\ \A x, y \in Threads, t \in Tasks : Ending(at[x], t) /\ Ending(at[y], t) => x = y
  /\ \A x \in Threads, t \in Tasks : Ending(at[x], t) => status[t] = "Finished"
  /\ \A x \in Threads : at[x].pc = "successors" =>
       at[x].next \in 1..(m_num_successors[at[x].task] + 1)

RefsCounted ==
  \A t \in Tasks :
    /\ refs[t] = Futures(t) + Dependents(t) + Unlinkers(t) + (IF Executing(t) THEN 1 ELSE 0)
    /\ Destroyers(t) = IF life[t] = "live" /\ refs[t] = 0 THEN 1 ELSE 0

ArrivalsCounted ==
  \A t \in Tasks :
    IF needs[t] = {} THEN join[t] = 0 /\ Promises(t) = 0 /\ Reaches(t) = 0
    ELSE join[t] = Starters(t) + Promises(t) + Reaches(t)

ScheduledOnce ==
  \A t \in Tasks :
    queue[t] + Cached(t) + InBody(t) =
      IF status[t] = "Running" /\ join[t] = 0 /\ \A x \in Threads : ~Starting(at[x], t)
      THEN 1 ELSE 0

\* A dependency that has not finished is still to be linked, or has the task
\* among its successors.
Linked ==
  \A t \in Tasks : status[t] = "Running" =>
    \A d \in needs[t] :
      \/ status[d] = "Finished"
      \/ \E x \in Threads : Starting(at[x], t) /\ d \in Range(at[x].todo)
      \/ Count(Successors(d), t) >= 1

Stages == Shapes /\ TaskStages /\ ClientsHold /\ LocksHeld /\ StartsOnce /\ EndsOnce
Sums == RefsCounted /\ ArrivalsCounted /\ ScheduledOnce

AInv == TypeOK /\ Stages /\ (\A t \in Tasks : Finite(t)) /\ Sums /\ Linked /\ WaiterNotified

-----------------------------------------------------------------------------
(* Edges.                                                                  *)

\* Parts of a sequence of edges.
LEMMA PartOfEdges ==
  ASSUME NEW s \in Seq(Tasks), NEW m \in Nat, NEW n \in Nat, n <= Len(s)
  PROVE  /\ SubSeq(s, m + 1, n) \in Seq(Tasks)
         /\ Len(SubSeq(s, m + 1, n)) = IF m <= n THEN n - m ELSE 0
         /\ \A i \in 1..(n - m) : SubSeq(s, m + 1, n)[i] = s[m + i]
<1>1. Len(s) \in Nat /\ m + 1 \in Int /\ n \in Int
  BY LenProperties
<1>2. \A i \in (m + 1)..n : s[i] \in Tasks
  BY <1>1, ElementOfSeq
<1> DEFINE u == SubSeq(s, m + 1, n)
<1>3. /\ u \in Seq(Tasks)
      /\ Len(u) = IF m + 1 <= n THEN n - (m + 1) + 1 ELSE 0
      /\ \A i \in 1..(n - (m + 1) + 1) : u[i] = s[(m + 1) + i - 1]
  BY <1>1, <1>2, SubSeqProperties
<1> HIDE DEF u
<1>4. Len(u) = IF m <= n THEN n - m ELSE 0
  BY <1>1, <1>3
<1>5. ASSUME NEW i \in 1..(n - m) PROVE u[i] = s[m + i]
  <2>1. i \in 1..(n - (m + 1) + 1) /\ (m + 1) + i - 1 = m + i
    BY <1>1
  <2>2. u[i] = s[(m + 1) + i - 1]
    BY <1>3, <2>1
  <2> QED BY <2>1, <2>2
<1> QED BY <1>3, <1>4, <1>5 DEF u

\* Counting in a sequence of tasks.
LEMMA CountType ==
  ASSUME NEW s \in Seq(Tasks), NEW x
  PROVE  Count(s, x) \in Nat /\ IsFiniteSet(Indices(s, x)) /\ (x \in Range(s) <=> Count(s, x) >= 1)
BY IndicesFinite, IndicesInRange DEF Count

\* An empty sequence holds no task.
LEMMA CountEmpty == \A x : Count(<<>>, x) = 0
BY IndicesOfEmpty, FS_EmptySet DEF Count

\* A registered successor comes after the other successors; the predecessors
\* are the same, in another order.
LEMMA RegisteredKeeps ==
  ASSUME NEW s \in Seq(Tasks), NEW n \in Nat, n <= Len(s), NEW t \in Tasks
  PROVE  LET e == Registered(s, n, t) IN
         /\ e \in Seq(Tasks) /\ Len(e) = Len(s) + 1
         /\ SubSeq(e, 1, n + 1) = Append(SubSeq(s, 1, n), t)
         /\ \A x : Count(SubSeq(e, n + 1 + 1, Len(e)), x) = Count(SubSeq(s, n + 1, Len(s)), x)
<1> DEFINE l == Len(s)
           a == Append(s, t)
           b == [a EXCEPT ![n + 1] = t]
           c == [b EXCEPT ![l + 1] = a[n + 1]]
           old == SubSeq(s, n + 1, l)
           new == SubSeq(c, n + 1 + 1, l + 1)
<1>1. l \in Nat /\ \A i \in 1..l : s[i] \in Tasks
  BY LenProperties, ElementOfSeq
<1>2. /\ a \in Seq(Tasks) /\ Len(a) = l + 1
      /\ \A i \in 1..l : a[i] = s[i]
      /\ a[l + 1] = t
  BY AppendProperties
<1> HIDE DEF a
<1>3. /\ b \in Seq(Tasks) /\ Len(b) = l + 1
      /\ \A i \in 1..(l + 1) : b[i] = IF i = n + 1 THEN t ELSE a[i]
  <2>1. n + 1 \in 1..Len(a)
    BY <1>1, <1>2
  <2> QED BY <1>2, <2>1, ExceptSeq
<1> HIDE DEF b
<1>4. /\ c \in Seq(Tasks) /\ Len(c) = l + 1
      /\ \A i \in 1..(l + 1) : c[i] = IF i = l + 1 THEN a[n + 1] ELSE b[i]
  <2>1. l + 1 \in 1..Len(b) /\ n + 1 \in 1..Len(a)
    BY <1>1, <1>2, <1>3
  <2>2. a[n + 1] \in Tasks
    BY <1>2, <2>1, ElementOfSeq
  <2> QED BY <1>3, <2>1, <2>2, ExceptSeq
<1> HIDE DEF c
<1>5. Registered(s, n, t) = c
  BY <1>2 DEF Registered, a, b, c
<1>6. SubSeq(c, 1, n + 1) = Append(SubSeq(s, 1, n), t)
  <2>1. /\ SubSeq(s, 1, n) \in Seq(Tasks) /\ Len(SubSeq(s, 1, n)) = n
        /\ \A i \in 1..n : SubSeq(s, 1, n)[i] = s[i]
    <3>1. 0 \in Nat /\ 0 + 1 = 1 /\ n - 0 = n /\ 0 <= n
      OBVIOUS
    <3>2. \A i \in 1..n : 0 + i = i
      OBVIOUS
    <3> QED BY <3>1, <3>2, PartOfEdges
  <2>2. /\ SubSeq(c, 1, n + 1) \in Seq(Tasks) /\ Len(SubSeq(c, 1, n + 1)) = n + 1
        /\ \A i \in 1..(n + 1) : SubSeq(c, 1, n + 1)[i] = c[i]
    <3>1. 0 \in Nat /\ 0 + 1 = 1 /\ (n + 1) - 0 = n + 1 /\ 0 <= n + 1 /\ n + 1 \in Nat /\ n + 1 <= Len(c)
      BY <1>1, <1>4
    <3>2. \A i \in 1..(n + 1) : 0 + i = i
      OBVIOUS
    <3> QED BY <1>4, <3>1, <3>2, PartOfEdges
  <2> DEFINE u == SubSeq(s, 1, n)
             v == SubSeq(c, 1, n + 1)
  <2>3. /\ Append(u, t) \in Seq(Tasks) /\ Len(Append(u, t)) = n + 1
        /\ \A i \in 1..n : Append(u, t)[i] = s[i]
        /\ Append(u, t)[n + 1] = t
    <3> HIDE DEF u
    <3>1. /\ u \in Seq(Tasks) /\ Len(u) = n /\ \A i \in 1..n : u[i] = s[i]
      BY <2>1 DEF u
    <3> QED BY <3>1, AppendProperties
  <2>4. ASSUME NEW i \in 1..(n + 1) PROVE v[i] = Append(u, t)[i]
    <3>1. v[i] = c[i]
      BY <2>2
    <3>2. CASE i = n + 1
      <4>1. c[i] = t
        BY <1>1, <1>2, <1>3, <1>4, <3>2
      <4> QED BY <2>3, <3>1, <3>2, <4>1
    <3>3. CASE i # n + 1
      <4>1. i \in 1..n /\ i \in 1..l /\ i # l + 1 /\ i \in 1..(l + 1)
        BY <1>1, <3>3
      <4>2. c[i] = s[i]
        BY <1>2, <1>3, <1>4, <3>3, <4>1
      <4> QED BY <2>3, <3>1, <4>1, <4>2
    <3> QED BY <3>2, <3>3
  <2>5. v \in Seq(Tasks) /\ Len(v) = n + 1
    BY <2>2
  <2> HIDE DEF u, v
  <2>6. v = Append(u, t)
    BY <2>3, <2>4, <2>5, SeqEqual
  <2> QED BY <2>6 DEF u, v
<1>7. /\ old \in Seq(Tasks) /\ Len(old) = l - n
      /\ \A i \in 1..(l - n) : old[i] = s[n + i]
  BY <1>1, PartOfEdges
<1>8. /\ new \in Seq(Tasks) /\ Len(new) = l - n
      /\ \A i \in 1..(l - n) : new[i] = c[n + 1 + i]
  <2>1. n + 1 \in Nat /\ l + 1 \in Nat /\ l + 1 <= Len(c) /\ (l + 1) - (n + 1) = l - n /\ n + 1 <= l + 1
    BY <1>1, <1>4
  <2>2. /\ new \in Seq(Tasks)
        /\ Len(new) = IF n + 1 <= l + 1 THEN (l + 1) - (n + 1) ELSE 0
        /\ \A i \in 1..((l + 1) - (n + 1)) : new[i] = c[(n + 1) + i]
    BY <1>4, <2>1, PartOfEdges
  <2> HIDE DEF new
  <2> QED BY <2>1, <2>2
<1> HIDE DEF old, new
<1>9. ASSUME NEW x PROVE Count(new, x) = Count(old, x)
  <2>1. CASE n = l
    <3>1. old = <<>> /\ new = <<>>
      BY <1>1, <1>7, <1>8, <2>1, EmptySeq
    <3> QED BY <3>1
  <2>2. CASE n # l
    <3>1. n < l
      BY <1>1, <2>2
    <3>2. old # <<>> /\ Head(old) = s[n + 1]
      <4>1. Len(old) # 0 /\ 1 \in 1..(l - n) /\ n + 1 \in Nat
        BY <1>1, <1>7, <3>1
      <4> QED BY <1>7, <4>1, EmptySeq
    <3>3. /\ Tail(old) \in Seq(Tasks) /\ Len(Tail(old)) = l - n - 1
          /\ \A i \in 1..(l - n - 1) : Tail(old)[i] = old[i + 1]
      BY <1>7, <3>2, HeadTailProperties
    <3>4. a[n + 1] = s[n + 1] /\ s[n + 1] \in Tasks
      BY <1>1, <1>2, <3>1
    <3> DEFINE u == Append(Tail(old), s[n + 1])
    <3>5. /\ u \in Seq(Tasks) /\ Len(u) = l - n
          /\ \A i \in 1..(l - n - 1) : u[i] = old[i + 1]
          /\ u[l - n] = s[n + 1]
      <4> DEFINE v == Tail(old)
      <4>1. v \in Seq(Tasks) /\ Len(v) = l - n - 1 /\ \A i \in 1..(l - n - 1) : v[i] = old[i + 1]
        BY <3>3
      <4> HIDE DEF v
      <4>2. /\ Append(v, s[n + 1]) \in Seq(Tasks) /\ Len(Append(v, s[n + 1])) = Len(v) + 1
            /\ \A i \in 1..Len(v) : Append(v, s[n + 1])[i] = v[i]
            /\ Append(v, s[n + 1])[Len(v) + 1] = s[n + 1]
        BY <3>4, <4>1, AppendProperties
      <4>3. Len(v) + 1 = l - n
        BY <1>1, <4>1
      <4>4. /\ Append(v, s[n + 1]) \in Seq(Tasks) /\ Len(Append(v, s[n + 1])) = l - n
            /\ \A i \in 1..(l - n - 1) : Append(v, s[n + 1])[i] = old[i + 1]
            /\ Append(v, s[n + 1])[l - n] = s[n + 1]
        BY <4>1, <4>2, <4>3
      <4> QED BY <4>4 DEF v
    <3>6. ASSUME NEW i \in 1..(l - n) PROVE new[i] = u[i]
      <4>1. new[i] = c[n + 1 + i] /\ n + 1 + i \in 1..(l + 1)
        BY <1>1, <1>8
      <4>2. CASE i = l - n
        <5>1. n + 1 + i = l + 1
          BY <1>1, <4>2
        <5>2. new[i] = s[n + 1]
          BY <1>4, <3>4, <4>1, <5>1
        <5> QED BY <3>5, <4>2, <5>2
      <4>3. CASE i # l - n
        <5>1. /\ i \in 1..(l - n - 1) /\ i + 1 \in 1..(l - n) /\ n + (i + 1) = n + 1 + i
              /\ n + 1 + i # l + 1 /\ n + 1 + i # n + 1 /\ n + 1 + i \in 1..l
          BY <1>1, <4>3
        <5>2. c[n + 1 + i] = s[n + 1 + i]
          BY <1>2, <1>3, <1>4, <4>1, <5>1
        <5>3. old[i + 1] = s[n + 1 + i]
          BY <1>7, <5>1
        <5> QED BY <3>5, <4>1, <5>1, <5>2, <5>3
      <4> QED BY <4>2, <4>3
    <3> HIDE DEF u
    <3>7. new = u
      BY <1>8, <3>5, <3>6, SeqEqual
    <3>8. Count(u, x) = Count(Tail(old), x) + IF s[n + 1] = x THEN 1 ELSE 0
      <4> DEFINE v == Tail(old)
      <4>1. v \in Seq(Tasks)
        BY <3>3
      <4> HIDE DEF v
      <4>2. Cardinality(Indices(Append(v, s[n + 1]), x)) =
              Cardinality(Indices(v, x)) + IF s[n + 1] = x THEN 1 ELSE 0
        BY <3>4, <4>1, IndicesOfAppend
      <4> QED BY <4>2 DEF u, v, Count
    <3>9. Count(Tail(old), x) = Count(old, x) - IF s[n + 1] = x THEN 1 ELSE 0
      BY <1>7, <3>2, IndicesOfTail DEF Count
    <3>10. Count(old, x) \in Nat /\ Count(Tail(old), x) \in Nat
      BY <1>7, <3>3, CountType
    <3> QED BY <3>7, <3>8, <3>9, <3>10
  <2> QED BY <2>1, <2>2
<1>10. /\ c \in Seq(Tasks) /\ Len(c) = l + 1
       /\ SubSeq(c, 1, n + 1) = Append(SubSeq(s, 1, n), t)
       /\ \A x : Count(SubSeq(c, n + 1 + 1, Len(c)), x) = Count(SubSeq(s, n + 1, Len(s)), x)
  BY <1>4, <1>6, <1>9 DEF old, new
<1> QED BY <1>5, <1>10

-----------------------------------------------------------------------------
(* What a step of one thread does to the sums.                             *)

\* Sums are natural numbers.
LEMMA SumsType ==
  ASSUME NEW t, Finite(t)
  PROVE  /\ Futures(t) \in Nat /\ Dependents(t) \in Nat /\ Unlinkers(t) \in Nat
         /\ Destroyers(t) \in Nat /\ Starters(t) \in Nat /\ Promises(t) \in Nat
         /\ Reaches(t) \in Nat /\ Cached(t) \in Nat /\ InBody(t) \in Nat
<1>1. /\ Futures(t) = Cardinality(Units(FutureOf(t), Clients))
      /\ Dependents(t) = Cardinality(Places(PredecessorsOf, Tasks, t))
      /\ Unlinkers(t) = Cardinality(Places(UnlinksOf, Threads, t))
      /\ Destroyers(t) = Cardinality(Places(PendingOf, Threads, t))
      /\ Starters(t) = Cardinality(Units(StarterOf(t), Threads))
      /\ Promises(t) = Cardinality(Places(PromisedOf, Tasks, t))
      /\ Reaches(t) = Cardinality(Places(ToReachOf, Threads, t))
      /\ Cached(t) = Cardinality(Units(CacheOf(t), Threads))
      /\ InBody(t) = Cardinality(Units(BodyOf(t), Threads))
  BY DEF Futures, Dependents, Unlinkers, Destroyers, Starters, Promises, Reaches, Cached, InBody,
         Total, Occurrences, FutureOf, PendingOf, CacheOf, BodyOf, Caches, Runs
<1> QED BY <1>1, FS_CardinalityType DEF Finite, RefsFinite, ArrivalsFinite, ScheduleFinite

\* Equal parts make equal sums.
LEMMA PlacesSame ==
  ASSUME NEW D, NEW f, NEW h, NEW x, \A d \in D : h[d] = f[d]
  PROVE  Places(h, D, x) = Places(f, D, x)
<1>1. [d \in D |-> Indices(h[d], x)] = [d \in D |-> Indices(f[d], x)]
  OBVIOUS
<1> QED BY <1>1 DEF Places

\* The references to task t change by what happens to client c.
LEMMA FuturesStep ==
  ASSUME NEW CONSTANT t \in Tasks, Finite(t), NEW CONSTANT c \in Clients,
         \A e \in Clients \ {c} : t \in Held(e)' <=> t \in Held(e)
  PROVE  /\ IsFiniteSet(Units(FutureOf(t), Clients)')
         /\ Futures(t)' = Futures(t) - (IF t \in Held(c) THEN 1 ELSE 0)
                                     + (IF t \in Held(c)' THEN 1 ELSE 0)
<1> DEFINE f == FutureOf(t)
           h == FutureOf(t)'
<1>1. /\ f[c] = (IF t \in Held(c) THEN 1 ELSE 0) /\ h[c] = (IF t \in Held(c)' THEN 1 ELSE 0)
      /\ \A e \in Clients \ {c} : h[e] = f[e]
  BY DEF FutureOf
<1>2. IsFiniteSet(Units(f, Clients)) /\ f[c] \in Nat /\ h[c] \in Nat
  BY <1>1 DEF Finite, RefsFinite
<1>3. Futures(t) = Cardinality(Units(f, Clients)) /\ Futures(t)' = Cardinality(Units(h, Clients))
  BY DEF Futures, Total, FutureOf
<1>4. Units(FutureOf(t), Clients)' = Units(h, Clients)
  BY DEF Units
<1> HIDE DEF f, h
<1>5. /\ IsFiniteSet(Units(h, Clients))
      /\ Cardinality(Units(h, Clients)) = Cardinality(Units(f, Clients)) - f[c] + h[c]
  BY <1>1, <1>2, UnitsUpdate
<1> QED BY <1>1, <1>3, <1>4, <1>5

\* Where no client gains or loses a future of t, the sum of its futures stays.
LEMMA FuturesSame ==
  ASSUME NEW CONSTANT t \in Tasks, Finite(t),
         \A e \in Clients : t \in Held(e)' <=> t \in Held(e)
  PROVE  IsFiniteSet(Units(FutureOf(t), Clients)') /\ Futures(t)' = Futures(t)
<1> DEFINE f == FutureOf(t)
           h == FutureOf(t)'
<1>1. \A e \in Clients : h[e] = f[e]
  BY DEF FutureOf
<1>2. IsFiniteSet(Units(f, Clients))
  BY DEF Finite, RefsFinite
<1>3. Futures(t) = Cardinality(Units(f, Clients)) /\ Futures(t)' = Cardinality(Units(h, Clients))
  BY DEF Futures, Total, FutureOf
<1>4. Units(FutureOf(t), Clients)' = Units(h, Clients)
  BY DEF Units
<1> HIDE DEF f, h
<1>5. Units(h, Clients) = Units(f, Clients)
  BY <1>1, UnitsSame
<1> QED BY <1>2, <1>3, <1>4, <1>5

\* The mentions of t among predecessors change with the edges of one task.
LEMMA DependentsStep ==
  ASSUME NEW CONSTANT t \in Tasks, Finite(t), NEW CONSTANT u \in Tasks,
         Predecessors(u) \in Seq(Tasks), Predecessors(u)' \in Seq(Tasks),
         \A d \in Tasks \ {u} : Predecessors(d)' = Predecessors(d)
  PROVE  /\ IsFiniteSet(Places(PredecessorsOf, Tasks, t)')
         /\ Dependents(t)' =
              Dependents(t) - Count(Predecessors(u), t) + Count(Predecessors(u)', t)
<1> DEFINE f == PredecessorsOf
           h == PredecessorsOf'
<1>1. /\ f[u] = Predecessors(u) /\ h[u] = Predecessors(u)'
      /\ \A d \in Tasks \ {u} : h[d] = f[d]
  BY DEF PredecessorsOf
<1>2. /\ IsFiniteSet(Places(f, Tasks, t))
      /\ IsFiniteSet(Indices(f[u], t)) /\ IsFiniteSet(Indices(h[u], t))
  BY <1>1, IndicesFinite DEF Finite, RefsFinite
<1>3. /\ Dependents(t) = Cardinality(Places(f, Tasks, t))
      /\ Dependents(t)' = Cardinality(Places(h, Tasks, t))
      /\ Places(PredecessorsOf, Tasks, t)' = Places(h, Tasks, t)
  BY DEF Dependents, Occurrences, Places
<1> HIDE DEF f, h
<1>4. /\ IsFiniteSet(Places(h, Tasks, t))
      /\ Cardinality(Places(h, Tasks, t)) =
           Cardinality(Places(f, Tasks, t))
             - Cardinality(Indices(f[u], t)) + Cardinality(Indices(h[u], t))
  BY <1>1, <1>2, PlacesUpdate
<1> QED BY <1>1, <1>3, <1>4 DEF Count

\* Where no edge is added or removed, the number of predecessors listing t stays.
LEMMA DependentsSame ==
  ASSUME NEW CONSTANT t \in Tasks, Finite(t), UNCHANGED edgeVars
  PROVE  IsFiniteSet(Places(PredecessorsOf, Tasks, t)') /\ Dependents(t)' = Dependents(t)
<1>1. PredecessorsOf' = PredecessorsOf
  BY DEF PredecessorsOf, Predecessors, edgeVars
<1>2. /\ Places(PredecessorsOf, Tasks, t)' = Places(PredecessorsOf', Tasks, t)
      /\ Dependents(t)' = Cardinality(Places(PredecessorsOf', Tasks, t))
  BY DEF Dependents, Occurrences, Places
<1> QED BY <1>1, <1>2 DEF Finite, RefsFinite, Dependents, Occurrences

\* A step of thread x leaves the others where they are.
Others(x) == \A y \in Threads \ {x} : at'[y] = at[y]

\* The predecessors that thread x has still to release.
LEMMA UnlinkersStep ==
  ASSUME NEW CONSTANT t \in Tasks, Finite(t), NEW CONSTANT x \in Threads, Others(x),
         Unlinks(at[x]) \in Seq(Tasks), Unlinks(at'[x]) \in Seq(Tasks)
  PROVE  /\ IsFiniteSet(Places(UnlinksOf, Threads, t)')
         /\ Unlinkers(t)' =
              Unlinkers(t) - Count(Unlinks(at[x]), t) + Count(Unlinks(at'[x]), t)
<1> DEFINE f == UnlinksOf
           h == UnlinksOf'
<1>1. /\ f[x] = Unlinks(at[x]) /\ h[x] = Unlinks(at'[x])
      /\ \A y \in Threads \ {x} : h[y] = f[y]
  BY DEF UnlinksOf, Others
<1>2. /\ IsFiniteSet(Places(f, Threads, t))
      /\ IsFiniteSet(Indices(f[x], t)) /\ IsFiniteSet(Indices(h[x], t))
  BY <1>1, IndicesFinite DEF Finite, RefsFinite
<1>3. /\ Unlinkers(t) = Cardinality(Places(f, Threads, t))
      /\ Unlinkers(t)' = Cardinality(Places(h, Threads, t))
      /\ Places(UnlinksOf, Threads, t)' = Places(h, Threads, t)
  BY DEF Unlinkers, Occurrences, Places, UnlinksOf
<1> HIDE DEF f, h
<1>4. /\ IsFiniteSet(Places(h, Threads, t))
      /\ Cardinality(Places(h, Threads, t)) =
           Cardinality(Places(f, Threads, t))
             - Cardinality(Indices(f[x], t)) + Cardinality(Indices(h[x], t))
  BY <1>1, <1>2, PlacesUpdate
<1> QED BY <1>1, <1>3, <1>4 DEF Count

\* The tasks that thread x is about to destroy.
LEMMA DestroyersStep ==
  ASSUME NEW CONSTANT t \in Tasks, Finite(t), NEW CONSTANT x \in Threads, Others(x),
         at[x].pending \in Seq(Tasks), at'[x].pending \in Seq(Tasks)
  PROVE  /\ IsFiniteSet(Places(PendingOf, Threads, t)')
         /\ Destroyers(t)' =
              Destroyers(t) - Count(at[x].pending, t) + Count(at'[x].pending, t)
<1> DEFINE f == PendingOf
           h == PendingOf'
<1>1. /\ f[x] = at[x].pending /\ h[x] = at'[x].pending
      /\ \A y \in Threads \ {x} : h[y] = f[y]
  BY DEF PendingOf, Others
<1>2. /\ IsFiniteSet(Places(f, Threads, t))
      /\ IsFiniteSet(Indices(f[x], t)) /\ IsFiniteSet(Indices(h[x], t))
  BY <1>1, IndicesFinite DEF Finite, RefsFinite
<1>3. /\ Destroyers(t) = Cardinality(Places(f, Threads, t))
      /\ Destroyers(t)' = Cardinality(Places(h, Threads, t))
      /\ Places(PendingOf, Threads, t)' = Places(h, Threads, t)
  BY DEF Destroyers, Occurrences, Places, PendingOf
<1> HIDE DEF f, h
<1>4. /\ IsFiniteSet(Places(h, Threads, t))
      /\ Cardinality(Places(h, Threads, t)) =
           Cardinality(Places(f, Threads, t))
             - Cardinality(Indices(f[x], t)) + Cardinality(Indices(h[x], t))
  BY <1>1, <1>2, PlacesUpdate
<1> QED BY <1>1, <1>3, <1>4 DEF Count

\* The arrivals that the starter of t owes.
LEMMA StartersStep ==
  ASSUME NEW CONSTANT t \in Tasks, Finite(t), NEW CONSTANT x \in Threads, Others(x),
         StartsFor(at[x], t) \in Nat, StartsFor(at'[x], t) \in Nat
  PROVE  /\ IsFiniteSet(Units(StarterOf(t), Threads)')
         /\ Starters(t)' = Starters(t) - StartsFor(at[x], t) + StartsFor(at'[x], t)
<1> DEFINE f == StarterOf(t)
           h == StarterOf(t)'
<1>1. /\ f[x] = StartsFor(at[x], t) /\ h[x] = StartsFor(at'[x], t)
      /\ \A y \in Threads \ {x} : h[y] = f[y]
  BY DEF StarterOf, Others
<1>2. IsFiniteSet(Units(f, Threads)) /\ f[x] \in Nat /\ h[x] \in Nat
  BY <1>1 DEF Finite, ArrivalsFinite
<1>3. /\ Starters(t) = Cardinality(Units(f, Threads))
      /\ Starters(t)' = Cardinality(Units(h, Threads))
      /\ Units(StarterOf(t), Threads)' = Units(h, Threads)
  BY DEF Starters, Total, Units, StarterOf
<1> HIDE DEF f, h
<1>4. /\ IsFiniteSet(Units(h, Threads))
      /\ Cardinality(Units(h, Threads)) = Cardinality(Units(f, Threads)) - f[x] + h[x]
  BY <1>1, <1>2, UnitsUpdate
<1> QED BY <1>1, <1>3, <1>4

\* The cache of thread x.
LEMMA CachedStep ==
  ASSUME NEW CONSTANT t \in Tasks, Finite(t), NEW CONSTANT x \in Threads, Others(x),
         Caches(at[x], t) \in Nat, Caches(at'[x], t) \in Nat
  PROVE  /\ IsFiniteSet(Units(CacheOf(t), Threads)')
         /\ Cached(t)' = Cached(t) - Caches(at[x], t) + Caches(at'[x], t)
<1> DEFINE f == CacheOf(t)
           h == CacheOf(t)'
<1>1. /\ f[x] = Caches(at[x], t) /\ h[x] = Caches(at'[x], t)
      /\ \A y \in Threads \ {x} : h[y] = f[y]
  BY DEF CacheOf, Others
<1>2. IsFiniteSet(Units(f, Threads)) /\ f[x] \in Nat /\ h[x] \in Nat
  BY <1>1 DEF Finite, ScheduleFinite
<1>3. /\ Cached(t) = Cardinality(Units(f, Threads))
      /\ Cached(t)' = Cardinality(Units(h, Threads))
      /\ Units(CacheOf(t), Threads)' = Units(h, Threads)
  BY DEF Cached, Total, Units, CacheOf, Caches
<1> HIDE DEF f, h
<1>4. /\ IsFiniteSet(Units(h, Threads))
      /\ Cardinality(Units(h, Threads)) = Cardinality(Units(f, Threads)) - f[x] + h[x]
  BY <1>1, <1>2, UnitsUpdate
<1> QED BY <1>1, <1>3, <1>4

\* The body that thread x runs.
LEMMA InBodyStep ==
  ASSUME NEW CONSTANT t \in Tasks, Finite(t), NEW CONSTANT x \in Threads, Others(x),
         Runs(at[x], t) \in Nat, Runs(at'[x], t) \in Nat
  PROVE  /\ IsFiniteSet(Units(BodyOf(t), Threads)')
         /\ InBody(t)' = InBody(t) - Runs(at[x], t) + Runs(at'[x], t)
<1> DEFINE f == BodyOf(t)
           h == BodyOf(t)'
<1>1. /\ f[x] = Runs(at[x], t) /\ h[x] = Runs(at'[x], t)
      /\ \A y \in Threads \ {x} : h[y] = f[y]
  BY DEF BodyOf, Others
<1>2. IsFiniteSet(Units(f, Threads)) /\ f[x] \in Nat /\ h[x] \in Nat
  BY <1>1 DEF Finite, ScheduleFinite
<1>3. /\ InBody(t) = Cardinality(Units(f, Threads))
      /\ InBody(t)' = Cardinality(Units(h, Threads))
      /\ Units(BodyOf(t), Threads)' = Units(h, Threads)
  BY DEF InBody, Total, Units, BodyOf, Runs
<1> HIDE DEF f, h
<1>4. /\ IsFiniteSet(Units(h, Threads))
      /\ Cardinality(Units(h, Threads)) = Cardinality(Units(f, Threads)) - f[x] + h[x]
  BY <1>1, <1>2, UnitsUpdate
<1> QED BY <1>1, <1>3, <1>4

\* The successors that running tasks will reach change with one task.
LEMMA PromisesStep ==
  ASSUME NEW CONSTANT t \in Tasks, Finite(t), NEW CONSTANT u \in Tasks,
         Promised(u) \in Seq(Tasks), Promised(u)' \in Seq(Tasks),
         \A d \in Tasks \ {u} : Promised(d)' = Promised(d)
  PROVE  /\ IsFiniteSet(Places(PromisedOf, Tasks, t)')
         /\ Promises(t)' = Promises(t) - Count(Promised(u), t) + Count(Promised(u)', t)
<1> DEFINE f == PromisedOf
           h == PromisedOf'
<1>1. /\ f[u] = Promised(u) /\ h[u] = Promised(u)'
      /\ \A d \in Tasks \ {u} : h[d] = f[d]
  BY DEF PromisedOf
<1>2. /\ IsFiniteSet(Places(f, Tasks, t))
      /\ IsFiniteSet(Indices(f[u], t)) /\ IsFiniteSet(Indices(h[u], t))
  BY <1>1, IndicesFinite DEF Finite, ArrivalsFinite
<1>3. /\ Promises(t) = Cardinality(Places(f, Tasks, t))
      /\ Promises(t)' = Cardinality(Places(h, Tasks, t))
      /\ Places(PromisedOf, Tasks, t)' = Places(h, Tasks, t)
  BY DEF Promises, Occurrences, Places
<1> HIDE DEF f, h
<1>4. /\ IsFiniteSet(Places(h, Tasks, t))
      /\ Cardinality(Places(h, Tasks, t)) =
           Cardinality(Places(f, Tasks, t))
             - Cardinality(Indices(f[u], t)) + Cardinality(Indices(h[u], t))
  BY <1>1, <1>2, PlacesUpdate
<1> QED BY <1>1, <1>3, <1>4 DEF Count

\* Where no task gains or loses a promise to t, the sum of the promises stays.
LEMMA PromisesSame ==
  ASSUME NEW CONSTANT t \in Tasks, Finite(t), \A d \in Tasks : Promised(d)' = Promised(d)
  PROVE  IsFiniteSet(Places(PromisedOf, Tasks, t)') /\ Promises(t)' = Promises(t)
<1>1. PromisedOf' = PromisedOf
  BY DEF PromisedOf
<1>2. /\ Places(PromisedOf, Tasks, t)' = Places(PromisedOf', Tasks, t)
      /\ Promises(t)' = Cardinality(Places(PromisedOf', Tasks, t))
  BY DEF Promises, Occurrences, Places
<1> QED BY <1>1, <1>2 DEF Finite, ArrivalsFinite, Promises, Occurrences

\* The successors that tear-downs have still to reach change with one thread.
LEMMA ReachesStep ==
  ASSUME NEW CONSTANT t \in Tasks, Finite(t), NEW CONSTANT x \in Threads,
         ToReach(x) \in Seq(Tasks), ToReach(x)' \in Seq(Tasks),
         \A y \in Threads \ {x} : ToReach(y)' = ToReach(y)
  PROVE  /\ IsFiniteSet(Places(ToReachOf, Threads, t)')
         /\ Reaches(t)' = Reaches(t) - Count(ToReach(x), t) + Count(ToReach(x)', t)
<1> DEFINE f == ToReachOf
           h == ToReachOf'
<1>1. /\ f[x] = ToReach(x) /\ h[x] = ToReach(x)'
      /\ \A y \in Threads \ {x} : h[y] = f[y]
  BY DEF ToReachOf
<1>2. /\ IsFiniteSet(Places(f, Threads, t))
      /\ IsFiniteSet(Indices(f[x], t)) /\ IsFiniteSet(Indices(h[x], t))
  BY <1>1, IndicesFinite DEF Finite, ArrivalsFinite
<1>3. /\ Reaches(t) = Cardinality(Places(f, Threads, t))
      /\ Reaches(t)' = Cardinality(Places(h, Threads, t))
      /\ Places(ToReachOf, Threads, t)' = Places(h, Threads, t)
  BY DEF Reaches, Occurrences, Places
<1> HIDE DEF f, h
<1>4. /\ IsFiniteSet(Places(h, Threads, t))
      /\ Cardinality(Places(h, Threads, t)) =
           Cardinality(Places(f, Threads, t))
             - Cardinality(Indices(f[x], t)) + Cardinality(Indices(h[x], t))
  BY <1>1, <1>2, PlacesUpdate
<1> QED BY <1>1, <1>3, <1>4 DEF Count

\* Where no thread changes what it still has to reach, the sum for t stays.
LEMMA ReachesSame ==
  ASSUME NEW CONSTANT t \in Tasks, Finite(t), \A y \in Threads : ToReach(y)' = ToReach(y)
  PROVE  IsFiniteSet(Places(ToReachOf, Threads, t)') /\ Reaches(t)' = Reaches(t)
<1>1. ToReachOf' = ToReachOf
  BY DEF ToReachOf
<1>2. /\ Places(ToReachOf, Threads, t)' = Places(ToReachOf', Threads, t)
      /\ Reaches(t)' = Cardinality(Places(ToReachOf', Threads, t))
  BY DEF Reaches, Occurrences, Places
<1> QED BY <1>1, <1>2 DEF Finite, ArrivalsFinite, Reaches, Occurrences

\* Parts of the sums.
LEMMA SumParts ==
  ASSUME NEW CONSTANT t \in Tasks, Finite(t)
  PROVE  /\ \A c \in Clients : t \in Held(c) => Futures(t) >= 1
         /\ \A u \in Tasks : Predecessors(u) \in Seq(Tasks) =>
              Dependents(t) >= Count(Predecessors(u), t)
         /\ \A x \in Threads : Unlinks(at[x]) \in Seq(Tasks) =>
              Unlinkers(t) >= Count(Unlinks(at[x]), t)
         /\ \A x \in Threads : at[x].pending \in Seq(Tasks) =>
              Destroyers(t) >= Count(at[x].pending, t)
         /\ \A x \in Threads : StartsFor(at[x], t) \in Nat => Starters(t) >= StartsFor(at[x], t)
         /\ \A d \in Tasks : Promised(d) \in Seq(Tasks) => Promises(t) >= Count(Promised(d), t)
         /\ \A x \in Threads : ToReach(x) \in Seq(Tasks) => Reaches(t) >= Count(ToReach(x), t)
         /\ \A x \in Threads : Cached(t) >= Caches(at[x], t)
         /\ \A x \in Threads : InBody(t) >= Runs(at[x], t)
<1>1. ASSUME NEW c \in Clients PROVE Futures(t) >= (IF t \in Held(c) THEN 1 ELSE 0)
  <2> DEFINE f == FutureOf(t)
  <2>1. f[c] = (IF t \in Held(c) THEN 1 ELSE 0) /\ f[c] \in Nat
    BY <1>1 DEF FutureOf
  <2>2. IsFiniteSet(Units(f, Clients))
    BY DEF Finite, RefsFinite
  <2>3. Futures(t) = Cardinality(Units(f, Clients))
    BY DEF Futures, Total, FutureOf
  <2> HIDE DEF f
  <2>4. Cardinality(Units(f, Clients)) \in Nat /\ f[c] <= Cardinality(Units(f, Clients))
    BY <2>1, <2>2, UnitsPart
  <2> QED BY <2>1, <2>3, <2>4
<1>2. ASSUME NEW u \in Tasks, Predecessors(u) \in Seq(Tasks) PROVE Dependents(t) >= Count(Predecessors(u), t)
  <2> DEFINE F == [e \in Tasks |-> Indices(PredecessorsOf[e], t)]
  <2>1. F[u] = Indices(Predecessors(u), t) /\ Places(PredecessorsOf, Tasks, t) = Family(F, Tasks)
    BY DEF Places, PredecessorsOf
  <2>2. IsFiniteSet(Family(F, Tasks))
    BY <2>1 DEF Finite, RefsFinite
  <2> HIDE DEF F
  <2>3. Cardinality(F[u]) <= Cardinality(Family(F, Tasks))
    BY <2>2, FamilyPart
  <2>4. Cardinality(F[u]) \in Nat /\ Cardinality(Family(F, Tasks)) \in Nat
    BY <2>2, FamilyPart, FS_CardinalityType
  <2>5. Dependents(t) = Cardinality(Places(PredecessorsOf, Tasks, t))
    BY DEF Dependents, Occurrences, PredecessorsOf
  <2> QED BY <2>1, <2>3, <2>4, <2>5 DEF Count
<1>3. ASSUME NEW x \in Threads, Unlinks(at[x]) \in Seq(Tasks) PROVE Unlinkers(t) >= Count(Unlinks(at[x]), t)
  <2> DEFINE F == [e \in Threads |-> Indices(UnlinksOf[e], t)]
  <2>1. F[x] = Indices(Unlinks(at[x]), t) /\ Places(UnlinksOf, Threads, t) = Family(F, Threads)
    BY DEF Places, UnlinksOf
  <2>2. IsFiniteSet(Family(F, Threads))
    BY <2>1 DEF Finite, RefsFinite
  <2> HIDE DEF F
  <2>3. Cardinality(F[x]) <= Cardinality(Family(F, Threads))
    BY <2>2, FamilyPart
  <2>4. Cardinality(F[x]) \in Nat /\ Cardinality(Family(F, Threads)) \in Nat
    BY <2>2, FamilyPart, FS_CardinalityType
  <2>5. Unlinkers(t) = Cardinality(Places(UnlinksOf, Threads, t))
    BY DEF Unlinkers, Occurrences, UnlinksOf
  <2> QED BY <2>1, <2>3, <2>4, <2>5 DEF Count
<1>4. ASSUME NEW x \in Threads, at[x].pending \in Seq(Tasks) PROVE Destroyers(t) >= Count(at[x].pending, t)
  <2> DEFINE F == [e \in Threads |-> Indices(PendingOf[e], t)]
  <2>1. F[x] = Indices(at[x].pending, t) /\ Places(PendingOf, Threads, t) = Family(F, Threads)
    BY DEF Places, PendingOf
  <2>2. IsFiniteSet(Family(F, Threads))
    BY <2>1 DEF Finite, RefsFinite
  <2> HIDE DEF F
  <2>3. Cardinality(F[x]) <= Cardinality(Family(F, Threads))
    BY <2>2, FamilyPart
  <2>4. Cardinality(F[x]) \in Nat /\ Cardinality(Family(F, Threads)) \in Nat
    BY <2>2, FamilyPart, FS_CardinalityType
  <2>5. Destroyers(t) = Cardinality(Places(PendingOf, Threads, t))
    BY DEF Destroyers, Occurrences, PendingOf
  <2> QED BY <2>1, <2>3, <2>4, <2>5 DEF Count
<1>5. ASSUME NEW x \in Threads, StartsFor(at[x], t) \in Nat PROVE Starters(t) >= StartsFor(at[x], t)
  <2> DEFINE f == StarterOf(t)
  <2>1. f[x] = StartsFor(at[x], t) /\ f[x] \in Nat
    BY <1>5 DEF StarterOf
  <2>2. IsFiniteSet(Units(f, Threads))
    BY DEF Finite, ArrivalsFinite
  <2>3. Starters(t) = Cardinality(Units(f, Threads))
    BY DEF Starters, Total, StarterOf
  <2> HIDE DEF f
  <2>4. Cardinality(Units(f, Threads)) \in Nat /\ f[x] <= Cardinality(Units(f, Threads))
    BY <2>1, <2>2, UnitsPart
  <2> QED BY <2>1, <2>3, <2>4
<1>6. ASSUME NEW d \in Tasks, Promised(d) \in Seq(Tasks) PROVE Promises(t) >= Count(Promised(d), t)
  <2> DEFINE F == [e \in Tasks |-> Indices(PromisedOf[e], t)]
  <2>1. F[d] = Indices(Promised(d), t) /\ Places(PromisedOf, Tasks, t) = Family(F, Tasks)
    BY DEF Places, PromisedOf
  <2>2. IsFiniteSet(Family(F, Tasks))
    BY <2>1 DEF Finite, ArrivalsFinite
  <2> HIDE DEF F
  <2>3. Cardinality(F[d]) <= Cardinality(Family(F, Tasks))
    BY <2>2, FamilyPart
  <2>4. Cardinality(F[d]) \in Nat /\ Cardinality(Family(F, Tasks)) \in Nat
    BY <2>2, FamilyPart, FS_CardinalityType
  <2>5. Promises(t) = Cardinality(Places(PromisedOf, Tasks, t))
    BY DEF Promises, Occurrences, PromisedOf
  <2> QED BY <2>1, <2>3, <2>4, <2>5 DEF Count
<1>7. ASSUME NEW x \in Threads, ToReach(x) \in Seq(Tasks) PROVE Reaches(t) >= Count(ToReach(x), t)
  <2> DEFINE F == [e \in Threads |-> Indices(ToReachOf[e], t)]
  <2>1. F[x] = Indices(ToReach(x), t) /\ Places(ToReachOf, Threads, t) = Family(F, Threads)
    BY DEF Places, ToReachOf
  <2>2. IsFiniteSet(Family(F, Threads))
    BY <2>1 DEF Finite, ArrivalsFinite
  <2> HIDE DEF F
  <2>3. Cardinality(F[x]) <= Cardinality(Family(F, Threads))
    BY <2>2, FamilyPart
  <2>4. Cardinality(F[x]) \in Nat /\ Cardinality(Family(F, Threads)) \in Nat
    BY <2>2, FamilyPart, FS_CardinalityType
  <2>5. Reaches(t) = Cardinality(Places(ToReachOf, Threads, t))
    BY DEF Reaches, Occurrences, ToReachOf
  <2> QED BY <2>1, <2>3, <2>4, <2>5 DEF Count
<1>8. ASSUME NEW x \in Threads PROVE Cached(t) >= Caches(at[x], t)
  <2> DEFINE f == CacheOf(t)
  <2>1. f[x] = Caches(at[x], t) /\ f[x] \in Nat
    BY <1>8 DEF CacheOf, Caches
  <2>2. IsFiniteSet(Units(f, Threads))
    BY DEF Finite, ScheduleFinite
  <2>3. Cached(t) = Cardinality(Units(f, Threads))
    BY DEF Cached, Total, CacheOf, Caches
  <2> HIDE DEF f
  <2>4. Cardinality(Units(f, Threads)) \in Nat /\ f[x] <= Cardinality(Units(f, Threads))
    BY <2>1, <2>2, UnitsPart
  <2> QED BY <2>1, <2>3, <2>4
<1>9. ASSUME NEW x \in Threads PROVE InBody(t) >= Runs(at[x], t)
  <2> DEFINE f == BodyOf(t)
  <2>1. f[x] = Runs(at[x], t) /\ f[x] \in Nat
    BY <1>9 DEF BodyOf, Runs
  <2>2. IsFiniteSet(Units(f, Threads))
    BY DEF Finite, ScheduleFinite
  <2>3. InBody(t) = Cardinality(Units(f, Threads))
    BY DEF InBody, Total, BodyOf, Runs
  <2> HIDE DEF f
  <2>4. Cardinality(Units(f, Threads)) \in Nat /\ f[x] <= Cardinality(Units(f, Threads))
    BY <2>1, <2>2, UnitsPart
  <2> QED BY <2>1, <2>3, <2>4
<1> QED BY <1>1, <1>2, <1>3, <1>4, <1>5, <1>6, <1>7, <1>8, <1>9

-----------------------------------------------------------------------------
(* What the invariant says of one task.                                    *)

\* The parts of the edges are sequences of tasks.
LEMMA EdgesType ==
  ASSUME TypeOK, Shapes, EndsOnce
  PROVE  /\ \A u \in Tasks : /\ Predecessors(u) \in Seq(Tasks) /\ Successors(u) \in Seq(Tasks)
                             /\ Len(Successors(u)) = m_num_successors[u]
                             /\ Promised(u) \in Seq(Tasks)
         /\ \A x \in Threads : /\ Unlinks(at[x]) \in Seq(Tasks) /\ ToReach(x) \in Seq(Tasks)
                               /\ at[x].pending \in Seq(Tasks)
                               /\ \A t : StartsFor(at[x], t) \in Nat
<1>1. ASSUME NEW u \in Tasks
      PROVE  /\ Predecessors(u) \in Seq(Tasks) /\ Successors(u) \in Seq(Tasks)
             /\ Len(Successors(u)) = m_num_successors[u]
  <2> DEFINE s == m_edges[u]
             n == m_num_successors[u]
  <2>1. s \in Seq(Tasks) /\ n \in Nat /\ n <= Len(s) /\ Len(s) \in Nat
    BY LenProperties DEF TypeOK
  <2> HIDE DEF s, n
  <2>2. SubSeq(s, n + 1, Len(s)) \in Seq(Tasks)
    BY <2>1, PartOfEdges
  <2>3. SubSeq(s, 1, n) \in Seq(Tasks) /\ Len(SubSeq(s, 1, n)) = n
    <3>1. 0 \in Nat /\ 0 + 1 = 1 /\ n - 0 = n /\ 0 <= n
      BY <2>1
    <3>2. SubSeq(s, 0 + 1, n) \in Seq(Tasks) /\ Len(SubSeq(s, 0 + 1, n)) = IF 0 <= n THEN n - 0 ELSE 0
      BY <2>1, <3>1, PartOfEdges
    <3> QED BY <3>1, <3>2
  <2> QED BY <2>2, <2>3 DEF Predecessors, Successors, s, n
<1>2. <<>> \in Seq(Tasks)
  BY EmptySeq
<1>3. ASSUME NEW x \in Threads
      PROVE  /\ Unlinks(at[x]) \in Seq(Tasks) /\ ToReach(x) \in Seq(Tasks)
             /\ at[x].pending \in Seq(Tasks)
             /\ \A t : StartsFor(at[x], t) \in Nat
  <2>1. /\ at[x].todo \in Seq(Tasks) /\ at[x].pending \in Seq(Tasks) /\ Len(at[x].todo) \in Nat
        /\ at[x].next \in Nat
    BY LenProperties DEF TypeOK, ThreadStates
  <2>2. Unlinks(at[x]) \in Seq(Tasks)
    BY <1>2, <2>1 DEF Unlinks
  <2>3. \A t : StartsFor(at[x], t) \in Nat
    BY <2>1 DEF StartsFor
  <2>4. CASE at[x].pc = "notify"
    <3>1. ToReach(x) = Successors(at[x].task) /\ at[x].task \in Tasks
      BY <2>4 DEF ToReach, Shapes, Shape
    <3> QED BY <1>1, <2>1, <2>2, <2>3, <3>1
  <2>5. CASE at[x].pc = "successors"
    <3>1. PICK t \in Tasks : t = at[x].task
      BY <2>5 DEF Shapes, Shape
    <3> DEFINE s == m_edges[t]
               n == m_num_successors[t]
               k == at[x].next
    <3>2. ToReach(x) = SubSeq(s, k, n)
      BY <2>5, <3>1 DEF ToReach
    <3>3. s \in Seq(Tasks) /\ n \in Nat /\ n <= Len(s) /\ Len(s) \in Nat
      BY LenProperties DEF TypeOK
    <3>5. k \in 1..(n + 1)
      BY <2>5, <3>1 DEF EndsOnce
    <3> HIDE DEF s, n, k
    <3>4. SubSeq(s, k, n) \in Seq(Tasks)
      <4>1. k - 1 \in Nat /\ (k - 1) + 1 = k
        BY <3>3, <3>5
      <4>2. SubSeq(s, (k - 1) + 1, n) \in Seq(Tasks)
        BY <3>3, <4>1, PartOfEdges
      <4> QED BY <4>1, <4>2
    <3> QED BY <2>1, <2>2, <2>3, <3>2, <3>4
  <2>6. CASE at[x].pc \notin {"notify", "successors"}
    <3>1. ToReach(x) = <<>>
      BY <2>6 DEF ToReach
    <3> QED BY <1>2, <2>1, <2>2, <2>3, <3>1
  <2> QED BY <2>4, <2>5, <2>6
<1>4. \A u \in Tasks : Promised(u) \in Seq(Tasks)
  BY <1>1, <1>2 DEF Promised
<1> QED BY <1>1, <1>3, <1>4

\* Who refers to a task keeps it alive; who is about to destroy it is alone.
LEMMA Referred ==
  ASSUME AInv, NEW CONSTANT t \in Tasks
  PROVE  /\ refs[t] \in Nat
         /\ \A c \in Clients : t \in Held(c) => refs[t] >= 1
         /\ \A u \in Tasks : Count(Predecessors(u), t) >= 1 => refs[t] >= 1
         /\ \A x \in Threads : Count(Unlinks(at[x]), t) >= 1 => refs[t] >= 1
         /\ Executing(t) => refs[t] >= 1
         /\ refs[t] >= 1 => life[t] = "live"
         /\ \A x \in Threads : Count(at[x].pending, t) >= 1 => life[t] = "live" /\ refs[t] = 0
<1>1. /\ Finite(t) /\ refs[t] \in Nat
      /\ refs[t] = Futures(t) + Dependents(t) + Unlinkers(t) + (IF Executing(t) THEN 1 ELSE 0)
      /\ Destroyers(t) = IF life[t] = "live" /\ refs[t] = 0 THEN 1 ELSE 0
      /\ life[t] # "live" => refs[t] = 0
  BY DEF AInv, TypeOK, Sums, RefsCounted, Stages, TaskStages
<1>2. /\ Futures(t) \in Nat /\ Dependents(t) \in Nat /\ Unlinkers(t) \in Nat /\ Destroyers(t) \in Nat
  BY <1>1, SumsType
<1>3. /\ \A u \in Tasks : Predecessors(u) \in Seq(Tasks)
      /\ \A x \in Threads : Unlinks(at[x]) \in Seq(Tasks) /\ at[x].pending \in Seq(Tasks)
  BY EdgesType DEF AInv, Stages
<1>4. /\ \A c \in Clients : t \in Held(c) => Futures(t) >= 1
      /\ \A u \in Tasks : Dependents(t) >= Count(Predecessors(u), t)
      /\ \A x \in Threads : Unlinkers(t) >= Count(Unlinks(at[x]), t)
      /\ \A x \in Threads : Destroyers(t) >= Count(at[x].pending, t)
  BY <1>1, <1>3, SumParts
<1>5. /\ \A u \in Tasks : Count(Predecessors(u), t) \in Nat
      /\ \A x \in Threads : Count(Unlinks(at[x]), t) \in Nat /\ Count(at[x].pending, t) \in Nat
  BY <1>3, CountType
<1> QED BY <1>1, <1>2, <1>4, <1>5

\* Who expects an arrival has been started and does not run yet.
LEMMA Awaited ==
  ASSUME AInv, NEW CONSTANT t \in Tasks
  PROVE  /\ join[t] \in Nat
         /\ \A d \in Tasks : Count(Promised(d), t) >= 1 => join[t] >= 1
         /\ \A x \in Threads : Count(ToReach(x), t) >= 1 =>
              /\ join[t] >= 1
              /\ join[t] = 1 => \A y \in Threads : ~Starting(at[y], t)
         /\ \A x \in Threads : Starting(at[x], t) /\ needs[t] # {} => join[t] >= Len(at[x].todo) + 1
         /\ join[t] >= 1 => status[t] = "Running" /\ needs[t] # {}
<1>1. /\ Finite(t) /\ join[t] \in Nat
      /\ IF needs[t] = {} THEN join[t] = 0 /\ Promises(t) = 0 /\ Reaches(t) = 0
         ELSE join[t] = Starters(t) + Promises(t) + Reaches(t)
      /\ status[t] # "Running" => join[t] = 0
  BY DEF AInv, TypeOK, Sums, ArrivalsCounted, Stages, TaskStages
<1>2. Starters(t) \in Nat /\ Promises(t) \in Nat /\ Reaches(t) \in Nat
  BY <1>1, SumsType
<1>3. /\ \A d \in Tasks : Promised(d) \in Seq(Tasks)
      /\ \A x \in Threads : ToReach(x) \in Seq(Tasks) /\ StartsFor(at[x], t) \in Nat
  BY EdgesType DEF AInv, Stages
<1>4. /\ \A d \in Tasks : Promises(t) >= Count(Promised(d), t)
      /\ \A x \in Threads : Reaches(t) >= Count(ToReach(x), t)
      /\ \A x \in Threads : Starters(t) >= StartsFor(at[x], t)
  BY <1>1, <1>3, SumParts
<1>5. /\ \A d \in Tasks : Count(Promised(d), t) \in Nat
      /\ \A x \in Threads : Count(ToReach(x), t) \in Nat
  BY <1>3, CountType
<1>6. \A x \in Threads : Starting(at[x], t) => StartsFor(at[x], t) = Len(at[x].todo) + 1
  BY DEF Starting, StartsFor
<1>7. \A x \in Threads : Len(at[x].todo) \in Nat
  BY LenProperties DEF AInv, TypeOK, ThreadStates
<1>8. ASSUME NEW x \in Threads, Count(ToReach(x), t) >= 1
      PROVE  /\ join[t] >= 1
             /\ join[t] = 1 => \A y \in Threads : ~Starting(at[y], t)
  <2>1. Reaches(t) >= 1 /\ needs[t] # {}
    BY <1>1, <1>2, <1>4, <1>5, <1>8
  <2>2. join[t] >= 1
    BY <1>1, <1>2, <2>1
  <2>3. ASSUME NEW y \in Threads, Starting(at[y], t) PROVE join[t] # 1
    <3>1. Starters(t) >= Len(at[y].todo) + 1
      BY <1>4, <1>6, <2>3
    <3>2. join[t] = Starters(t) + Promises(t) + Reaches(t) /\ Len(at[y].todo) \in Nat
      BY <1>1, <1>7, <2>1
    <3> QED BY <1>2, <2>1, <3>1, <3>2
  <2> QED BY <2>2, <2>3
<1>9. ASSUME NEW x \in Threads, Starting(at[x], t), needs[t] # {}
      PROVE  join[t] >= Len(at[x].todo) + 1
  <2>1. Starters(t) >= Len(at[x].todo) + 1 /\ Len(at[x].todo) \in Nat
    BY <1>4, <1>6, <1>7, <1>9
  <2> QED BY <1>1, <1>2, <1>9, <2>1
<1>10. ASSUME NEW d \in Tasks, Count(Promised(d), t) >= 1 PROVE join[t] >= 1
  BY <1>1, <1>2, <1>4, <1>5, <1>10
<1>11. join[t] >= 1 => status[t] = "Running" /\ needs[t] # {}
  BY <1>1
<1> QED BY <1>1, <1>8, <1>9, <1>10, <1>11

\* A task is scheduled in one place, once it expects nothing more.
LEMMA Scheduled ==
  ASSUME AInv, NEW CONSTANT t \in Tasks
  PROVE  /\ queue[t] \in Nat /\ Cached(t) \in Nat /\ InBody(t) \in Nat
         /\ \A x \in Threads : /\ at[x].cache = t => Cached(t) >= 1
                               /\ at[x].pc = "body" /\ at[x].task = t => InBody(t) >= 1
         /\ queue[t] + Cached(t) + InBody(t) >= 1 =>
              /\ queue[t] + Cached(t) + InBody(t) = 1
              /\ status[t] = "Running" /\ join[t] = 0
              /\ \A x \in Threads : ~Starting(at[x], t)
<1>1. /\ Finite(t) /\ queue[t] \in Nat
      /\ queue[t] + Cached(t) + InBody(t) =
           IF status[t] = "Running" /\ join[t] = 0 /\ \A x \in Threads : ~Starting(at[x], t)
           THEN 1 ELSE 0
  BY DEF AInv, TypeOK, Sums, ScheduledOnce
<1>2. Cached(t) \in Nat /\ InBody(t) \in Nat
  BY <1>1, SumsType
<1>3. \A x \in Threads : /\ at[x].cache = t => Cached(t) >= 1
                         /\ at[x].pc = "body" /\ at[x].task = t => InBody(t) >= 1
  BY <1>1, SumParts DEF Caches, Runs
<1> QED BY <1>1, <1>2, <1>3

-----------------------------------------------------------------------------
(* The properties follow from the invariant.                               *)

\* Whatever a thread, a client, a queue or another task refers to lives.
LEMMA RefersToLive ==
  ASSUME AInv
  PROVE  NoUseAfterFree
<1>1. /\ TypeOK /\ Shapes /\ TaskStages /\ ClientsHold /\ EndsOnce
      /\ \A t \in Tasks : life[t] = "live" => t \in Live
  BY DEF AInv, Stages, Live
<1>2. \A u \in Tasks : Predecessors(u) \in Seq(Tasks) /\ Successors(u) \in Seq(Tasks) /\ Promised(u) \in Seq(Tasks)
  BY <1>1, EdgesType
<1>3. \A t \in Tasks : refs[t] >= 1 => t \in Live
  BY <1>1, Referred
<1>4. \A c \in Clients : handles[c] \subseteq Live
  <2> SUFFICES ASSUME NEW c \in Clients, NEW t \in handles[c] PROVE t \in Live
    OBVIOUS
  <2>1. t \in Tasks /\ t \in Held(c)
    BY <1>1 DEF TypeOK, Held
  <2> QED BY <1>3, <2>1, Referred
<1>5. \A t \in Tasks : status[t] = "Running" => t \in Live
  <2> SUFFICES ASSUME NEW t \in Tasks, status[t] = "Running" PROVE t \in Live
    OBVIOUS
  <2>1. Executing(t)
    BY DEF Executing
  <2> QED BY <1>3, <2>1, Referred
<1>6. \A t \in Tasks : queue[t] > 0 => t \in Live
  <2> SUFFICES ASSUME NEW t \in Tasks, queue[t] > 0 PROVE t \in Live
    OBVIOUS
  <2>1. queue[t] + Cached(t) + InBody(t) >= 1
    BY Scheduled
  <2> QED BY <1>5, <2>1, Scheduled
<1>7. ASSUME NEW u \in Tasks, NEW d \in Range(Predecessors(u)) PROVE d \in Live
  <2>1. d \in Tasks /\ Count(Predecessors(u), d) >= 1
    BY <1>2, CountType, RangeOfSeq
  <2> QED BY <1>3, <2>1, Referred
<1>8. ASSUME NEW u \in Tasks, u \in Live, status[u] # "Finished", NEW d \in Range(m_edges[u])
      PROVE  d \in Live
  <2> DEFINE s == m_edges[u]
             n == m_num_successors[u]
  <2>1. s \in Seq(Tasks) /\ n \in Nat /\ n <= Len(s) /\ Len(s) \in Nat
    BY <1>1, LenProperties DEF TypeOK
  <2>2. Successors(u) = SubSeq(s, 1, n) /\ Predecessors(u) = SubSeq(s, n + 1, Len(s))
    BY DEF Successors, Predecessors
  <2>3. d \in Range(s)
    BY <1>8
  <2> HIDE DEF s, n
  <2>4. s = SubSeq(s, 1, n) \o SubSeq(s, n + 1, Len(s))
    <3>1. 1 \in 1..(Len(s) + 1) /\ n \in (1 - 1)..Len(s) /\ Len(s) \in n..Len(s)
      BY <2>1
    <3> QED BY <2>1, <3>1, ConcatAdjacentSubSeq, SubSeqFull
  <2>5. d \in Range(Successors(u)) \/ d \in Range(Predecessors(u))
    <3> DEFINE a == Successors(u)
               b == Predecessors(u)
    <3>1. a \in Seq(Tasks) /\ b \in Seq(Tasks) /\ s = a \o b
      BY <1>2, <2>2, <2>4
    <3> HIDE DEF a, b
    <3> QED BY <2>3, <3>1, RangeConcatenation DEF a, b
  <2>6. CASE d \in Range(Predecessors(u))
    BY <1>7, <2>6
  <2>7. CASE d \in Range(Successors(u))
    <3>1. status[u] # "Idle"
      <4>1. status[u] = "Idle" => s = <<>>
        BY <1>1 DEF TaskStages, s
      <4> QED BY <2>3, <4>1, RangeOfEmpty
    <3>2. Promised(u) = Successors(u)
      BY <1>1, <1>8, <3>1 DEF TypeOK, Promised
    <3>3. d \in Tasks /\ Count(Promised(u), d) >= 1
      BY <1>2, <2>7, <3>2, CountType, RangeOfSeq
    <3>4. status[d] = "Running"
      BY <3>3, Awaited
    <3> QED BY <1>5, <3>3, <3>4
  <2> QED BY <2>5, <2>6, <2>7
<1>9. ASSUME NEW x \in Threads PROVE Accessed(x) \subseteq Live
  <2> DEFINE r == at[x]
  <2>1. r \in ThreadStates /\ Shape(r) /\ (x \in Clients \/ x \in Workers)
    BY <1>1 DEF TypeOK, Shapes, Threads
  <2>2. ASSUME r.pc \notin {"idle", "destroy", "unlink"} PROVE r.task \in Live
    <3>1. r.task \in Tasks
      BY <2>1, <2>2 DEF Shape
    <3>2. CASE x \in Clients /\ r.pc \in {"blocked", "lock", "prepare", "unlock"}
      BY <1>1, <1>4, <3>2 DEF ClientsHold, ClientHolds
    <3>3. CASE x \in Clients /\ r.pc \in {"unlock", "link", "append"}
      BY <1>1, <1>5, <3>1, <3>3 DEF ClientsHold, ClientHolds
    <3>4. CASE r.pc = "body"
      <4>1. PICK t \in Tasks : t = r.task
        BY <3>1
      <4>2. status[t] = "Running"
        BY <3>4, <4>1, Scheduled
      <4> QED BY <1>5, <4>1, <4>2
    <3>5. CASE x \in Workers /\ r.pc \in {"notify", "successors"}
      <4>1. PICK t \in Tasks : t = r.task
        BY <3>1
      <4>2. Executing(t)
        BY <3>5, <4>1 DEF Executing
      <4> QED BY <1>3, <4>1, <4>2, Referred
    <3> QED BY <1>1, <2>1, <2>2, <3>2, <3>3, <3>4, <3>5 DEF Shapes, ThreadStates
  <2>3. ASSUME r.cache # Nil PROVE r.cache \in Live
    <3>1. PICK t \in Tasks : t = r.cache
      BY <2>1, <2>3 DEF ThreadStates
    <3>2. queue[t] + Cached(t) + InBody(t) >= 1
      BY <3>1, Scheduled
    <3> QED BY <1>5, <3>1, <3>2, Scheduled
  <2>4. ASSUME NEW d \in Range(r.todo) PROVE d \in Live
    <3>1. r.todo \in Seq(Tasks) /\ d \in Tasks /\ r.todo # <<>>
      BY <2>1, <2>4, RangeOfSeq, RangeOfEmpty DEF ThreadStates
    <3>2. CASE r.pc = "unlink"
      <4>1. Unlinks(at[x]) = r.todo
        BY <3>2 DEF Unlinks
      <4>2. Count(Unlinks(at[x]), d) >= 1
        BY <3>1, <4>1, CountType
      <4> QED BY <1>3, <3>1, <4>2, Referred
    <3>3. CASE x \in Clients /\ r.pc \in {"lock", "prepare"}
      BY <1>1, <1>4, <2>4, <3>3 DEF ClientsHold, ClientHolds
    <3>4. CASE x \in Clients /\ r.pc \in {"unlock", "link", "append"}
      <4>1. PICK t \in Tasks : t = r.task
        BY <2>1, <3>4 DEF Shape
      <4>2. status[t] = "Running" /\ d \in needs[t]
        BY <1>1, <2>4, <3>4, <4>1 DEF ClientsHold, ClientHolds
      <4>3. life[t] = "live"
        BY <1>5, <4>2 DEF Live
      <4>4. Count(Predecessors(t), d) >= 1
        BY <1>1, <3>1, <4>2, <4>3 DEF TaskStages
      <4> QED BY <1>3, <3>1, <4>4, Referred
    <3> QED BY <1>1, <2>1, <3>1, <3>2, <3>3, <3>4 DEF Shapes, Shape
  <2>5. ASSUME NEW d \in Range(r.pending) PROVE d \in Live
    <3>1. r.pending \in Seq(Tasks) /\ d \in Tasks
      BY <2>1, <2>5, RangeOfSeq DEF ThreadStates
    <3>2. Count(at[x].pending, d) >= 1
      BY <2>5, <3>1, CountType
    <3> QED BY <1>1, <3>1, <3>2, Referred
  <2> QED BY <2>2, <2>3, <2>4, <2>5 DEF Accessed
<1>10. \A t \in Live : t \in Tasks
  BY DEF Live
<1> QED BY <1>4, <1>6, <1>7, <1>8, <1>9, <1>10 DEF NoUseAfterFree

\* The sums of the invariant are those of the properties.
LEMMA CountsAreExact ==
  ASSUME AInv
  PROVE  RefsExact /\ ArrivalsExact
<1>1. ASSUME NEW CONSTANT t \in Tasks
      PROVE  /\ Retainers(t) = Dependents(t) + Unlinkers(t)
             /\ Expected(t) = Starters(t) + Promises(t) + Reaches(t)
  BY DEF Retainers, Dependents, Unlinkers, PredecessorsOf, UnlinksOf, Unlinks,
         Expected, Starters, Promises, Reaches, StarterOf, PromisedOf, ToReachOf, Promised,
         StartsFor, Starts
<1>2. ASSUME NEW CONSTANT t \in Tasks
      PROVE  /\ Futures(t) \in Nat /\ Dependents(t) \in Nat /\ Unlinkers(t) \in Nat
  BY SumsType DEF AInv
<1>3. RefsExact
  BY <1>1, <1>2 DEF AInv, Sums, RefsCounted, RefsExact, Live
<1>4. ArrivalsExact
  BY <1>1 DEF AInv, Sums, ArrivalsCounted, ScheduledOnce, ArrivalsExact, Starting, Starts
<1> QED BY <1>3, <1>4

-----------------------------------------------------------------------------
(* Steps of one thread.  x moves from the record at[x] to at'[x].          *)

\* A future more or less, and what thread x has to release or to destroy.
LEMMA RefsBalance ==
  ASSUME AInv, NEW CONSTANT t \in Tasks, NEW CONSTANT x \in Threads, Others(x), UNCHANGED edgeVars,
         \A e \in Clients \ {x} : t \in Held(e)' <=> t \in Held(e),
         Unlinks(at'[x]) \in Seq(Tasks), at'[x].pending \in Seq(Tasks)
  PROVE  /\ RefsFinite(t)'
         /\ (Futures(t) + Dependents(t) + Unlinkers(t))' =
              Futures(t) + Dependents(t) + Unlinkers(t)
                - (IF x \in Clients /\ t \in Held(x) THEN 1 ELSE 0)
                + (IF x \in Clients /\ t \in Held(x)' THEN 1 ELSE 0)
                - Count(Unlinks(at[x]), t) + Count(Unlinks(at'[x]), t)
         /\ Destroyers(t)' = Destroyers(t) - Count(at[x].pending, t) + Count(at'[x].pending, t)
<1>1. Finite(t) /\ TypeOK /\ Shapes /\ EndsOnce
  BY DEF AInv, Stages
<1>2. Unlinks(at[x]) \in Seq(Tasks) /\ at[x].pending \in Seq(Tasks)
  BY <1>1, EdgesType
<1>3. IsFiniteSet(Places(PredecessorsOf, Tasks, t)') /\ Dependents(t)' = Dependents(t)
  BY <1>1, DependentsSame
<1>4. /\ IsFiniteSet(Places(UnlinksOf, Threads, t)')
      /\ Unlinkers(t)' = Unlinkers(t) - Count(Unlinks(at[x]), t) + Count(Unlinks(at'[x]), t)
  BY <1>1, <1>2, UnlinkersStep
<1>5. /\ IsFiniteSet(Places(PendingOf, Threads, t)')
      /\ Destroyers(t)' = Destroyers(t) - Count(at[x].pending, t) + Count(at'[x].pending, t)
  BY <1>1, <1>2, DestroyersStep
<1>6. /\ IsFiniteSet(Units(FutureOf(t), Clients)')
      /\ Futures(t)' = Futures(t) - (IF x \in Clients /\ t \in Held(x) THEN 1 ELSE 0)
                                  + (IF x \in Clients /\ t \in Held(x)' THEN 1 ELSE 0)
  <2>1. CASE x \in Clients
    BY <1>1, <2>1, FuturesStep
  <2>2. CASE x \notin Clients
    <3>1. \A e \in Clients : t \in Held(e)' <=> t \in Held(e)
      BY <2>2
    <3>2. Futures(t) \in Nat
      BY <1>1, SumsType
    <3>3. IsFiniteSet(Units(FutureOf(t), Clients)') /\ Futures(t)' = Futures(t)
      BY <1>1, <3>1, FuturesSame
    <3> QED BY <2>2, <3>2, <3>3
  <2> QED BY <2>1, <2>2
<1>7. /\ Futures(t) \in Nat /\ Dependents(t) \in Nat /\ Unlinkers(t) \in Nat
      /\ Count(Unlinks(at[x]), t) \in Nat /\ Count(Unlinks(at'[x]), t) \in Nat
  BY <1>1, <1>2, SumsType, CountType
<1>8. RefsFinite(t)'
  BY <1>3, <1>4, <1>5, <1>6 DEF RefsFinite
<1>9. (Futures(t) + Dependents(t) + Unlinkers(t))' =
        Futures(t) + Dependents(t) + Unlinkers(t)
          - (IF x \in Clients /\ t \in Held(x) THEN 1 ELSE 0)
          + (IF x \in Clients /\ t \in Held(x)' THEN 1 ELSE 0)
          - Count(Unlinks(at[x]), t) + Count(Unlinks(at'[x]), t)
  <2> DEFINE before == IF x \in Clients /\ t \in Held(x) THEN 1 ELSE 0
             after == IF x \in Clients /\ t \in Held(x)' THEN 1 ELSE 0
  <2>1. before \in Nat /\ after \in Nat /\ Futures(t)' = Futures(t) - before + after
    BY <1>6
  <2>2. (Futures(t) + Dependents(t) + Unlinkers(t))' =
          Futures(t)' + Dependents(t)' + Unlinkers(t)'
    OBVIOUS
  <2> HIDE DEF before, after
  <2>3. (Futures(t) + Dependents(t) + Unlinkers(t))' =
          Futures(t) + Dependents(t) + Unlinkers(t) - before + after
            - Count(Unlinks(at[x]), t) + Count(Unlinks(at'[x]), t)
    BY <1>3, <1>4, <1>7, <2>1, <2>2, SMTT(30)
  <2> QED BY <2>3 DEF before, after
<1> QED BY <1>5, <1>8, <1>9

\* What the starter owes and what a tear-down has still to reach.
LEMMA ArrivalsBalance ==
  ASSUME AInv, NEW CONSTANT t \in Tasks, NEW CONSTANT x \in Threads, Others(x), UNCHANGED edgeVars,
         UNCHANGED status, StartsFor(at'[x], t) \in Nat, ToReach(x)' \in Seq(Tasks)
  PROVE  /\ ArrivalsFinite(t)'
         /\ Starters(t)' = Starters(t) - StartsFor(at[x], t) + StartsFor(at'[x], t)
         /\ Promises(t)' = Promises(t)
         /\ Reaches(t)' = Reaches(t) - Count(ToReach(x), t) + Count(ToReach(x)', t)
<1>1. Finite(t) /\ TypeOK /\ Shapes /\ EndsOnce
  BY DEF AInv, Stages
<1>2. StartsFor(at[x], t) \in Nat /\ ToReach(x) \in Seq(Tasks)
  BY <1>1, EdgesType
<1>3. \A y \in Threads \ {x} : ToReach(y)' = ToReach(y)
  BY DEF ToReach, Successors, edgeVars, Others
<1>4. \A d \in Tasks : Promised(d)' = Promised(d)
  BY DEF Promised, Successors, edgeVars
<1>5. IsFiniteSet(Places(PromisedOf, Tasks, t)') /\ Promises(t)' = Promises(t)
  BY <1>1, <1>4, PromisesSame
<1>6. /\ IsFiniteSet(Units(StarterOf(t), Threads)')
      /\ Starters(t)' = Starters(t) - StartsFor(at[x], t) + StartsFor(at'[x], t)
  BY <1>1, <1>2, StartersStep
<1>7. /\ IsFiniteSet(Places(ToReachOf, Threads, t)')
      /\ Reaches(t)' = Reaches(t) - Count(ToReach(x), t) + Count(ToReach(x)', t)
  BY <1>1, <1>2, <1>3, ReachesStep
<1> QED BY <1>5, <1>6, <1>7 DEF ArrivalsFinite

\* The cache and the body of thread x.
LEMMA ScheduleBalance ==
  ASSUME AInv, NEW CONSTANT t \in Tasks, NEW CONSTANT x \in Threads, Others(x)
  PROVE  /\ ScheduleFinite(t)'
         /\ Cached(t)' = Cached(t) - Caches(at[x], t) + Caches(at'[x], t)
         /\ InBody(t)' = InBody(t) - Runs(at[x], t) + Runs(at'[x], t)
<1>1. Finite(t)
  BY DEF AInv
<1>2. /\ Caches(at[x], t) \in Nat /\ Caches(at'[x], t) \in Nat
      /\ Runs(at[x], t) \in Nat /\ Runs(at'[x], t) \in Nat
  BY DEF Caches, Runs
<1>3. /\ IsFiniteSet(Units(CacheOf(t), Threads)')
      /\ Cached(t)' = Cached(t) - Caches(at[x], t) + Caches(at'[x], t)
  BY <1>1, <1>2, CachedStep
<1>4. /\ IsFiniteSet(Units(BodyOf(t), Threads)')
      /\ InBody(t)' = InBody(t) - Runs(at[x], t) + Runs(at'[x], t)
  BY <1>1, <1>2, InBodyStep
<1> QED BY <1>3, <1>4 DEF ScheduleFinite

\* A step that moves no reference.
LEMMA RefsFrame ==
  ASSUME AInv, NEW CONSTANT x \in Threads, Others(x), UNCHANGED <<refs, life, edgeVars>>,
         \A e \in Clients : Held(e)' = Held(e),
         Unlinks(at'[x]) = Unlinks(at[x]), at'[x].pending = at[x].pending,
         \A t \in Tasks : Executing(t)' <=> Executing(t)
  PROVE  RefsCounted' /\ \A t \in Tasks : RefsFinite(t)'
<1> SUFFICES ASSUME NEW CONSTANT t \in Tasks
             PROVE  /\ RefsFinite(t)'
                    /\ refs'[t] = Futures(t)' + Dependents(t)' + Unlinkers(t)'
                                    + (IF Executing(t)' THEN 1 ELSE 0)
                    /\ Destroyers(t)' = IF life'[t] = "live" /\ refs'[t] = 0 THEN 1 ELSE 0
  BY DEF RefsCounted
<1>1. /\ Finite(t) /\ TypeOK /\ Shapes /\ EndsOnce
      /\ refs[t] = Futures(t) + Dependents(t) + Unlinkers(t) + (IF Executing(t) THEN 1 ELSE 0)
      /\ Destroyers(t) = IF life[t] = "live" /\ refs[t] = 0 THEN 1 ELSE 0
  BY DEF AInv, Stages, Sums, RefsCounted
<1>2. Unlinks(at[x]) \in Seq(Tasks) /\ at[x].pending \in Seq(Tasks)
  BY <1>1, EdgesType
<1>3. /\ RefsFinite(t)'
      /\ (Futures(t) + Dependents(t) + Unlinkers(t))' =
           Futures(t) + Dependents(t) + Unlinkers(t)
             - (IF x \in Clients /\ t \in Held(x) THEN 1 ELSE 0)
             + (IF x \in Clients /\ t \in Held(x)' THEN 1 ELSE 0)
             - Count(Unlinks(at[x]), t) + Count(Unlinks(at'[x]), t)
      /\ Destroyers(t)' = Destroyers(t) - Count(at[x].pending, t) + Count(at'[x].pending, t)
  BY <1>2, RefsBalance
<1>4. /\ Futures(t) \in Nat /\ Dependents(t) \in Nat /\ Unlinkers(t) \in Nat /\ Destroyers(t) \in Nat
      /\ Count(Unlinks(at[x]), t) \in Nat /\ Count(at[x].pending, t) \in Nat
  BY <1>1, <1>2, SumsType, CountType
<1>5. (x \in Clients /\ t \in Held(x)') <=> (x \in Clients /\ t \in Held(x))
  OBVIOUS
<1>6. /\ (Futures(t) + Dependents(t) + Unlinkers(t))' = Futures(t) + Dependents(t) + Unlinkers(t)
      /\ Destroyers(t)' = Destroyers(t)
  BY <1>3, <1>4, <1>5
<1> QED BY <1>1, <1>3, <1>6

\* A step that moves no arrival.
LEMMA ArrivalsFrame ==
  ASSUME AInv, NEW CONSTANT x \in Threads, Others(x), UNCHANGED <<join, needs, status, edgeVars>>,
         \A t \in Tasks : StartsFor(at'[x], t) = StartsFor(at[x], t),
         ToReach(x)' = ToReach(x)
  PROVE  ArrivalsCounted' /\ \A t \in Tasks : ArrivalsFinite(t)'
<1> SUFFICES ASSUME NEW CONSTANT t \in Tasks
             PROVE  /\ ArrivalsFinite(t)'
                    /\ IF needs'[t] = {}
                       THEN join'[t] = 0 /\ Promises(t)' = 0 /\ Reaches(t)' = 0
                       ELSE join'[t] = Starters(t)' + Promises(t)' + Reaches(t)'
  BY DEF ArrivalsCounted
<1>1. /\ Finite(t) /\ TypeOK /\ Shapes /\ EndsOnce
      /\ IF needs[t] = {} THEN join[t] = 0 /\ Promises(t) = 0 /\ Reaches(t) = 0
         ELSE join[t] = Starters(t) + Promises(t) + Reaches(t)
  BY DEF AInv, Stages, Sums, ArrivalsCounted
<1>2. StartsFor(at[x], t) \in Nat /\ ToReach(x) \in Seq(Tasks)
  BY <1>1, EdgesType
<1>3. /\ ArrivalsFinite(t)'
      /\ Starters(t)' = Starters(t) - StartsFor(at[x], t) + StartsFor(at'[x], t)
      /\ Promises(t)' = Promises(t)
      /\ Reaches(t)' = Reaches(t) - Count(ToReach(x), t) + Count(ToReach(x)', t)
  BY <1>2, ArrivalsBalance
<1>4. Starters(t) \in Nat /\ Reaches(t) \in Nat /\ Count(ToReach(x), t) \in Nat
  BY <1>1, <1>2, SumsType, CountType
<1>5. Starters(t)' = Starters(t) /\ Reaches(t)' = Reaches(t)
  BY <1>2, <1>3, <1>4
<1> QED BY <1>1, <1>3, <1>5

\* A step that schedules nothing and ends no body.
LEMMA ScheduleFrame ==
  ASSUME AInv, NEW CONSTANT x \in Threads, Others(x),
         \A t \in Tasks : /\ queue'[t] + Caches(at'[x], t) + Runs(at'[x], t) =
                               queue[t] + Caches(at[x], t) + Runs(at[x], t)
                          /\ queue'[t] \in Nat
                          /\ (status'[t] = "Running" /\ join'[t] = 0) <=>
                               (status[t] = "Running" /\ join[t] = 0)
                          /\ Starting(at'[x], t) <=> Starting(at[x], t)
  PROVE  ScheduledOnce' /\ \A t \in Tasks : ScheduleFinite(t)'
<1> SUFFICES ASSUME NEW CONSTANT t \in Tasks
             PROVE  /\ ScheduleFinite(t)'
                    /\ queue'[t] + Cached(t)' + InBody(t)' =
                         IF /\ status'[t] = "Running" /\ join'[t] = 0
                            /\ \A y \in Threads : ~Starting(at'[y], t)
                         THEN 1 ELSE 0
  BY DEF ScheduledOnce
<1>1. /\ Finite(t) /\ queue[t] \in Nat
      /\ queue[t] + Cached(t) + InBody(t) =
           IF status[t] = "Running" /\ join[t] = 0 /\ \A y \in Threads : ~Starting(at[y], t)
           THEN 1 ELSE 0
  BY DEF AInv, Sums, ScheduledOnce, TypeOK
<1>2. /\ ScheduleFinite(t)'
      /\ Cached(t)' = Cached(t) - Caches(at[x], t) + Caches(at'[x], t)
      /\ InBody(t)' = InBody(t) - Runs(at[x], t) + Runs(at'[x], t)
  BY ScheduleBalance
<1>3. /\ Cached(t) \in Nat /\ InBody(t) \in Nat
      /\ Caches(at[x], t) \in Nat /\ Caches(at'[x], t) \in Nat
      /\ Runs(at[x], t) \in Nat /\ Runs(at'[x], t) \in Nat
  BY <1>1, SumsType DEF Caches, Runs
<1>4. queue'[t] + Cached(t)' + InBody(t)' = queue[t] + Cached(t) + InBody(t)
  BY <1>1, <1>2, <1>3
<1>5. (\A y \in Threads : ~Starting(at'[y], t)) <=> (\A y \in Threads : ~Starting(at[y], t))
  BY DEF Others
<1> QED BY <1>1, <1>2, <1>4, <1>5

-----------------------------------------------------------------------------
(* Steps of one thread and the parts of the invariant without sums.        *)

\* The record of the thread fits its step.
LEMMA ShapesStep ==
  ASSUME Shapes, NEW CONSTANT x \in Threads, Others(x), Shape(at'[x]),
         x \in Clients => at'[x].pc \notin {"body", "notify", "successors"} /\ at'[x].cache = Nil,
         x \in Workers =>
           at'[x].pc \notin {"blocked", "lock", "prepare", "unlock", "link", "append"}
  PROVE  Shapes'
<1>1. \A y \in Threads : y # x => at'[y] = at[y]
  BY DEF Others
<1>2. Clients \subseteq Threads /\ Workers \subseteq Threads
  BY DEF Threads
<1>3. \A c \in Clients : at'[c].pc \notin {"body", "notify", "successors"} /\ at'[c].cache = Nil
  BY <1>1, <1>2 DEF Shapes
<1>4. \A w \in Workers :
        at'[w].pc \notin {"blocked", "lock", "prepare", "unlock", "link", "append"}
  BY <1>1, <1>2 DEF Shapes
<1>5. \A y \in Threads : Shape(at'[y])
  BY <1>1 DEF Shapes
<1> QED BY <1>3, <1>4, <1>5 DEF Shapes

\* A thread takes locks that are free and gives back its own.
LEMMA LocksStep ==
  ASSUME LocksHeld, NEW CONSTANT x \in Threads, Others(x),
         \A t \in Tasks : /\ Locks(at'[x], t) => locked'[t] /\ (Locks(at[x], t) \/ ~locked[t])
                          /\ locked[t] /\ ~locked'[t] => Locks(at[x], t)
  PROVE  LocksHeld'
<1>1. \A y \in Threads : y # x => at'[y] = at[y]
  BY DEF Others
<1>2. ASSUME NEW y \in Threads, NEW t \in Tasks, Locks(at'[y], t) PROVE locked'[t]
  BY <1>1, <1>2 DEF LocksHeld
<1>3. ASSUME NEW y \in Threads, NEW z \in Threads, NEW t \in Tasks, Locks(at'[y], t), Locks(at'[z], t)
      PROVE  y = z
  BY <1>1, <1>3 DEF LocksHeld
<1> QED BY <1>2, <1>3 DEF LocksHeld

\* A thread starts a task that nobody starts.
LEMMA StartsOnceStep ==
  ASSUME StartsOnce, NEW CONSTANT x \in Threads, Others(x),
         \A t \in Tasks : Starting(at'[x], t) =>
           Starting(at[x], t) \/ \A y \in Threads \ {x} : ~Starting(at[y], t)
  PROVE  StartsOnce'
<1>1. \A y \in Threads : y # x => at'[y] = at[y]
  BY DEF Others
<1>2. ASSUME NEW y \in Threads, NEW z \in Threads, NEW t \in Tasks,
             Starting(at'[y], t), Starting(at'[z], t)
      PROVE  y = z
  BY <1>1, <1>2 DEF StartsOnce
<1> QED BY <1>2 DEF StartsOnce

\* A thread tears down a finished task that nobody else tears down.
LEMMA EndsOnceStep ==
  ASSUME EndsOnce, NEW CONSTANT x \in Threads, Others(x),
         \A t \in Tasks : Ending(at'[x], t) =>
           /\ status'[t] = "Finished"
           /\ Ending(at[x], t) \/ \A y \in Threads \ {x} : ~Ending(at[y], t),
         \A t \in Tasks : status[t] = "Finished" => status'[t] = "Finished",
         \A y \in Threads \ {x} : at[y].pc = "successors" =>
           m_num_successors'[at[y].task] = m_num_successors[at[y].task],
         at'[x].pc = "successors" => at'[x].next \in 1..(m_num_successors'[at'[x].task] + 1)
  PROVE  EndsOnce'
<1>1. \A y \in Threads : y # x => at'[y] = at[y]
  BY DEF Others
<1>2. ASSUME NEW y \in Threads, NEW z \in Threads, NEW t \in Tasks,
             Ending(at'[y], t), Ending(at'[z], t)
      PROVE  y = z
  BY <1>1, <1>2 DEF EndsOnce
<1>3. ASSUME NEW y \in Threads, NEW t \in Tasks, Ending(at'[y], t) PROVE status'[t] = "Finished"
  BY <1>1, <1>3 DEF EndsOnce
<1>4. ASSUME NEW y \in Threads, at'[y].pc = "successors"
      PROVE  at'[y].next \in 1..(m_num_successors'[at'[y].task] + 1)
  <2>1. CASE y = x
    BY <1>4, <2>1
  <2>2. CASE y # x
    BY <1>1, <1>4, <2>2 DEF EndsOnce
  <2> QED BY <2>1, <2>2
<1> QED BY <1>2, <1>3, <1>4 DEF EndsOnce

\* The other clients hold what they held.
LEMMA ClientsFrame ==
  ASSUME ClientsHold, NEW CONSTANT x \in Threads, Others(x), UNCHANGED <<status, needs>>,
         \A e \in Clients \ {x} : handles'[e] = handles[e],
         x \in Clients => ClientHolds(x)'
  PROVE  ClientsHold'
<1> SUFFICES ASSUME NEW CONSTANT e \in Clients, e # x PROVE ClientHolds(e)'
  BY DEF ClientsHold
<1>1. at'[e] = at[e] /\ handles'[e] = handles[e]
  BY DEF Others, Threads
<1> QED BY <1>1 DEF ClientsHold, ClientHolds

\* What is still to be linked or has been linked stays so.
LEMMA LinkedFrame ==
  ASSUME Linked, NEW CONSTANT x \in Threads, Others(x), UNCHANGED <<status, needs, edgeVars>>,
         \A t \in Tasks : Starting(at[x], t) => Starting(at'[x], t) /\ at'[x].todo = at[x].todo
  PROVE  Linked'
<1>1. \A d \in Tasks : Successors(d)' = Successors(d)
  BY DEF Successors, edgeVars
<1>2. \A y \in Threads : y # x => at'[y] = at[y]
  BY DEF Others
<1>3. ASSUME NEW t \in Tasks, status'[t] = "Running", NEW d \in needs'[t]
      PROVE  \/ status'[d] = "Finished"
             \/ \E y \in Threads : Starting(at'[y], t) /\ d \in Range(at'[y].todo)
             \/ Count(Successors(d)', t) >= 1
  <2>1. \/ status[d] = "Finished"
        \/ \E y \in Threads : Starting(at[y], t) /\ d \in Range(at[y].todo)
        \/ Count(Successors(d), t) >= 1
    BY <1>3 DEF Linked
  <2>2. CASE \E y \in Threads : Starting(at[y], t) /\ d \in Range(at[y].todo)
    BY <1>2, <2>2
  <2>3. CASE Count(Successors(d), t) >= 1
    <3>1. Successors(d)' = Successors(d)
      BY DEF Successors, edgeVars
    <3> QED BY <2>3, <3>1
  <2> QED BY <2>1, <2>2, <2>3
<1> QED BY <1>3 DEF Linked, Count

\* The thread neither begins to wait for a finished task nor owes a wake-up.
LEMMA WaiterFrame ==
  ASSUME WaiterNotified, NEW CONSTANT x \in Threads, Others(x), UNCHANGED status,
         at[x].pc # "notify", at'[x].pc = "blocked" => status[at'[x].task] # "Finished"
  PROVE  WaiterNotified'
<1>1. \A y \in Threads : y # x => at'[y] = at[y]
  BY DEF Others
<1> SUFFICES ASSUME NEW c \in Clients, at'[c].pc = "blocked", status'[at'[c].task] = "Finished"
             PROVE  \E w \in Workers : at'[w].pc = "notify" /\ at'[w].task = at'[c].task
  BY DEF WaiterNotified
<1>2. at'[c] = at[c]
  BY <1>1 DEF Threads
<1>3. PICK w \in Workers : at[w].pc = "notify" /\ at[w].task = at[c].task
  BY <1>2 DEF WaiterNotified
<1>4. at'[w] = at[w]
  BY <1>1, <1>3 DEF Threads
<1> QED BY <1>2, <1>3, <1>4

\* Nothing changes for the tasks.
LEMMA StagesFrame ==
  ASSUME TaskStages, UNCHANGED <<status, refs, join, edgeVars, life, needs>>
  PROVE  TaskStages'
<1>1. \A t \in Tasks : Predecessors(t)' = Predecessors(t)
  BY DEF Predecessors, edgeVars
<1>2. \A t \in Tasks : \A d : Count(Predecessors(t), d)' = Count(Predecessors(t)', d)
  BY DEF Count
<1> SUFFICES ASSUME NEW t \in Tasks
             PROVE  /\ status'[t] = "Idle" => m_edges'[t] = <<>> /\ needs'[t] = {}
                    /\ life'[t] = "none" => status'[t] = "Idle"
                    /\ life'[t] # "live" => m_edges'[t] = <<>> /\ refs'[t] = 0
                    /\ life'[t] = "live" => \A d \in Tasks :
                         d \in needs'[t] <=> Count(Predecessors(t)', d) >= 1
                    /\ status'[t] # "Running" => join'[t] = 0
                    /\ \A d \in needs'[t] : status'[d] # "Idle" /\ d # t
  BY <1>2 DEF TaskStages
<1>3. Predecessors(t)' = Predecessors(t)
  BY DEF Predecessors, edgeVars
<1> QED BY <1>3 DEF TaskStages, edgeVars

\* A list of dependencies.
LEMMA DepListsType ==
  ASSUME NEW H \in SUBSET Tasks, NEW D \in DepLists(H)
  PROVE  /\ D \in Seq(Tasks) /\ Range(D) \subseteq H /\ (D = <<>> <=> Range(D) = {})
         /\ Started(D) => \A d \in Range(D) : status[d] # "Idle"
<1>1. PICK n \in 0..MaxDeps : D \in [1..n -> H]
  BY DEF DepLists
<1>2. n \in Nat /\ D \in Seq(H)
  BY <1>1, AsyncAssumption
<1>3. D \in Seq(Tasks) /\ Range(D) \subseteq H
  BY <1>2, SeqMonotonic, RangeOfSeq
<1>4. D = <<>> <=> Range(D) = {}
  <2>1. D # <<>> => Head(D) \in Range(D)
    BY <1>3, RangeOfHeadTail
  <2> QED BY <2>1, RangeOfEmpty
<1>5. Started(D) => \A d \in Range(D) : status[d] # "Idle"
  BY DEF Started, Range
<1> QED BY <1>3, <1>4, <1>5

-----------------------------------------------------------------------------
(* A client goes on without a change to any sum.                           *)

\* A client that only moves on (no future, use, edge or counter changes) keeps AInv.
LEMMA PlainStep ==
  ASSUME AInv, NEW CONSTANT c \in Clients, Others(c),
         UNCHANGED <<status, refs, join, edgeVars, life, handles, queue, needs>>,
         at' \in [Threads -> ThreadStates], locked' \in [Tasks -> BOOLEAN],
         at[c].pc \notin {"destroy", "unlink"},
         at'[c].pc \notin {"destroy", "unlink", "body", "notify", "successors"},
         at'[c].pending = <<>>, at'[c].cache = Nil, Shape(at'[c]),
         Held(c)' = Held(c),
         \A t \in Tasks : Starting(at'[c], t) <=> Starting(at[c], t),
         \A t \in Tasks : Starting(at[c], t) => at'[c].todo = at[c].todo,
         ClientHolds(c)',
         \A t \in Tasks : /\ Locks(at'[c], t) => locked'[t] /\ (Locks(at[c], t) \/ ~locked[t])
                          /\ locked[t] /\ ~locked'[t] => Locks(at[c], t),
         at'[c].pc = "blocked" => status[at'[c].task] # "Finished"
  PROVE  AInv'
<1>1. /\ TypeOK /\ Stages /\ Linked /\ WaiterNotified
      /\ Shapes /\ TaskStages /\ ClientsHold /\ LocksHeld /\ StartsOnce /\ EndsOnce
      /\ c \in Threads /\ c \notin Workers /\ Shape(at[c])
      /\ at[c].pc \notin {"body", "notify", "successors"} /\ at[c].cache = Nil
      /\ at[c].pending = <<>>
  BY AsyncAssumption DEF AInv, Stages, Threads, Shapes, Shape
<1>2. TypeOK'
  BY <1>1 DEF TypeOK, edgeVars
<1>3. Shapes'
  BY <1>1, ShapesStep
<1>4. TaskStages'
  BY <1>1, StagesFrame
<1>5. ClientsHold'
  BY <1>1, ClientsFrame
<1>6. LocksHeld'
  BY <1>1, LocksStep
<1>7. StartsOnce'
  BY <1>1, StartsOnceStep
<1>8. EndsOnce'
  <2>1. \A t : ~Ending(at'[c], t)
    BY DEF Ending
  <2> QED BY <1>1, <2>1, EndsOnceStep DEF edgeVars
<1>9. Linked'
  BY <1>1, LinkedFrame
<1>10. WaiterNotified'
  BY <1>1, WaiterFrame
<1>11. RefsCounted' /\ \A t \in Tasks : RefsFinite(t)'
  <2>1. \A t \in Tasks : Executing(t)' <=> Executing(t)
    <3>1. \A w \in Workers : at'[w] = at[w]
      BY <1>1 DEF Others, Threads
    <3> QED BY <3>1 DEF Executing
  <2>2. \A e \in Clients : Held(e)' = Held(e)
    BY DEF Held, Others, Threads
  <2>3. Unlinks(at'[c]) = Unlinks(at[c])
    BY DEF Unlinks
  <2> QED BY <1>1, <2>1, <2>2, <2>3, RefsFrame
<1>12. ArrivalsCounted' /\ \A t \in Tasks : ArrivalsFinite(t)'
  <2>1. \A t \in Tasks : StartsFor(at'[c], t) = StartsFor(at[c], t)
    BY DEF StartsFor, Starting
  <2>2. ToReach(c)' = ToReach(c)
    BY <1>1 DEF ToReach
  <2> QED BY <1>1, <2>1, <2>2, ArrivalsFrame
<1>13. ScheduledOnce' /\ \A t \in Tasks : ScheduleFinite(t)'
  <2>1. \A t \in Tasks : /\ Caches(at'[c], t) = Caches(at[c], t) /\ Runs(at'[c], t) = Runs(at[c], t)
                         /\ queue'[t] = queue[t] /\ queue[t] \in Nat
    BY <1>1 DEF Caches, Runs, TypeOK
  <2> QED BY <1>1, <2>1, ScheduleFrame
<1> QED BY <1>2, <1>3, <1>4, <1>5, <1>6, <1>7, <1>8, <1>9, <1>10, <1>11, <1>12, <1>13
        DEF AInv, Stages, Sums, Finite

\* A client begins to wait for, or to start, a task of which it has a future.
LEMMA BeginStep ==
  ASSUME AInv, NEW CONSTANT c \in Clients, Wait(c) \/ Start(c)
  PROVE  AInv'
<1>1. /\ TypeOK /\ Shapes /\ at[c] \in ThreadStates /\ at[c].pc = "idle" /\ c \in Threads
      /\ at[c] = Idle /\ Clients \subseteq Threads
  BY DEF AInv, Stages, Shapes, Shape, TypeOK, Threads, Wait, Start
<1>2. CASE Wait(c)
  <2>1. PICK t \in handles[c] : /\ status[t] # "Finished"
                                /\ at' = [at EXCEPT ![c].pc = "blocked", ![c].task = t]
    BY <1>2 DEF Wait
  <2>2. /\ t \in Tasks /\ Others(c) /\ at' \in [Threads -> ThreadStates]
        /\ at'[c] = [Idle EXCEPT !.pc = "blocked", !.task = t]
    BY <1>1, <2>1 DEF TypeOK, ThreadStates, Others
  <2>3. /\ at'[c].pc = "blocked" /\ at'[c].task = t /\ at'[c].todo = <<>>
        /\ at'[c].pending = <<>> /\ at'[c].cache = Nil
    BY <2>2 DEF Idle
  <2>4. Shape(at'[c])
    BY <2>2, <2>3 DEF Shape
  <2>5. Held(c)' = Held(c)
    BY <1>1, <1>2, <2>3 DEF Held, Wait
  <2>6. \A s : ~Starting(at'[c], s) /\ ~Starting(at[c], s) /\ ~Locks(at'[c], s)
    BY <1>1, <2>3 DEF Starting, Locks
  <2>7. ClientHolds(c)'
    BY <1>2, <2>3 DEF ClientHolds, Wait
  <2>8. /\ UNCHANGED <<status, refs, join, edgeVars, life, handles, queue, needs>>
        /\ locked' = locked /\ locked' \in [Tasks -> BOOLEAN]
    BY <1>1, <1>2 DEF Wait, control, TypeOK
  <2> QED BY <1>1, <2>1, <2>2, <2>3, <2>4, <2>5, <2>6, <2>7, <2>8, PlainStep
<1>3. CASE Start(c)
  <2>1. PICK t \in handles[c] : \E D \in DepLists(handles[c] \ {t}) :
          /\ status[t] = "Idle" /\ Started(D)
          /\ at' = [at EXCEPT ![c].pc = "lock", ![c].task = t, ![c].todo = D]
    BY <1>3 DEF Start
  <2>2. PICK D \in DepLists(handles[c] \ {t}) :
          /\ status[t] = "Idle" /\ Started(D)
          /\ at' = [at EXCEPT ![c].pc = "lock", ![c].task = t, ![c].todo = D]
    BY <2>1
  <2>3. /\ t \in Tasks /\ D \in Seq(Tasks) /\ Range(D) \subseteq handles[c] \ {t}
        /\ \A d \in Range(D) : status[d] # "Idle"
    BY <1>1, <2>2, DepListsType DEF TypeOK
  <2>4. /\ Others(c) /\ at' \in [Threads -> ThreadStates]
        /\ at'[c] = [Idle EXCEPT !.pc = "lock", !.task = t, !.todo = D]
    BY <1>1, <2>2, <2>3 DEF TypeOK, ThreadStates, Others
  <2>5. /\ at'[c].pc = "lock" /\ at'[c].task = t /\ at'[c].todo = D
        /\ at'[c].pending = <<>> /\ at'[c].cache = Nil
    BY <2>4 DEF Idle
  <2>6. Shape(at'[c])
    BY <2>3, <2>5 DEF Shape
  <2>7. Held(c)' = Held(c)
    BY <1>1, <1>3, <2>5 DEF Held, Start
  <2>8. \A s : ~Starting(at'[c], s) /\ ~Starting(at[c], s) /\ ~Locks(at'[c], s)
    BY <1>1, <2>5 DEF Starting, Locks
  <2>9. /\ UNCHANGED <<status, refs, join, edgeVars, life, handles, queue, needs>>
        /\ locked' = locked /\ locked' \in [Tasks -> BOOLEAN]
    BY <1>1, <1>3 DEF Start, control, TypeOK
  <2>10. ClientHolds(c)'
    BY <2>3, <2>5, <2>9 DEF ClientHolds
  <2> QED BY <1>1, <2>4, <2>5, <2>6, <2>7, <2>8, <2>9, <2>10, PlainStep
<1> QED BY <1>2, <1>3

\* A client takes the lock of a task to start it, or finds it started; takes
\* the lock of a predecessor; gives back a lock.
LEMMA LockStep ==
  ASSUME AInv, NEW CONSTANT c \in Clients, StartLock(c) \/ StartUnlock(c) \/ LinkLock(c)
  PROVE  AInv'
<1>1. /\ TypeOK /\ Shapes /\ at[c] \in ThreadStates /\ c \in Threads /\ Clients \subseteq Threads
      /\ Shape(at[c]) /\ at[c].cache = Nil /\ ClientHolds(c) /\ LocksHeld
      /\ locked \in [Tasks -> BOOLEAN]
  BY DEF AInv, Stages, Shapes, TypeOK, Threads, ClientsHold
<1>2. at[c].pc \in {"lock", "unlock", "link"} /\ at[c].pending = <<>>
  BY <1>1 DEF StartLock, StartUnlock, LinkLock, Goto, Shape
<1>3. PICK t \in Tasks : t = at[c].task
  BY <1>1, <1>2 DEF Shape
<1>4. UNCHANGED <<status, refs, join, edgeVars, life, handles, queue, needs>>
  BY DEF StartLock, StartUnlock, LinkLock
<1>5. CASE StartLock(c) /\ status[t] # "Idle" /\ at' = [at EXCEPT ![c] = Idle] /\ UNCHANGED locked
  <2>1. at[c].pc = "lock"
    BY <1>5 DEF StartLock
  <2>2. Idle \in ThreadStates
    BY EmptySeq DEF Idle, ThreadStates
  <2>3. at' \in [Threads -> ThreadStates] /\ Others(c) /\ at'[c] = Idle
    BY <1>1, <1>5, <2>2 DEF TypeOK, Others
  <2>4. at'[c].pc = "idle" /\ at'[c].pending = <<>> /\ at'[c].cache = Nil /\ Shape(at'[c])
    BY <2>3 DEF Idle, Shape
  <2>5. Held(c)' = Held(c)
    BY <1>4, <2>1, <2>4 DEF Held
  <2>6. \A s : ~Starting(at'[c], s) /\ ~Starting(at[c], s) /\ ~Locks(at'[c], s)
    BY <2>1, <2>4 DEF Starting, Locks
  <2>7. ClientHolds(c)'
    BY <2>4 DEF ClientHolds
  <2> QED BY <1>1, <1>4, <1>5, <2>1, <2>3, <2>4, <2>5, <2>6, <2>7, PlainStep
<1>6. ASSUME NEW pc \in {"prepare", "link", "append"}, at' = [at EXCEPT ![c].pc = pc]
      PROVE  /\ at' \in [Threads -> ThreadStates] /\ Others(c)
             /\ at'[c].pc = pc /\ at'[c].task = t /\ at'[c].todo = at[c].todo
             /\ at'[c].pending = <<>> /\ at'[c].cache = Nil
             /\ (pc = "append" => at[c].todo # <<>>) => Shape(at'[c])
  <2>1. at' \in [Threads -> ThreadStates] /\ Others(c)
    BY <1>1, <1>6 DEF TypeOK, ThreadStates, Others
  <2>2. /\ at'[c].pc = pc /\ at'[c].task = t /\ at'[c].todo = at[c].todo
        /\ at'[c].pending = <<>> /\ at'[c].cache = Nil
    BY <1>1, <1>2, <1>3, <1>6 DEF TypeOK, ThreadStates
  <2>3. ASSUME pc = "append" => at[c].todo # <<>> PROVE Shape(at'[c])
    BY <2>2, <2>3 DEF Shape
  <2> QED BY <2>1, <2>2, <2>3
<1>7. CASE /\ StartLock(c) /\ status[t] = "Idle" /\ ~locked[t]
           /\ locked' = [locked EXCEPT ![t] = TRUE] /\ at' = [at EXCEPT ![c].pc = "prepare"]
  <2>1. at[c].pc = "lock"
    BY <1>7 DEF StartLock
  <2>2. /\ at' \in [Threads -> ThreadStates] /\ Others(c)
        /\ at'[c].pc = "prepare" /\ at'[c].task = t /\ at'[c].todo = at[c].todo
        /\ at'[c].pending = <<>> /\ at'[c].cache = Nil /\ Shape(at'[c])
    BY <1>6, <1>7
  <2>3. Held(c)' = Held(c)
    BY <1>4, <2>1, <2>2 DEF Held
  <2>4. \A s : ~Starting(at'[c], s) /\ ~Starting(at[c], s) /\ (Locks(at'[c], s) => s = t)
    BY <2>1, <2>2 DEF Starting, Locks
  <2>5. \A s \in Tasks : locked'[s] <=> locked[s] \/ s = t
    BY <1>1, <1>7
  <2>6. locked' \in [Tasks -> BOOLEAN]
    BY <1>1, <1>7
  <2>7. ClientHolds(c)'
    BY <1>1, <1>3, <1>4, <1>7, <2>1, <2>2 DEF ClientHolds
  <2> QED BY <1>1, <1>4, <1>7, <2>1, <2>2, <2>3, <2>4, <2>5, <2>6, <2>7, PlainStep
<1>8. CASE StartUnlock(c)
  <2>1. /\ at[c].pc = "unlock" /\ at' = [at EXCEPT ![c].pc = "link"]
        /\ locked' = [locked EXCEPT ![t] = FALSE]
    BY <1>3, <1>8 DEF StartUnlock, Goto
  <2>2. /\ at' \in [Threads -> ThreadStates] /\ Others(c)
        /\ at'[c].pc = "link" /\ at'[c].task = t /\ at'[c].todo = at[c].todo
        /\ at'[c].pending = <<>> /\ at'[c].cache = Nil /\ Shape(at'[c])
    BY <1>6, <2>1
  <2>3. Held(c)' = Held(c)
    BY <1>1, <1>3, <1>4, <2>1, <2>2 DEF Held, ClientHolds
  <2>4. \A s : (Starting(at'[c], s) <=> Starting(at[c], s)) /\ ~Locks(at'[c], s)
    BY <1>3, <2>1, <2>2 DEF Starting, Locks
  <2>5. Locks(at[c], t) /\ locked' \in [Tasks -> BOOLEAN] /\ \A s \in Tasks : s # t => locked'[s] = locked[s]
    BY <1>1, <1>3, <2>1 DEF Locks
  <2>6. ClientHolds(c)'
    BY <1>1, <1>3, <1>4, <2>1, <2>2 DEF ClientHolds
  <2> QED BY <1>1, <1>4, <2>1, <2>2, <2>3, <2>4, <2>5, <2>6, PlainStep
<1>9. CASE LinkLock(c)
  <2>1. PICK d \in Tasks : d = Head(at[c].todo)
    BY <1>1, <1>9, HeadTailProperties DEF LinkLock, ThreadStates
  <2>2. /\ at[c].pc = "link" /\ at' = [at EXCEPT ![c].pc = "append"] /\ at[c].todo # <<>>
        /\ status[d] # "Finished" /\ ~locked[d] /\ locked' = [locked EXCEPT ![d] = TRUE]
    BY <1>9, <2>1 DEF LinkLock, Goto
  <2>3. /\ at' \in [Threads -> ThreadStates] /\ Others(c)
        /\ at'[c].pc = "append" /\ at'[c].task = t /\ at'[c].todo = at[c].todo
        /\ at'[c].pending = <<>> /\ at'[c].cache = Nil /\ Shape(at'[c])
    BY <1>6, <2>2
  <2>4. Held(c)' = Held(c)
    BY <1>3, <1>4, <2>2, <2>3 DEF Held
  <2>5. \A s : (Starting(at'[c], s) <=> Starting(at[c], s)) /\ (Locks(at'[c], s) => s = d)
    BY <1>3, <2>1, <2>2, <2>3 DEF Starting, Locks
  <2>6. locked' \in [Tasks -> BOOLEAN] /\ \A s \in Tasks : locked'[s] <=> locked[s] \/ s = d
    BY <1>1, <2>2
  <2>7. status[d] = "Running"
    <3>1. d \in needs[t] /\ TaskStages
      BY <1>1, <1>3, <2>1, <2>2, RangeOfHeadTail DEF ClientHolds, ThreadStates, AInv, Stages
    <3> QED BY <1>1, <2>2, <3>1 DEF TaskStages, TypeOK
  <2>8. ClientHolds(c)'
    BY <1>1, <1>3, <1>4, <2>1, <2>2, <2>3, <2>7 DEF ClientHolds
  <2> QED BY <1>1, <1>4, <2>2, <2>3, <2>4, <2>5, <2>6, <2>8, PlainStep
<1>10. StartLock(c) =>
         \/ status[t] # "Idle" /\ at' = [at EXCEPT ![c] = Idle] /\ UNCHANGED locked
         \/ /\ status[t] = "Idle" /\ ~locked[t]
            /\ locked' = [locked EXCEPT ![t] = TRUE] /\ at' = [at EXCEPT ![c].pc = "prepare"]
  BY <1>3 DEF StartLock, Goto
<1> QED BY <1>5, <1>7, <1>8, <1>9, <1>10

-----------------------------------------------------------------------------
(* Steps that give back references and destroy tasks.                      *)

\* Thread x goes on to release these predecessors and to destroy these tasks,
\* or returns, a worker to the task in its cache.
LEMMA DestroyingDoes ==
  ASSUME AInv, NEW CONSTANT x \in Threads,
         NEW todo \in Seq(Tasks), NEW pending \in Seq(Tasks), Destroying(x, todo, pending)
  PROVE  /\ at' \in [Threads -> ThreadStates] /\ Others(x) /\ Shape(at'[x])
         /\ at'[x].pc \in {"idle", "body", "destroy", "unlink"}
         /\ x \in Clients => at'[x].pc # "body" /\ at'[x].cache = Nil
         /\ Unlinks(at'[x]) = todo /\ at'[x].pending = pending
         /\ \A t \in Tasks : Caches(at'[x], t) + Runs(at'[x], t) = Caches(at[x], t)
<1> DEFINE stage == IF todo # <<>> THEN "unlink" ELSE "destroy"
           r == IF todo = <<>> /\ pending = <<>> THEN Resumed(at[x].cache)
                ELSE [Idle EXCEPT !.pc = stage, !.todo = todo, !.pending = pending,
                                  !.cache = at[x].cache]
<1>1. /\ TypeOK /\ at \in [Threads -> ThreadStates] /\ at[x].cache \in Tasks \cup {Nil}
      /\ x \in Clients => at[x].cache = Nil
      /\ Nil \notin Tasks /\ <<>> \in Seq(Tasks)
  BY EmptySeq, AsyncAssumption DEF AInv, Stages, Shapes, TypeOK, ThreadStates
<1>2. at' = [at EXCEPT ![x] = r]
  BY DEF Destroying
<1>3. CASE todo = <<>> /\ pending = <<>> /\ at[x].cache = Nil
  <2>1. r = Idle
    BY <1>3 DEF Resumed
  <2>2. Idle \in ThreadStates /\ Idle.pc = "idle" /\ Idle.todo = <<>> /\ Idle.pending = <<>> /\ Idle.cache = Nil
    BY <1>1 DEF Idle, ThreadStates
  <2>3. at'[x] = Idle /\ at' \in [Threads -> ThreadStates] /\ Others(x)
    BY <1>1, <1>2, <2>1, <2>2 DEF Others
  <2>4. Shape(at'[x]) /\ Unlinks(at'[x]) = <<>>
    BY <2>2, <2>3 DEF Shape, Unlinks
  <2>5. \A t \in Tasks : Caches(at'[x], t) = 0 /\ Runs(at'[x], t) = 0 /\ Caches(at[x], t) = 0
    BY <1>1, <1>3, <2>2, <2>3 DEF Caches, Runs
  <2> QED BY <1>3, <2>2, <2>3, <2>4, <2>5
<1>4. CASE todo = <<>> /\ pending = <<>> /\ at[x].cache # Nil
  <2>1. PICK u \in Tasks : u = at[x].cache
    BY <1>1, <1>4
  <2>2. r = [Idle EXCEPT !.pc = "body", !.task = u]
    BY <1>4, <2>1 DEF Resumed
  <2> HIDE DEF r
  <2>3. /\ r \in ThreadStates /\ r.pc = "body" /\ r.task = u
        /\ r.todo = <<>> /\ r.pending = <<>> /\ r.cache = Nil
    BY <1>1, <2>2 DEF Idle, ThreadStates
  <2>4. at'[x] = r /\ at' \in [Threads -> ThreadStates] /\ Others(x)
    BY <1>1, <1>2, <2>3 DEF Others
  <2>5. Shape(at'[x]) /\ Unlinks(at'[x]) = <<>>
    BY <2>3, <2>4 DEF Shape, Unlinks
  <2>6. \A t \in Tasks : /\ Caches(at'[x], t) = 0
                         /\ Runs(at'[x], t) = IF u = t THEN 1 ELSE 0
                         /\ Caches(at[x], t) = IF u = t THEN 1 ELSE 0
    BY <1>1, <2>1, <2>3, <2>4 DEF Caches, Runs
  <2> QED BY <1>1, <1>4, <2>3, <2>4, <2>5, <2>6
<1>5. CASE ~(todo = <<>> /\ pending = <<>>)
  <2>1. /\ r \in ThreadStates /\ r.pc = stage /\ r.todo = todo /\ r.pending = pending
        /\ r.cache = at[x].cache
    BY <1>1, <1>5 DEF Idle, ThreadStates
  <2>2. /\ r.pc \in {"destroy", "unlink"}
        /\ r.pc = "unlink" <=> r.todo # <<>>
        /\ r.pc = "destroy" => r.pending # <<>>
    BY <1>5, <2>1
  <2> HIDE DEF r, stage
  <2>3. at'[x] = r /\ at' \in [Threads -> ThreadStates] /\ Others(x)
    BY <1>1, <1>2, <2>1 DEF Others
  <2>4. Shape(at'[x]) /\ Unlinks(at'[x]) = todo
    BY <2>1, <2>2, <2>3 DEF Shape, Unlinks
  <2>5. \A t \in Tasks : Caches(at'[x], t) = Caches(at[x], t) /\ Runs(at'[x], t) = 0
                         /\ Caches(at[x], t) \in Nat
    BY <2>1, <2>2, <2>3 DEF Caches, Runs
  <2> QED BY <1>1, <2>1, <2>2, <2>3, <2>4, <2>5
<1> QED BY <1>3, <1>4, <1>5

\* Such a step leaves the rest of the invariant as it is.
LEMMA ReleaseFrame ==
  ASSUME AInv, NEW CONSTANT x \in Threads,
         NEW todo \in Seq(Tasks), NEW pending \in Seq(Tasks), Destroying(x, todo, pending),
         UNCHANGED <<status, locked, join, edgeVars, life, queue, needs>>,
         \A e \in Clients \ {x} : handles'[e] = handles[e],
         at[x].pc \in {"idle", "successors", "destroy", "unlink"}, ToReach(x) = <<>>
  PROVE  /\ Shapes' /\ ClientsHold' /\ LocksHeld' /\ StartsOnce' /\ EndsOnce'
         /\ ArrivalsCounted' /\ ScheduledOnce' /\ Linked' /\ WaiterNotified'
         /\ \A t \in Tasks : ArrivalsFinite(t)' /\ ScheduleFinite(t)'
         /\ \A t \in Tasks : (Executing(t)' <=> Executing(t)) \/ Ending(at[x], t)
<1>1. /\ TypeOK /\ Shapes /\ ClientsHold /\ LocksHeld /\ StartsOnce /\ EndsOnce /\ Linked
      /\ WaiterNotified
  BY DEF AInv, Stages
<1>2. /\ at' \in [Threads -> ThreadStates] /\ Others(x) /\ Shape(at'[x])
      /\ at'[x].pc \in {"idle", "body", "destroy", "unlink"}
      /\ x \in Clients => at'[x].pc # "body" /\ at'[x].cache = Nil
      /\ \A t \in Tasks : Caches(at'[x], t) + Runs(at'[x], t) = Caches(at[x], t)
  BY DestroyingDoes
<1>3. \A t : /\ ~Starting(at'[x], t) /\ ~Starting(at[x], t) /\ ~Ending(at'[x], t)
             /\ ~Locks(at'[x], t) /\ ~Locks(at[x], t)
  BY <1>2 DEF Starting, Ending, Locks
<1>4. Shapes'
  BY <1>1, <1>2, ShapesStep
<1>5. ClientsHold'
  <2>1. x \in Clients => ClientHolds(x)'
    BY <1>2 DEF ClientHolds
  <2> QED BY <1>1, <1>2, <2>1, ClientsFrame
<1>6. LocksHeld'
  BY <1>1, <1>2, <1>3, LocksStep
<1>7. StartsOnce'
  BY <1>1, <1>2, <1>3, StartsOnceStep
<1>8. EndsOnce'
  BY <1>1, <1>2, <1>3, EndsOnceStep DEF edgeVars
<1>9. Linked'
  BY <1>1, <1>2, <1>3, LinkedFrame
<1>10. WaiterNotified'
  BY <1>1, <1>2, WaiterFrame
<1>11. ArrivalsCounted' /\ \A t \in Tasks : ArrivalsFinite(t)'
  <2>1. \A t \in Tasks : StartsFor(at'[x], t) = StartsFor(at[x], t)
    BY <1>2 DEF StartsFor
  <2>2. ToReach(x)' = ToReach(x)
    BY <1>2 DEF ToReach
  <2> QED BY <1>2, <2>1, <2>2, ArrivalsFrame
<1>12. ScheduledOnce' /\ \A t \in Tasks : ScheduleFinite(t)'
  <2>1. \A t \in Tasks : /\ Runs(at[x], t) = 0 /\ Caches(at[x], t) \in Nat
                         /\ Caches(at'[x], t) \in Nat /\ Runs(at'[x], t) \in Nat
                         /\ queue'[t] = queue[t] /\ queue[t] \in Nat
    BY <1>1 DEF Runs, Caches, TypeOK
  <2>2. ASSUME NEW t \in Tasks
        PROVE  queue'[t] + Caches(at'[x], t) + Runs(at'[x], t) =
                 queue[t] + Caches(at[x], t) + Runs(at[x], t)
    <3>1. /\ Runs(at[x], t) = 0 /\ Caches(at[x], t) \in Nat
          /\ Caches(at'[x], t) \in Nat /\ Runs(at'[x], t) \in Nat
          /\ queue'[t] = queue[t] /\ queue[t] \in Nat
      BY <2>1
    <3>2. Caches(at'[x], t) + Runs(at'[x], t) = Caches(at[x], t)
      BY <1>2
    <3> QED BY <3>1, <3>2
  <2> QED BY <1>2, <1>3, <2>1, <2>2, ScheduleFrame
<1>13. ASSUME NEW t \in Tasks, ~Ending(at[x], t) PROVE Executing(t)' <=> Executing(t)
  <2>1. \A w \in Workers : Ending(at'[w], t) <=> Ending(at[w], t)
    BY <1>2, <1>3, <1>13 DEF Others, Threads
  <2> QED BY <2>1 DEF Executing, Ending
<1> QED BY <1>4, <1>5, <1>6, <1>7, <1>8, <1>9, <1>10, <1>11, <1>12, <1>13

\* What thread x and the execution of task s have of the references to it.
References(x, s) ==
  (IF x \in Clients /\ s \in Held(x) THEN 1 ELSE 0) + Count(Unlinks(at[x]), s)
    + (IF Executing(s) THEN 1 ELSE 0)

\* Thread x gives back one reference of task t: a future, the reference of
\* the execution, or that of a task that depended on it.
LEMMA ReleaseStep ==
  ASSUME AInv, NEW CONSTANT x \in Threads, NEW CONSTANT t \in Tasks,
         NEW todo \in Seq(Tasks), NEW pending \in Seq(Tasks), Destroying(x, todo, pending),
         UNCHANGED <<status, locked, join, edgeVars, life, queue, needs>>,
         handles' \in [Clients -> SUBSET Tasks],
         \A e \in Clients \ {x} : handles'[e] = handles[e],
         at[x].pc \in {"idle", "successors", "destroy", "unlink"}, ToReach(x) = <<>>,
         refs[t] >= 1, refs' = [refs EXCEPT ![t] = @ - 1],
         \A s \in Tasks : Count(pending, s) =
                            Count(at[x].pending, s) + IF s = t /\ refs[t] = 1 THEN 1 ELSE 0,
         \A s \in Tasks : References(x, s) = References(x, s)' + IF s = t THEN 1 ELSE 0
  PROVE  AInv'
<1>1. /\ TypeOK /\ Stages /\ Sums /\ TaskStages /\ Shapes /\ EndsOnce
      /\ RefsCounted /\ \A s \in Tasks : Finite(s)
  BY DEF AInv, Stages, Sums
<1>2. /\ Shapes' /\ ClientsHold' /\ LocksHeld' /\ StartsOnce' /\ EndsOnce'
      /\ ArrivalsCounted' /\ ScheduledOnce' /\ Linked' /\ WaiterNotified'
      /\ \A s \in Tasks : ArrivalsFinite(s)' /\ ScheduleFinite(s)'
  BY ReleaseFrame
<1>3. /\ at' \in [Threads -> ThreadStates] /\ Others(x)
      /\ Unlinks(at'[x]) = todo /\ at'[x].pending = pending
  BY DestroyingDoes
<1>4. /\ refs \in [Tasks -> Nat] /\ refs' \in [Tasks -> Nat]
      /\ \A s \in Tasks : refs'[s] = IF s = t THEN refs[t] - 1 ELSE refs[s]
      /\ life[t] = "live"
  <2>1. refs \in [Tasks -> Nat] /\ refs[t] - 1 \in Nat
    BY <1>1 DEF TypeOK
  <2>2. life[t] = "live"
    BY Referred
  <2> QED BY <2>1, <2>2
<1>5. TypeOK'
  BY <1>1, <1>3, <1>4 DEF TypeOK, edgeVars
<1>6. TaskStages'
  <2>1. \A s \in Tasks : Predecessors(s)' = Predecessors(s)
    BY DEF Predecessors, edgeVars
  <2> SUFFICES ASSUME NEW s \in Tasks
               PROVE  /\ status'[s] = "Idle" => m_edges'[s] = <<>> /\ needs'[s] = {}
                      /\ life'[s] = "none" => status'[s] = "Idle"
                      /\ life'[s] # "live" => m_edges'[s] = <<>> /\ refs'[s] = 0
                      /\ life'[s] = "live" => \A d \in Tasks :
                           d \in needs'[s] <=> Count(Predecessors(s)', d) >= 1
                      /\ status'[s] # "Running" => join'[s] = 0
                      /\ \A d \in needs'[s] : status'[d] # "Idle" /\ d # s
    BY DEF TaskStages, Count
  <2>2. Predecessors(s)' = Predecessors(s)
    BY <2>1
  <2> QED BY <1>1, <1>4, <2>2 DEF TaskStages, edgeVars
<1>7. ASSUME NEW CONSTANT s \in Tasks
      PROVE  /\ RefsFinite(s)'
             /\ refs'[s] = Futures(s)' + Dependents(s)' + Unlinkers(s)'
                             + (IF Executing(s)' THEN 1 ELSE 0)
             /\ Destroyers(s)' = IF life'[s] = "live" /\ refs'[s] = 0 THEN 1 ELSE 0
  <2>1. \A e \in Clients \ {x} : Held(e)' = Held(e)
    BY <1>3 DEF Held, Others, Threads
  <2>2. /\ RefsFinite(s)'
        /\ (Futures(s) + Dependents(s) + Unlinkers(s))' =
             Futures(s) + Dependents(s) + Unlinkers(s)
               - (IF x \in Clients /\ s \in Held(x) THEN 1 ELSE 0)
               + (IF x \in Clients /\ s \in Held(x)' THEN 1 ELSE 0)
               - Count(Unlinks(at[x]), s) + Count(Unlinks(at'[x]), s)
        /\ Destroyers(s)' = Destroyers(s) - Count(at[x].pending, s) + Count(at'[x].pending, s)
    BY <1>3, <2>1, RefsBalance
  <2>3. (Futures(s) + Dependents(s) + Unlinkers(s))' = Futures(s)' + Dependents(s)' + Unlinkers(s)'
    OBVIOUS
  <2>4. /\ Futures(s) \in Nat /\ Dependents(s) \in Nat /\ Unlinkers(s) \in Nat /\ Destroyers(s) \in Nat
    BY <1>1, SumsType
  <2>5. /\ refs[s] = Futures(s) + Dependents(s) + Unlinkers(s) + (IF Executing(s) THEN 1 ELSE 0)
        /\ Destroyers(s) = IF life[s] = "live" /\ refs[s] = 0 THEN 1 ELSE 0
    BY <1>1 DEF RefsCounted
  <2>6. /\ Count(Unlinks(at[x]), s) \in Nat /\ Count(todo, s) \in Nat
        /\ Count(at[x].pending, s) \in Nat /\ Count(pending, s) \in Nat
    BY <1>1, EdgesType, CountType
  <2> DEFINE h0 == IF x \in Clients /\ s \in Held(x) THEN 1 ELSE 0
             h1 == IF x \in Clients /\ s \in Held(x)' THEN 1 ELSE 0
             e0 == IF Executing(s) THEN 1 ELSE 0
             e1 == IF Executing(s)' THEN 1 ELSE 0
             one == IF s = t THEN 1 ELSE 0
             all == Futures(s) + Dependents(s) + Unlinkers(s)
             all1 == Futures(s)' + Dependents(s)' + Unlinkers(s)'
  <2>7. /\ h0 \in Nat /\ h1 \in Nat /\ e0 \in Nat /\ e1 \in Nat /\ one \in Nat /\ all \in Nat
    BY <2>4
  <2>8. /\ all1 = all - h0 + h1 - Count(Unlinks(at[x]), s) + Count(todo, s)
        /\ refs[s] = all + e0
        /\ h0 + Count(Unlinks(at[x]), s) + e0 = h1 + Count(todo, s) + e1 + one
        /\ refs'[s] = refs[s] - one
    <3>1. refs'[s] = refs[s] - one
      BY <1>4
    <3>2. h0 + Count(Unlinks(at[x]), s) + e0 = h1 + Count(todo, s) + e1 + one
      <4>1. References(x, s) = References(x, s)' + one
        OBVIOUS
      <4>2. References(x, s) = h0 + Count(Unlinks(at[x]), s) + e0
        BY DEF References
      <4>3. References(x, s)' = h1 + Count(todo, s) + e1
        BY <1>3 DEF References, Count
      <4> HIDE DEF h0, h1, e0, e1, one
      <4> QED BY <2>6, <2>7, <4>1, <4>2, <4>3
    <3>3. all1 = all - h0 + h1 - Count(Unlinks(at[x]), s) + Count(todo, s)
      <4>1. (Futures(s) + Dependents(s) + Unlinkers(s))' =
              all - h0 + h1 - Count(Unlinks(at[x]), s) + Count(Unlinks(at'[x]), s)
        <5>1. (Futures(s) + Dependents(s) + Unlinkers(s))' =
                Futures(s) + Dependents(s) + Unlinkers(s) - h0 + h1
                  - Count(Unlinks(at[x]), s) + Count(Unlinks(at'[x]), s)
          BY <2>2
        <5>2. Count(Unlinks(at'[x]), s) \in Nat
          BY <1>3, <2>6
        <5> DEFINE f == Futures(s)
                   g == Dependents(s)
                   u == Unlinkers(s)
                   c0 == Count(Unlinks(at[x]), s)
                   c1 == Count(Unlinks(at'[x]), s)
        <5>3. /\ f \in Nat /\ g \in Nat /\ u \in Nat /\ c0 \in Nat /\ c1 \in Nat
              /\ h0 \in Nat /\ h1 \in Nat
          BY <2>4, <2>6, <2>7, <5>2
        <5> HIDE DEF h0, h1, f, g, u, c0, c1
        <5>4. f + g + u - h0 + h1 - c0 + c1 = (f + g + u) - h0 + h1 - c0 + c1
          BY <5>3
        <5> QED BY <5>1, <5>4 DEF f, g, u, c0, c1
      <4>2. Count(Unlinks(at'[x]), s) = Count(todo, s)
        BY <1>3
      <4> HIDE DEF h0, h1, all
      <4> QED BY <2>3, <4>1, <4>2
    <3> QED BY <2>5, <3>1, <3>2, <3>3
  <2>9. refs'[s] = all1 + e1
    <3> DEFINE c0 == Count(Unlinks(at[x]), s)
               c1 == Count(todo, s)
               r0 == refs[s]
               r1 == refs'[s]
    <3>1. /\ c0 \in Nat /\ c1 \in Nat /\ r0 = all + e0 /\ r1 = r0 - one
          /\ h0 + c0 + e0 = h1 + c1 + e1 + one
          /\ all1 = all - h0 + h1 - c0 + c1
      BY <2>6, <2>8
    <3> HIDE DEF h0, h1, e0, e1, one, all, all1, c0, c1, r0, r1
    <3>2. r1 = all + (e0 - one)
      BY <2>7, <3>1
    <3>3. e0 - one = (h1 - h0) + (c1 - c0) + e1
      BY <2>7, <3>1
    <3> DEFINE d == (h1 - h0) + (c1 - c0)
    <3>4. all1 = all + d /\ d \in Int /\ e0 - one = d + e1
      BY <2>7, <3>1, <3>3
    <3> HIDE DEF d
    <3>5. r1 = all1 + e1
      BY <2>7, <3>2, <3>4
    <3> QED BY <3>5 DEF r1
  <2>10. Destroyers(s)' = IF life'[s] = "live" /\ refs'[s] = 0 THEN 1 ELSE 0
    <3>1. Destroyers(s)' = Destroyers(s) + IF s = t /\ refs[t] = 1 THEN 1 ELSE 0
      <4>1. Count(pending, s) = Count(at[x].pending, s) + IF s = t /\ refs[t] = 1 THEN 1 ELSE 0
        OBVIOUS
      <4>2. Destroyers(s)' = Destroyers(s) - Count(at[x].pending, s) + Count(pending, s)
        BY <1>3, <2>2
      <4> QED BY <2>4, <2>6, <4>1, <4>2
    <3>2. CASE s = t
      BY <1>4, <2>4, <2>5, <3>1, <3>2
    <3>3. CASE s # t
      BY <1>4, <2>4, <2>5, <3>1, <3>3
    <3> QED BY <3>2, <3>3
  <2> QED BY <2>2, <2>9, <2>10
<1>8. RefsCounted'
  BY <1>7 DEF RefsCounted
<1> QED BY <1>2, <1>5, <1>6, <1>7, <1>8 DEF AInv, Stages, Sums, Finite

\* A client gives up a future.
LEMMA DropStep ==
  ASSUME AInv, NEW CONSTANT c \in Clients, Drop(c)
  PROVE  AInv'
<1>1. /\ TypeOK /\ Shapes /\ at[c] \in ThreadStates /\ at[c].pc = "idle" /\ c \in Threads
      /\ at[c] = Idle /\ Clients \subseteq Threads
  BY DEF AInv, Stages, Shapes, Shape, TypeOK, Threads, Drop
<1>2. /\ \E t \in handles[c] : handles' = [handles EXCEPT ![c] = @ \ {t}] /\ Release(c, t)
      /\ UNCHANGED <<status, locked, join, edgeVars, life, queue, needs>>
  BY DEF Drop
<1>3. \E t \in Tasks : t \in handles[c] /\ handles' = [handles EXCEPT ![c] = @ \ {t}] /\ Release(c, t)
  BY <1>1, <1>2 DEF TypeOK
<1>4. SUFFICES ASSUME NEW CONSTANT t \in Tasks, t \in handles[c],
                      handles' = [handles EXCEPT ![c] = @ \ {t}], Release(c, t)
               PROVE  AInv'
  BY <1>3
<1> DEFINE pending == IF refs[t] = 1 THEN <<t>> ELSE <<>>
<1>5. /\ pending \in Seq(Tasks) /\ <<>> \in Seq(Tasks)
      /\ Destroying(c, <<>>, pending) /\ refs' = [refs EXCEPT ![t] = @ - 1]
  BY <1>4, EmptySeq DEF Release
<1>6. ToReach(c) = <<>> /\ at[c].pending = <<>> /\ Unlinks(at[c]) = <<>>
  BY <1>1 DEF ToReach, Idle, Unlinks
<1>7. Held(c) = handles[c] /\ refs[t] >= 1
  <2>1. Held(c) = handles[c]
    BY <1>1 DEF Held
  <2> QED BY <1>4, <2>1, Referred
<1>8. \A s \in Tasks : Count(pending, s) =
                         Count(at[c].pending, s) + IF s = t /\ refs[t] = 1 THEN 1 ELSE 0
  <2>1. \A s : Count(<<t>>, s) = (IF t = s THEN 1 ELSE 0) /\ Count(<<>>, s) = 0
    BY IndicesOfSingleton, CountEmpty DEF Count
  <2> QED BY <1>6, <2>1
<1> HIDE DEF pending
<1>9. /\ handles' \in [Clients -> SUBSET Tasks]
      /\ \A e \in Clients \ {c} : handles'[e] = handles[e]
      /\ handles'[c] = handles[c] \ {t}
  BY <1>1, <1>4 DEF TypeOK
<1>10. Held(c)' = handles[c] \ {t}
  <2>1. at'[c].pc \in {"idle", "body", "destroy", "unlink"}
    BY <1>1, <1>5, DestroyingDoes
  <2> QED BY <1>9, <2>1 DEF Held
<1>11. ASSUME NEW s \in Tasks PROVE Executing(s)' <=> Executing(s)
  <2>1. ~Ending(at[c], s)
    BY <1>1 DEF Ending
  <2> QED BY <1>1, <1>2, <1>5, <1>6, <1>9, <2>1, ReleaseFrame
<1>12. ASSUME NEW CONSTANT s \in Tasks
       PROVE  References(c, s) = References(c, s)' + IF s = t THEN 1 ELSE 0
  <2>1. Unlinks(at'[c]) = <<>>
    BY <1>1, <1>5, DestroyingDoes
  <2>2. /\ References(c, s) = (IF s \in handles[c] THEN 1 ELSE 0) + 0 + (IF Executing(s) THEN 1 ELSE 0)
        /\ References(c, s)' = (IF s \in handles[c] /\ s # t THEN 1 ELSE 0) + 0
                                  + (IF Executing(s)' THEN 1 ELSE 0)
    <3>1. Count(Unlinks(at[c]), s) = 0 /\ Count(Unlinks(at[c]), s)' = 0
      BY <1>6, <2>1, CountEmpty DEF Count
    <3>2. s \in Held(c)' <=> s \in handles[c] /\ s # t
      BY <1>10
    <3>3. s \in Held(c) <=> s \in handles[c]
      BY <1>7
    <3> QED BY <3>1, <3>2, <3>3 DEF References
  <2>3. CASE s = t
    BY <1>4, <1>11, <2>2, <2>3
  <2>4. CASE s # t
    BY <1>11, <2>2, <2>4
  <2> QED BY <2>3, <2>4
<1> QED BY <1>1, <1>2, <1>5, <1>6, <1>7, <1>8, <1>9, <1>12, ReleaseStep, ZenonT(60)

\* A worker gives back the reference of the execution.
LEMMA ReleaseExecutionStep ==
  ASSUME AInv, NEW CONSTANT w \in Workers, ReleaseExecution(w)
  PROVE  AInv'
<1>1. /\ TypeOK /\ Shapes /\ EndsOnce /\ at[w] \in ThreadStates /\ at[w].pc = "successors"
      /\ w \in Threads /\ w \notin Clients /\ at[w].task \in Tasks /\ at[w].pending = <<>>
      /\ at[w].next > m_num_successors[at[w].task] /\ Workers \subseteq Threads
      /\ UNCHANGED <<status, locked, join, edgeVars, life, handles, queue, needs>>
  BY AsyncAssumption DEF AInv, Stages, Shapes, Shape, TypeOK, Threads, ReleaseExecution
<1>2. SUFFICES ASSUME NEW CONSTANT t \in Tasks, t = at[w].task PROVE AInv'
  BY <1>1
<1> DEFINE pending == IF refs[t] = 1 THEN <<t>> ELSE <<>>
<1>3. /\ pending \in Seq(Tasks) /\ <<>> \in Seq(Tasks)
      /\ Destroying(w, <<>>, pending) /\ refs' = [refs EXCEPT ![t] = @ - 1]
  BY <1>2, EmptySeq DEF Release, ReleaseExecution
<1>4. ToReach(w) = <<>> /\ Unlinks(at[w]) = <<>>
  <2>1. /\ m_num_successors[t] \in Nat /\ m_num_successors[t] <= Len(m_edges[t])
        /\ m_edges[t] \in Seq(Tasks)
        /\ at[w].next = m_num_successors[t] + 1
    <3>1. /\ m_num_successors[t] \in Nat /\ m_num_successors[t] <= Len(m_edges[t])
          /\ m_edges[t] \in Seq(Tasks)
      BY <1>1 DEF TypeOK
    <3>2. at[w].next \in 1..(m_num_successors[t] + 1) /\ at[w].next > m_num_successors[t]
      BY <1>1, <1>2 DEF EndsOnce
    <3> QED BY <3>1, <3>2
  <2>2. ToReach(w) = SubSeq(m_edges[t], m_num_successors[t] + 1, m_num_successors[t])
    BY <1>1, <1>2, <2>1 DEF ToReach
  <2>3. /\ SubSeq(m_edges[t], m_num_successors[t] + 1, m_num_successors[t]) \in Seq(Tasks)
        /\ Len(SubSeq(m_edges[t], m_num_successors[t] + 1, m_num_successors[t])) = 0
    BY <2>1, PartOfEdges
  <2>4. SubSeq(m_edges[t], m_num_successors[t] + 1, m_num_successors[t]) = <<>>
    <3> DEFINE u == SubSeq(m_edges[t], m_num_successors[t] + 1, m_num_successors[t])
    <3>1. u \in Seq(Tasks) /\ Len(u) = 0
      BY <2>3
    <3> HIDE DEF u
    <3>2. u = <<>>
      BY <3>1, EmptySeq
    <3> QED BY <3>2 DEF u
  <2> QED BY <1>1, <2>2, <2>4 DEF Unlinks
<1>5. Ending(at[w], t) /\ refs[t] >= 1 /\ Executing(t) /\ status[t] = "Finished"
  <2>1. Ending(at[w], t) /\ Executing(t)
    BY <1>1, <1>2 DEF Ending, Executing
  <2> QED BY <1>1, <2>1, Referred DEF EndsOnce
<1>6. \A s \in Tasks : Count(pending, s) =
                         Count(at[w].pending, s) + IF s = t /\ refs[t] = 1 THEN 1 ELSE 0
  <2>1. \A s : Count(<<t>>, s) = (IF t = s THEN 1 ELSE 0) /\ Count(<<>>, s) = 0
    BY IndicesOfSingleton, CountEmpty DEF Count
  <2> QED BY <1>1, <2>1
<1> HIDE DEF pending
<1>7. ASSUME NEW s \in Tasks
      PROVE  (IF Executing(s) THEN 1 ELSE 0) =
               (IF Executing(s)' THEN 1 ELSE 0) + (IF s = t THEN 1 ELSE 0)
  <2>1. CASE s = t
    <3>1. Others(w) /\ at'[w].pc \in {"idle", "body", "destroy", "unlink"}
      BY <1>1, <1>3, DestroyingDoes
    <3>2. ASSUME NEW y \in Workers PROVE ~Ending(at'[y], t)
      <4>1. CASE y = w
        BY <3>1, <4>1 DEF Ending
      <4>2. CASE y # w
        <5>1. at'[y] = at[y] /\ y \in Threads
          BY <1>1, <3>1, <4>2 DEF Others
        <5>2. ~Ending(at[y], t)
          BY <1>1, <1>5, <4>2, <5>1 DEF EndsOnce
        <5> QED BY <5>1, <5>2
      <4> QED BY <4>1, <4>2
    <3>3. ~Executing(t)'
      BY <1>1, <1>5, <3>2 DEF Executing, Ending
    <3> QED BY <1>5, <2>1, <3>3
  <2>2. CASE s # t
    <3>1. ~Ending(at[w], s)
      BY <1>2, <2>2 DEF Ending
    <3>2. Executing(s)' <=> Executing(s)
      BY <1>1, <1>3, <1>4, <3>1, ReleaseFrame
    <3> QED BY <2>2, <3>2
  <2> QED BY <2>1, <2>2
<1>8. ASSUME NEW CONSTANT s \in Tasks
      PROVE  References(w, s) = References(w, s)' + IF s = t THEN 1 ELSE 0
  <2>1. Unlinks(at'[w]) = <<>>
    BY <1>1, <1>3, DestroyingDoes
  <2>2. Count(Unlinks(at[w]), s) = 0 /\ Count(Unlinks(at[w]), s)' = 0
    BY <1>4, <2>1, CountEmpty DEF Count
  <2>3. /\ References(w, s) = 0 + 0 + (IF Executing(s) THEN 1 ELSE 0)
        /\ References(w, s)' = 0 + 0 + (IF Executing(s)' THEN 1 ELSE 0)
    BY <1>1, <2>2 DEF References
  <2>4. (IF Executing(s) THEN 1 ELSE 0) = (IF Executing(s)' THEN 1 ELSE 0) + (IF s = t THEN 1 ELSE 0)
    BY <1>7
  <2> QED BY <2>3, <2>4
<1>9. handles' \in [Clients -> SUBSET Tasks] /\ \A e \in Clients \ {w} : handles'[e] = handles[e]
  BY <1>1 DEF TypeOK
<1> QED BY <1>1, <1>3, <1>4, <1>5, <1>6, <1>8, <1>9, ReleaseStep, ZenonT(60)

\* A thread releases a predecessor of a task it has destroyed.
LEMMA ReleasePredecessorStep ==
  ASSUME AInv, NEW CONSTANT x \in Threads, ReleasePredecessor(x)
  PROVE  AInv'
<1>1. /\ TypeOK /\ Shapes /\ EndsOnce /\ at[x] \in ThreadStates /\ at[x].pc = "unlink"
      /\ at[x].todo \in Seq(Tasks) /\ at[x].todo # <<>> /\ at[x].pending \in Seq(Tasks)
      /\ UNCHANGED <<status, locked, join, edgeVars, life, handles, queue, needs>>
  BY DEF AInv, Stages, Shapes, Shape, TypeOK, Threads, ReleasePredecessor, ThreadStates
<1>2. /\ Front(at[x].todo) \in Seq(Tasks) /\ Last(at[x].todo) \in Tasks
      /\ \A s : Count(at[x].todo, s) =
                  Count(Front(at[x].todo), s) + IF Last(at[x].todo) = s THEN 1 ELSE 0
  <2>1. /\ Front(at[x].todo) = SubSeq(at[x].todo, 1, Len(at[x].todo) - 1)
        /\ Last(at[x].todo) = at[x].todo[Len(at[x].todo)]
    BY DEF Front, Last
  <2>2. Front(at[x].todo) \in Seq(Tasks) /\ Last(at[x].todo) \in Tasks
    BY <1>1, <2>1, IndicesOfFront
  <2>3. ASSUME NEW s
        PROVE  Count(Front(at[x].todo), s) =
                 Count(at[x].todo, s) - IF Last(at[x].todo) = s THEN 1 ELSE 0
    BY <1>1, <2>1, IndicesOfFront DEF Count
  <2>4. \A s : Count(at[x].todo, s) \in Nat /\ Count(Front(at[x].todo), s) \in Nat
    BY <1>1, <2>2, CountType
  <2> QED BY <2>2, <2>3, <2>4
<1>3. SUFFICES ASSUME NEW CONSTANT t \in Tasks, t = Last(at[x].todo) PROVE AInv'
  BY <1>2
<1> DEFINE todo == Front(at[x].todo)
           pending == IF refs[t] = 1 THEN <<t>> \o at[x].pending ELSE at[x].pending
<1>4. /\ pending \in Seq(Tasks) /\ todo \in Seq(Tasks)
      /\ Destroying(x, todo, pending) /\ refs' = [refs EXCEPT ![t] = @ - 1]
  <2>1. <<t>> \o at[x].pending \in Seq(Tasks)
    BY <1>1, RangeOfCons
  <2> QED BY <1>1, <1>2, <1>3, <2>1 DEF ReleasePredecessor
<1>5. ToReach(x) = <<>> /\ Unlinks(at[x]) = at[x].todo
  BY <1>1 DEF ToReach, Unlinks
<1>6. /\ \A s : Count(at[x].todo, s) = Count(todo, s) + IF t = s THEN 1 ELSE 0
      /\ \A s : Count(todo, s) \in Nat
  BY <1>2, <1>3, <1>4, CountType
<1>7. refs[t] >= 1
  <2>1. Count(at[x].todo, t) >= 1
    BY <1>6
  <2> QED BY <1>5, <2>1, Referred
<1>8. \A s \in Tasks : Count(pending, s) =
                         Count(at[x].pending, s) + IF s = t /\ refs[t] = 1 THEN 1 ELSE 0
  <2>1. <<t>> \in Seq(Tasks)
    OBVIOUS
  <2> DEFINE e == <<t>>
             q == at[x].pending
  <2>2. e \in Seq(Tasks) /\ q \in Seq(Tasks) /\ \A s : Count(e, s) = IF t = s THEN 1 ELSE 0
    BY <1>1, <2>1, IndicesOfSingleton DEF Count
  <2>3. pending = IF refs[t] = 1 THEN e \o q ELSE q
    OBVIOUS
  <2> HIDE DEF e, q, pending
  <2>4. \A s : Count(e \o q, s) = Count(e, s) + Count(q, s) /\ Count(q, s) \in Nat
    BY <2>2, IndicesOfConcat, CountType DEF Count
  <2>5. \A s \in Tasks : Count(pending, s) = Count(q, s) + IF s = t /\ refs[t] = 1 THEN 1 ELSE 0
    BY <2>2, <2>3, <2>4
  <2> QED BY <2>5 DEF q
<1> HIDE DEF pending, todo
<1>9. at'[x].pc \in {"idle", "body", "destroy", "unlink"}
  BY <1>1, <1>4, DestroyingDoes
<1>10. Held(x)' = Held(x)
  BY <1>1, <1>9 DEF Held
<1>11. handles' \in [Clients -> SUBSET Tasks] /\ \A e \in Clients \ {x} : handles'[e] = handles[e]
  BY <1>1 DEF TypeOK
<1>12. ASSUME NEW CONSTANT s \in Tasks
       PROVE  References(x, s) = References(x, s)' + IF s = t THEN 1 ELSE 0
  <2>1. ~Ending(at[x], s)
    BY <1>1 DEF Ending
  <2>2. Executing(s)' <=> Executing(s)
    BY <1>1, <1>4, <1>5, <1>11, <2>1, ReleaseFrame
  <2>3. Count(Unlinks(at[x]), s) = Count(todo, s) + (IF s = t THEN 1 ELSE 0) /\ Count(todo, s) \in Nat
    BY <1>5, <1>6
  <2>4. Unlinks(at'[x]) = todo
    BY <1>1, <1>4, DestroyingDoes
  <2>5. Count(Unlinks(at[x]), s)' = Count(todo, s)
    BY <2>4 DEF Count
  <2> DEFINE h == IF x \in Clients /\ s \in Held(x) THEN 1 ELSE 0
             e == IF Executing(s) THEN 1 ELSE 0
  <2>6. /\ References(x, s) = h + Count(Unlinks(at[x]), s) + e
        /\ References(x, s)' = h + Count(todo, s) + e
        /\ h \in Nat /\ e \in Nat
    BY <1>10, <2>2, <2>5 DEF References
  <2> HIDE DEF h, e
  <2> QED BY <2>3, <2>6
<1> QED BY <1>1, <1>4, <1>5, <1>7, <1>8, <1>11, <1>12, ReleaseStep

\* A thread destroys a task to which nobody refers.
LEMMA DestroyStep ==
  ASSUME AInv, NEW CONSTANT x \in Threads, Destroy(x)
  PROVE  AInv'
<1>1. /\ TypeOK /\ Shapes /\ ClientsHold /\ LocksHeld /\ StartsOnce /\ EndsOnce /\ TaskStages
      /\ Linked /\ WaiterNotified /\ RefsCounted /\ ArrivalsCounted
      /\ \A s \in Tasks : Finite(s)
      /\ at[x] \in ThreadStates /\ at[x].pc = "destroy" /\ at[x].pending \in Seq(Tasks)
      /\ at[x].pending # <<>> /\ Unlinks(at[x]) = <<>>
      /\ UNCHANGED <<control, join, handles, queue, needs>>
      /\ UNCHANGED <<status, locked, refs>>
  BY DEF AInv, Stages, Sums, Shapes, Shape, TypeOK, Destroy, ThreadStates, Unlinks, control
<1>2. /\ Head(at[x].pending) \in Tasks /\ Tail(at[x].pending) \in Seq(Tasks)
      /\ Head(at[x].pending) \in Range(at[x].pending)
  BY <1>1, HeadTailProperties, RangeOfHeadTail
<1>3. SUFFICES ASSUME NEW CONSTANT t \in Tasks, t = Head(at[x].pending) PROVE AInv'
  BY <1>2
<1>4. /\ m_edges' = [m_edges EXCEPT ![t] = <<>>]
      /\ m_num_successors' = [m_num_successors EXCEPT ![t] = 0]
      /\ life' = [life EXCEPT ![t] = "freed"]
      /\ Destroying(x, Predecessors(t), Tail(at[x].pending))
  BY <1>3 DEF Destroy
<1>5. life[t] = "live" /\ refs[t] = 0 /\ ~Executing(t) /\ Destroyers(t) = 1
  <2>1. Count(at[x].pending, t) >= 1
    BY <1>1, <1>2, <1>3, CountType
  <2>2. life[t] = "live" /\ refs[t] = 0
    BY <2>1, Referred
  <2>3. ~Executing(t)
    BY <2>2, Referred
  <2> QED BY <1>1, <2>2, <2>3 DEF RefsCounted
<1>6. /\ status[t] # "Running"
      /\ \A y \in Threads : ~Ending(at[y], t)
  <2>1. \A y \in Clients : ~Ending(at[y], t)
    BY <1>1 DEF Shapes, Ending
  <2>2. \A y \in Workers : ~Ending(at[y], t)
    BY <1>5 DEF Executing, Ending
  <2> QED BY <1>5, <2>1, <2>2 DEF Executing, Threads
<1>7. /\ m_edges' \in [Tasks -> Seq(Tasks)] /\ m_num_successors' \in [Tasks -> Nat]
      /\ life' \in [Tasks -> {"none", "live", "freed"}]
      /\ m_edges'[t] = <<>> /\ m_num_successors'[t] = 0 /\ life'[t] = "freed"
      /\ \A d \in Tasks \ {t} : /\ m_edges'[d] = m_edges[d] /\ life'[d] = life[d]
                                /\ m_num_successors'[d] = m_num_successors[d]
  <2>1. <<>> \in Seq(Tasks)
    BY EmptySeq
  <2> QED BY <1>1, <1>4, <2>1 DEF TypeOK
<1>8. \A d \in Tasks \ {t} : Predecessors(d)' = Predecessors(d) /\ Successors(d)' = Successors(d)
  BY <1>7 DEF Predecessors, Successors
<1>9. Predecessors(t)' = <<>>
  <2>1. <<>> \in Seq(Tasks) /\ Len(<<>>) = 0
    BY EmptySeq
  <2>2. 0 \in Nat /\ 0 <= Len(<<>>)
    BY <2>1
  <2>3. SubSeq(<<>>, 0 + 1, 0) \in Seq(Tasks) /\ Len(SubSeq(<<>>, 0 + 1, 0)) = 0
    BY <2>1, <2>2, PartOfEdges
  <2> DEFINE u == SubSeq(<<>>, 0 + 1, 0)
  <2>4. u \in Seq(Tasks) /\ Len(u) = 0
    BY <2>3
  <2>5. Predecessors(t)' = u
    BY <1>7, <2>1 DEF Predecessors
  <2> HIDE DEF u
  <2> QED BY <2>4, <2>5, EmptySeq
<1>10. /\ Predecessors(t) \in Seq(Tasks)
       /\ \A u \in Tasks : Promised(u) \in Seq(Tasks)
       /\ \A y \in Threads : ToReach(y) \in Seq(Tasks)
  BY <1>1, EdgesType
<1>11. /\ at' \in [Threads -> ThreadStates] /\ Others(x) /\ Shape(at'[x])
       /\ at'[x].pc \in {"idle", "body", "destroy", "unlink"}
       /\ x \in Clients => at'[x].pc # "body" /\ at'[x].cache = Nil
       /\ Unlinks(at'[x]) = Predecessors(t) /\ at'[x].pending = Tail(at[x].pending)
       /\ \A s \in Tasks : Caches(at'[x], s) + Runs(at'[x], s) = Caches(at[x], s)
  BY <1>2, <1>4, <1>10, DestroyingDoes
<1>12. \A s : /\ ~Starting(at'[x], s) /\ ~Starting(at[x], s) /\ ~Ending(at'[x], s)
              /\ ~Ending(at[x], s) /\ ~Locks(at'[x], s) /\ ~Locks(at[x], s)
              /\ StartsFor(at[x], s) = 0 /\ StartsFor(at'[x], s) = 0
  BY <1>1, <1>11 DEF Starting, Ending, Locks, StartsFor
<1>13. TypeOK'
  <2>1. Len(<<>>) = 0
    BY EmptySeq
  <2>2. ASSUME NEW d \in Tasks PROVE m_num_successors'[d] <= Len(m_edges'[d])
    <3>1. CASE d = t
      <4>1. m_num_successors'[d] = 0 /\ Len(m_edges'[d]) = 0
        BY <1>7, <2>1, <3>1
      <4> QED BY <4>1
    <3>2. CASE d # t
      <4>1. m_num_successors'[d] = m_num_successors[d] /\ m_edges'[d] = m_edges[d]
        BY <1>7, <3>2
      <4> QED BY <1>1, <4>1 DEF TypeOK
    <3> QED BY <3>1, <3>2
  <2> QED BY <1>1, <1>7, <1>11, <2>2 DEF TypeOK
<1>14. Shapes'
  BY <1>1, <1>11, ShapesStep
<1>15. ClientsHold'
  <2>1. x \in Clients => ClientHolds(x)'
    BY <1>11 DEF ClientHolds
  <2> QED BY <1>1, <1>11, <2>1, ClientsFrame
<1>16. LocksHeld' /\ StartsOnce'
  BY <1>1, <1>11, <1>12, LocksStep, StartsOnceStep
<1>17. EndsOnce'
  <2>1. ASSUME NEW y \in Threads \ {x}, at[y].pc = "successors"
        PROVE  m_num_successors'[at[y].task] = m_num_successors[at[y].task]
    <3>1. at[y].task \in Tasks /\ at[y].task # t
      BY <1>1, <1>6, <2>1 DEF Shapes, Shape, Ending
    <3> QED BY <1>7, <3>1
  <2>2. at'[x].pc # "successors"
    BY <1>11
  <2> QED BY <1>1, <1>11, <1>12, <2>1, <2>2, EndsOnceStep
<1>18. WaiterNotified'
  BY <1>1, <1>11, WaiterFrame
<1>19. ScheduledOnce' /\ \A s \in Tasks : ScheduleFinite(s)'
  <2>1. ASSUME NEW s \in Tasks
        PROVE  queue'[s] + Caches(at'[x], s) + Runs(at'[x], s) =
                 queue[s] + Caches(at[x], s) + Runs(at[x], s) /\ queue'[s] \in Nat
    <3>1. /\ Runs(at[x], s) = 0 /\ Caches(at[x], s) \in Nat
          /\ Caches(at'[x], s) \in Nat /\ Runs(at'[x], s) \in Nat
          /\ queue'[s] = queue[s] /\ queue[s] \in Nat
      BY <1>1 DEF Runs, Caches, TypeOK
    <3>2. Caches(at'[x], s) + Runs(at'[x], s) = Caches(at[x], s)
      BY <1>11
    <3> QED BY <3>1, <3>2
  <2> QED BY <1>1, <1>11, <1>12, <2>1, ScheduleFrame
<1>20. \A s \in Tasks : Executing(s)' <=> Executing(s)
  <2>1. \A w \in Workers : \A s : Ending(at'[w], s) <=> Ending(at[w], s)
    BY <1>11, <1>12 DEF Others, Threads
  <2> QED BY <1>1, <2>1 DEF Executing, Ending
<1>21. TaskStages'
  <2> SUFFICES ASSUME NEW s \in Tasks
               PROVE  /\ status'[s] = "Idle" => m_edges'[s] = <<>> /\ needs'[s] = {}
                      /\ life'[s] = "none" => status'[s] = "Idle"
                      /\ life'[s] # "live" => m_edges'[s] = <<>> /\ refs'[s] = 0
                      /\ life'[s] = "live" => \A d \in Tasks :
                           d \in needs'[s] <=> Count(Predecessors(s)', d) >= 1
                      /\ status'[s] # "Running" => join'[s] = 0
                      /\ \A d \in needs'[s] : status'[d] # "Idle" /\ d # s
    BY DEF TaskStages, Count
  <2>1. CASE s = t
    BY <1>1, <1>5, <1>7, <2>1 DEF TaskStages
  <2>2. CASE s # t
    <3>1. Predecessors(s)' = Predecessors(s) /\ m_edges'[s] = m_edges[s] /\ life'[s] = life[s]
      BY <1>7, <1>8, <2>2
    <3> QED BY <1>1, <3>1 DEF TaskStages
  <2> QED BY <2>1, <2>2
<1>22. Linked'
  <2> SUFFICES ASSUME NEW s \in Tasks, status'[s] = "Running", NEW d \in needs'[s]
               PROVE  \/ status'[d] = "Finished"
                      \/ \E y \in Threads : Starting(at'[y], s) /\ d \in Range(at'[y].todo)
                      \/ Count(Successors(d)', s) >= 1
    BY DEF Linked, Count
  <2>1. \/ status[d] = "Finished"
        \/ \E y \in Threads : Starting(at[y], s) /\ d \in Range(at[y].todo)
        \/ Count(Successors(d), s) >= 1
    BY <1>1 DEF Linked
  <2>2. ASSUME NEW y \in Threads, Starting(at[y], s) PROVE at'[y] = at[y]
    BY <1>11, <1>12, <2>2 DEF Others
  <2>3. d \in Tasks /\ status[d] # "Idle"
    BY <1>1 DEF TypeOK, TaskStages
  <2>4. d = t => status[d] = "Finished"
    BY <1>1, <1>6, <2>3 DEF TypeOK
  <2>5. d # t => Successors(d)' = Successors(d)
    BY <1>8, <2>3
  <2> QED BY <1>1, <2>1, <2>2, <2>4, <2>5
<1>23. ArrivalsCounted' /\ \A s \in Tasks : ArrivalsFinite(s)'
  <2>1. \A d \in Tasks : Promised(d)' = Promised(d)
    BY <1>1, <1>6, <1>8 DEF Promised
  <2>2. ASSUME NEW y \in Threads PROVE ToReach(y)' = ToReach(y)
    <3>1. CASE y = x
      BY <1>1, <1>11, <3>1 DEF ToReach
    <3>2. CASE y # x /\ at[y].pc \in {"notify", "successors"}
      <4>1. at'[y] = at[y] /\ at[y].task \in Tasks /\ at[y].task # t
        BY <1>1, <1>6, <1>11, <3>2 DEF Shapes, Shape, Ending, Others
      <4>2. /\ Successors(at[y].task)' = Successors(at[y].task)
            /\ m_edges'[at[y].task] = m_edges[at[y].task]
            /\ m_num_successors'[at[y].task] = m_num_successors[at[y].task]
        BY <1>7, <4>1 DEF Successors
      <4> QED BY <4>1, <4>2 DEF ToReach, Successors
    <3>3. CASE y # x /\ at[y].pc \notin {"notify", "successors"}
      BY <1>11, <3>3 DEF ToReach, Others
    <3> QED BY <3>1, <3>2, <3>3
  <2>3. ASSUME NEW CONSTANT s \in Tasks
        PROVE  /\ ArrivalsFinite(s)'
               /\ Starters(s)' = Starters(s) /\ Promises(s)' = Promises(s) /\ Reaches(s)' = Reaches(s)
    <3>1. IsFiniteSet(Units(StarterOf(s), Threads)') /\ Starters(s)' = Starters(s) - 0 + 0
      BY <1>1, <1>11, <1>12, StartersStep
    <3>2. IsFiniteSet(Places(PromisedOf, Tasks, s)') /\ Promises(s)' = Promises(s)
      BY <1>1, <2>1, PromisesSame
    <3>3. IsFiniteSet(Places(ToReachOf, Threads, s)') /\ Reaches(s)' = Reaches(s)
      BY <1>1, <2>2, ReachesSame
    <3>4. Starters(s) \in Nat
      BY <1>1, SumsType
    <3> QED BY <3>1, <3>2, <3>3, <3>4 DEF ArrivalsFinite
  <2> QED BY <1>1, <2>3 DEF ArrivalsCounted
<1>24. ASSUME NEW CONSTANT s \in Tasks
       PROVE  /\ RefsFinite(s)'
              /\ refs'[s] = Futures(s)' + Dependents(s)' + Unlinkers(s)'
                              + (IF Executing(s)' THEN 1 ELSE 0)
              /\ Destroyers(s)' = IF life'[s] = "live" /\ refs'[s] = 0 THEN 1 ELSE 0
  <2>1. \A e \in Clients : Held(e)' = Held(e)
    <3>1. \A e \in Clients : e # x => at'[e] = at[e]
      BY <1>11 DEF Others, Threads
    <3> QED BY <1>1, <1>11, <3>1 DEF Held
  <2>2. IsFiniteSet(Units(FutureOf(s), Clients)') /\ Futures(s)' = Futures(s)
    BY <1>1, <2>1, FuturesSame
  <2>3. /\ IsFiniteSet(Places(PredecessorsOf, Tasks, s)')
        /\ Dependents(s)' = Dependents(s) - Count(Predecessors(t), s) + Count(Predecessors(t)', s)
    <3>1. Predecessors(t)' \in Seq(Tasks)
      BY <1>9, EmptySeq
    <3> QED BY <1>1, <1>8, <1>10, <3>1, DependentsStep
  <2>4. /\ IsFiniteSet(Places(UnlinksOf, Threads, s)')
        /\ Unlinkers(s)' = Unlinkers(s) - Count(Unlinks(at[x]), s) + Count(Unlinks(at'[x]), s)
    <3>1. Unlinks(at[x]) \in Seq(Tasks) /\ Unlinks(at'[x]) \in Seq(Tasks)
      BY <1>1, <1>10, <1>11, EmptySeq
    <3> QED BY <1>1, <1>11, <3>1, UnlinkersStep
  <2>5. /\ IsFiniteSet(Places(PendingOf, Threads, s)')
        /\ Destroyers(s)' = Destroyers(s) - Count(at[x].pending, s) + Count(at'[x].pending, s)
    BY <1>1, <1>2, <1>11, DestroyersStep
  <2>6. /\ Count(Predecessors(t)', s) = 0 /\ Count(Unlinks(at[x]), s) = 0
        /\ Count(Unlinks(at'[x]), s) = Count(Predecessors(t), s)
        /\ Count(Predecessors(t), s) \in Nat
    BY <1>1, <1>9, <1>10, <1>11, CountEmpty, CountType
  <2>7. /\ Count(at'[x].pending, s) = Count(at[x].pending, s) - (IF t = s THEN 1 ELSE 0)
        /\ Count(at[x].pending, s) \in Nat
    <3>1. Count(Tail(at[x].pending), s) = Count(at[x].pending, s) - IF Head(at[x].pending) = s THEN 1 ELSE 0
      BY <1>1, IndicesOfTail DEF Count
    <3> QED BY <1>1, <1>3, <1>11, <3>1, CountType
  <2>8. Futures(s) \in Nat /\ Dependents(s) \in Nat /\ Unlinkers(s) \in Nat /\ Destroyers(s) \in Nat
    BY <1>1, SumsType
  <2>9. /\ refs'[s] = Futures(s) + Dependents(s) + Unlinkers(s) + (IF Executing(s)' THEN 1 ELSE 0)
        /\ Destroyers(s) = IF life[s] = "live" /\ refs'[s] = 0 THEN 1 ELSE 0
    BY <1>1, <1>20 DEF RefsCounted
  <2>10. Dependents(s)' + Unlinkers(s)' = Dependents(s) + Unlinkers(s)
    <3> DEFINE p == Count(Predecessors(t), s)
    <3>1. p \in Nat /\ Dependents(s)' = Dependents(s) - p + 0 /\ Unlinkers(s)' = Unlinkers(s) - 0 + p
      BY <2>3, <2>4, <2>6
    <3> HIDE DEF p
    <3> QED BY <2>8, <3>1
  <2>11. Dependents(s)' \in Int /\ Unlinkers(s)' \in Int
    BY <2>3, <2>4, <2>6, <2>8
  <2>12. refs'[s] = Futures(s)' + Dependents(s)' + Unlinkers(s)' + (IF Executing(s)' THEN 1 ELSE 0)
    <3> DEFINE e == IF Executing(s)' THEN 1 ELSE 0
    <3>1. e \in Nat /\ refs'[s] = Futures(s) + Dependents(s) + Unlinkers(s) + e
      BY <2>9
    <3> HIDE DEF e
    <3>2. Futures(s) + Dependents(s) + Unlinkers(s) + e = Futures(s) + Dependents(s)' + Unlinkers(s)' + e
      BY <2>8, <2>10, <2>11, <3>1
    <3> QED BY <2>2, <3>1, <3>2 DEF e
  <2>13. Destroyers(s)' = IF life'[s] = "live" /\ refs'[s] = 0 THEN 1 ELSE 0
    <3>1. Destroyers(s)' = Destroyers(s) - IF t = s THEN 1 ELSE 0
      BY <2>5, <2>7, <2>8
    <3>2. CASE s = t
      <4>1. Destroyers(s) = 1 /\ life'[s] = "freed"
        BY <1>5, <1>7, <3>2
      <4> QED BY <3>1, <3>2, <4>1
    <3>3. CASE s # t
      <4>1. life'[s] = life[s] /\ Destroyers(s)' = Destroyers(s)
        BY <1>7, <2>8, <3>1, <3>3
      <4> QED BY <2>9, <4>1
    <3> QED BY <3>2, <3>3
  <2> QED BY <2>2, <2>3, <2>4, <2>5, <2>12, <2>13 DEF RefsFinite
<1>25. RefsCounted'
  BY <1>24 DEF RefsCounted
<1> QED BY <1>13, <1>14, <1>15, <1>16, <1>17, <1>18, <1>19, <1>21, <1>22, <1>23, <1>24, <1>25
        DEF AInv, Stages, Sums, Finite

-----------------------------------------------------------------------------
(* New futures.                                                            *)

\* A client gets one more future, of a new task or of one that lives.
LEMMA FutureStep ==
  ASSUME AInv, NEW CONSTANT c \in Clients, NEW CONSTANT t \in Tasks,
         at[c].pc = "idle", t \notin handles[c],
         UNCHANGED <<status, locked, join, edgeVars, queue, at, needs>>,
         handles' = [handles EXCEPT ![c] = @ \cup {t}],
         refs' = [refs EXCEPT ![t] = @ + 1],
         life' \in [Tasks -> {"none", "live", "freed"}], life'[t] = "live",
         \A s \in Tasks \ {t} : life'[s] = life[s],
         life[t] = "none" \/ (life[t] = "live" /\ refs[t] >= 1)
  PROVE  AInv'
<1>1. /\ TypeOK /\ Shapes /\ ClientsHold /\ LocksHeld /\ StartsOnce /\ EndsOnce /\ TaskStages
      /\ Linked /\ WaiterNotified /\ RefsCounted
      /\ \A s \in Tasks : Finite(s)
      /\ c \in Threads /\ Others(c)
  BY DEF AInv, Stages, Sums, Threads, Others
<1>2. /\ refs \in [Tasks -> Nat] /\ refs' \in [Tasks -> Nat]
      /\ \A s \in Tasks : refs'[s] = refs[s] + IF s = t THEN 1 ELSE 0
      /\ handles' \in [Clients -> SUBSET Tasks]
      /\ handles'[c] = handles[c] \cup {t}
      /\ \A e \in Clients \ {c} : handles'[e] = handles[e]
  BY <1>1 DEF TypeOK
<1>3. TypeOK'
  BY <1>1, <1>2 DEF TypeOK, edgeVars
<1>4. Shapes' /\ LocksHeld' /\ StartsOnce' /\ EndsOnce' /\ WaiterNotified'
  BY <1>1 DEF Shapes, LocksHeld, StartsOnce, EndsOnce, WaiterNotified, edgeVars
<1>5. Linked'
  BY <1>1, LinkedFrame
<1>6. ClientsHold'
  <2>1. ClientHolds(c)'
    BY DEF ClientHolds
  <2> QED BY <1>1, <1>2, <2>1, ClientsFrame
<1>7. ArrivalsCounted' /\ \A s \in Tasks : ArrivalsFinite(s)'
  <2>1. ToReach(c)' = ToReach(c)
    BY DEF ToReach, Successors, edgeVars
  <2> QED BY <1>1, <2>1, ArrivalsFrame
<1>8. ScheduledOnce' /\ \A s \in Tasks : ScheduleFinite(s)'
  <2>1. \A s \in Tasks : queue'[s] = queue[s] /\ queue[s] \in Nat
    BY <1>1 DEF TypeOK
  <2> QED BY <1>1, <2>1, ScheduleFrame
<1>9. TaskStages'
  <2> SUFFICES ASSUME NEW s \in Tasks
               PROVE  /\ status'[s] = "Idle" => m_edges'[s] = <<>> /\ needs'[s] = {}
                      /\ life'[s] = "none" => status'[s] = "Idle"
                      /\ life'[s] # "live" => m_edges'[s] = <<>> /\ refs'[s] = 0
                      /\ life'[s] = "live" => \A d \in Tasks :
                           d \in needs'[s] <=> Count(Predecessors(s)', d) >= 1
                      /\ status'[s] # "Running" => join'[s] = 0
                      /\ \A d \in needs'[s] : status'[d] # "Idle" /\ d # s
    BY DEF TaskStages, Count
  <2>1. Predecessors(s)' = Predecessors(s)
    BY DEF Predecessors, edgeVars
  <2>2. CASE s # t \/ life[t] = "live"
    <3>1. life'[s] = life[s] /\ (life'[s] # "live" => refs'[s] = refs[s])
      BY <1>1, <1>2, <2>2 DEF TypeOK
    <3> QED BY <1>1, <2>1, <3>1 DEF TaskStages, edgeVars
  <2>3. CASE s = t /\ life[t] = "none"
    <3>1. status[t] = "Idle" /\ m_edges[t] = <<>> /\ needs[t] = {}
      BY <1>1, <2>3 DEF TaskStages
    <3>2. Predecessors(t) = <<>>
      <4>1. m_num_successors[t] \in Nat /\ m_num_successors[t] <= Len(m_edges[t]) /\ Len(<<>>) = 0
        BY <1>1, EmptySeq DEF TypeOK
      <4>2. m_num_successors[t] = 0
        BY <3>1, <4>1
      <4>3. Predecessors(t) \in Seq(Tasks) /\ Len(Predecessors(t)) = 0
        <5>1. 0 <= Len(<<>>) /\ <<>> \in Seq(Tasks) /\ 0 \in Nat
          BY <4>1, EmptySeq
        <5>2. /\ SubSeq(<<>>, 0 + 1, 0) \in Seq(Tasks)
              /\ Len(SubSeq(<<>>, 0 + 1, 0)) = IF 0 <= 0 THEN 0 - 0 ELSE 0
          BY <5>1, PartOfEdges
        <5> DEFINE u == SubSeq(<<>>, 0 + 1, 0)
        <5>3. u \in Seq(Tasks) /\ Len(u) = 0
          BY <5>2
        <5>4. Predecessors(t) = u
          BY <3>1, <4>1, <4>2 DEF Predecessors
        <5> HIDE DEF u
        <5> QED BY <5>3, <5>4
      <4> QED BY <4>3, EmptySeq
    <3>3. \A d : Count(Predecessors(t)', d) = 0
      BY <2>1, <2>3, <3>2, CountEmpty
    <3> QED BY <1>1, <2>3, <3>1, <3>3 DEF TaskStages, edgeVars
  <2> QED BY <1>1, <2>2, <2>3
<1>10. \A s \in Tasks : Executing(s)' <=> Executing(s)
  BY DEF Executing
<1>11. /\ Held(c) = handles[c] /\ Held(c)' = handles[c] \cup {t}
       /\ \A e \in Clients \ {c} : Held(e)' = Held(e)
  BY <1>2 DEF Held
<1>12. Unlinks(at[c]) \in Seq(Tasks) /\ at[c].pending \in Seq(Tasks)
  BY <1>1, EdgesType
<1>13. ASSUME NEW CONSTANT s \in Tasks
       PROVE  /\ RefsFinite(s)'
              /\ refs'[s] = Futures(s)' + Dependents(s)' + Unlinkers(s)'
                              + (IF Executing(s)' THEN 1 ELSE 0)
              /\ Destroyers(s)' = IF life'[s] = "live" /\ refs'[s] = 0 THEN 1 ELSE 0
  <2>1. /\ RefsFinite(s)'
        /\ (Futures(s) + Dependents(s) + Unlinkers(s))' =
             Futures(s) + Dependents(s) + Unlinkers(s)
               - (IF c \in Clients /\ s \in Held(c) THEN 1 ELSE 0)
               + (IF c \in Clients /\ s \in Held(c)' THEN 1 ELSE 0)
               - Count(Unlinks(at[c]), s) + Count(Unlinks(at'[c]), s)
        /\ Destroyers(s)' = Destroyers(s) - Count(at[c].pending, s) + Count(at'[c].pending, s)
    BY <1>1, <1>11, <1>12, RefsBalance
  <2>2. (Futures(s) + Dependents(s) + Unlinkers(s))' = Futures(s)' + Dependents(s)' + Unlinkers(s)'
    OBVIOUS
  <2>3. /\ Futures(s) \in Nat /\ Dependents(s) \in Nat /\ Unlinkers(s) \in Nat /\ Destroyers(s) \in Nat
    BY <1>1, SumsType
  <2>4. /\ Count(Unlinks(at[c]), s) \in Nat /\ Count(at[c].pending, s) \in Nat
        /\ Count(Unlinks(at'[c]), s) = Count(Unlinks(at[c]), s)
        /\ Count(at'[c].pending, s) = Count(at[c].pending, s)
    BY <1>12, CountType
  <2>5. Destroyers(s)' = Destroyers(s)
    BY <2>1, <2>3, <2>4
  <2> DEFINE h0 == IF c \in Clients /\ s \in Held(c) THEN 1 ELSE 0
             h1 == IF c \in Clients /\ s \in Held(c)' THEN 1 ELSE 0
             one == IF s = t THEN 1 ELSE 0
             e == IF Executing(s) THEN 1 ELSE 0
             f == Futures(s)
             g == Dependents(s)
             u == Unlinkers(s)
             k == Count(Unlinks(at[c]), s)
             all == Futures(s)' + Dependents(s)' + Unlinkers(s)'
  <2>6. /\ h1 = h0 + one /\ h0 \in Nat /\ one \in Nat /\ e \in Nat
        /\ f \in Nat /\ g \in Nat /\ u \in Nat /\ k \in Nat
    BY <1>11, <2>3, <2>4
  <2>7. all = f + g + u - h0 + h1 - k + k
    BY <2>1, <2>2, <2>4
  <2>8. refs'[s] = f + g + u + e + one
    BY <1>1, <1>2 DEF RefsCounted
  <2>9. e = IF Executing(s)' THEN 1 ELSE 0
    BY <1>10
  <2>10. refs'[s] = all + e
    <3> HIDE DEF h0, h1, one, e, f, g, u, k, all
    <3>1. f + g + u - h0 + h1 - k + k = f + g + u + one
      BY <2>6
    <3>2. f + g + u + e + one = (f + g + u + one) + e
      BY <2>6
    <3> QED BY <2>7, <2>8, <3>1, <3>2
  <2>11. Destroyers(s)' = IF life'[s] = "live" /\ refs'[s] = 0 THEN 1 ELSE 0
    <3>1. Destroyers(s) = IF life[s] = "live" /\ refs[s] = 0 THEN 1 ELSE 0
      BY <1>1 DEF RefsCounted
    <3>2. CASE s = t
      <4>1. Destroyers(s) = 0 /\ refs'[s] # 0
        BY <1>1, <1>2, <3>1, <3>2
      <4> QED BY <2>5, <4>1
    <3>3. CASE s # t
      <4>1. refs'[s] = refs[s] /\ life'[s] = life[s]
        BY <1>2, <3>3
      <4> QED BY <2>5, <3>1, <4>1
    <3> QED BY <3>2, <3>3
  <2> QED BY <2>1, <2>9, <2>10, <2>11
<1>14. RefsCounted'
  BY <1>13 DEF RefsCounted
<1> QED BY <1>3, <1>4, <1>5, <1>6, <1>7, <1>8, <1>9, <1>13, <1>14 DEF AInv, Stages, Sums, Finite

\* A client creates a task, or copies a future.
LEMMA MoreFuturesStep ==
  ASSUME AInv, NEW CONSTANT c \in Clients, Defer(c) \/ DeferObject(c) \/ Copy(c)
  PROVE  AInv'
<1>1. TypeOK /\ TaskStages
  BY DEF AInv, Stages
<1>2. ASSUME NEW CONSTANT t \in Tasks, GetDeferred(c, t) PROVE AInv'
  <2>1. /\ at[c].pc = "idle" /\ life[t] = "none" /\ life' = [life EXCEPT ![t] = "live"]
        /\ refs' = [refs EXCEPT ![t] = 1] /\ handles' = [handles EXCEPT ![c] = @ \cup {t}]
        /\ UNCHANGED <<status, locked, join, edgeVars, queue, at, needs>>
    BY <1>2 DEF GetDeferred, MakeAsyncTask
  <2>2. refs[t] = 0 /\ refs \in [Tasks -> Nat]
    BY <1>1, <2>1 DEF TypeOK, TaskStages
  <2>3. refs' = [refs EXCEPT ![t] = @ + 1]
    BY <2>1, <2>2
  <2>4. t \notin handles[c]
    <3>1. t \notin Held(c)
      BY <2>2, Referred
    <3> QED BY <3>1 DEF Held
  <2>5. /\ life' \in [Tasks -> {"none", "live", "freed"}] /\ life'[t] = "live"
        /\ \A s \in Tasks \ {t} : life'[s] = life[s]
    BY <1>1, <2>1 DEF TypeOK
  <2> QED BY <2>1, <2>3, <2>4, <2>5, FutureStep
<1>3. ASSUME NEW CONSTANT d \in Clients, NEW CONSTANT t \in Tasks, t \in handles[d] \ handles[c],
             refs' = [refs EXCEPT ![t] = @ + 1], handles' = [handles EXCEPT ![c] = @ \cup {t}],
             at[c].pc = "idle",
             UNCHANGED <<status, locked, join, edgeVars, life, queue, at, needs>>
      PROVE  AInv'
  <2>1. refs[t] >= 1 /\ life[t] = "live"
    <3>1. t \in Held(d)
      BY <1>3 DEF Held
    <3>2. refs[t] >= 1
      BY <3>1, Referred
    <3> QED BY <3>2, Referred
  <2>2. /\ life' \in [Tasks -> {"none", "live", "freed"}] /\ life'[t] = "live"
        /\ \A s \in Tasks \ {t} : life'[s] = life[s]
    BY <1>1, <1>3, <2>1 DEF TypeOK
  <2> QED BY <1>3, <2>1, <2>2, FutureStep
<1>4. CASE Copy(c)
  <2>1. /\ at[c].pc = "idle"
        /\ \E d \in Clients : \E t \in handles[d] \ handles[c] :
             refs' = [refs EXCEPT ![t] = @ + 1] /\ handles' = [handles EXCEPT ![c] = @ \cup {t}]
        /\ UNCHANGED <<status, locked, join, edgeVars, life, queue, at, needs>>
    BY <1>4 DEF Copy
  <2>2. \E d \in Clients : \E t \in Tasks : /\ t \in handles[d] \ handles[c]
                                            /\ refs' = [refs EXCEPT ![t] = @ + 1]
                                            /\ handles' = [handles EXCEPT ![c] = @ \cup {t}]
    BY <1>1, <2>1 DEF TypeOK
  <2> QED BY <1>3, <2>1, <2>2
<1> QED BY <1>2, <1>4 DEF Defer, DeferObject

-----------------------------------------------------------------------------
(* The registration with the predecessors.                                 *)

\* A starter goes on, and moves no reference.
LEMMA LinkFrame ==
  ASSUME AInv, NEW CONSTANT c \in Clients, NEW CONSTANT t \in Tasks,
         at[c].pc = "link", at[c].task = t, Others(c), at' \in [Threads -> ThreadStates],
         at'[c].pc \in {"idle", "link"}, at'[c].pc = "link" => at'[c].task = t,
         at'[c].pending = <<>>, at'[c].cache = Nil, Shape(at'[c]),
         UNCHANGED <<status, locked, refs, edgeVars, life, needs>>,
         handles' \in [Clients -> SUBSET Tasks],
         \A e \in Clients \ {c} : handles'[e] = handles[e],
         Held(c)' = Held(c), ClientHolds(c)',
         join' \in [Tasks -> Nat], \A s \in Tasks \ {t} : join'[s] = join[s],
         queue' \in [Tasks -> Nat]
  PROVE  /\ TypeOK' /\ Stages' /\ RefsCounted' /\ WaiterNotified'
         /\ \A s \in Tasks : RefsFinite(s)'
         /\ status[t] = "Running"
<1>1. /\ TypeOK /\ Shapes /\ ClientsHold /\ LocksHeld /\ StartsOnce /\ EndsOnce /\ TaskStages
      /\ WaiterNotified /\ c \in Threads /\ c \notin Workers /\ at[c].pending = <<>>
      /\ status[t] = "Running"
  BY AsyncAssumption DEF AInv, Stages, Threads, ClientsHold, ClientHolds, Shapes, Shape
<1>2. TypeOK'
  BY <1>1 DEF TypeOK, edgeVars
<1>3. Shapes'
  BY <1>1, ShapesStep
<1>4. ClientsHold'
  BY <1>1, ClientsFrame
<1>5. LocksHeld'
  <2>1. \A s : ~Locks(at'[c], s)
    BY DEF Locks
  <2> QED BY <1>1, <2>1, LocksStep
<1>6. StartsOnce'
  <2>1. \A s : Starting(at'[c], s) => Starting(at[c], s)
    BY DEF Starting
  <2> QED BY <1>1, <2>1, StartsOnceStep
<1>7. EndsOnce'
  <2>1. \A s : ~Ending(at'[c], s)
    BY DEF Ending
  <2> QED BY <1>1, <2>1, EndsOnceStep DEF edgeVars
<1>8. WaiterNotified'
  BY <1>1, WaiterFrame
<1>9. TaskStages'
  <2> SUFFICES ASSUME NEW s \in Tasks
               PROVE  /\ status'[s] = "Idle" => m_edges'[s] = <<>> /\ needs'[s] = {}
                      /\ life'[s] = "none" => status'[s] = "Idle"
                      /\ life'[s] # "live" => m_edges'[s] = <<>> /\ refs'[s] = 0
                      /\ life'[s] = "live" => \A d \in Tasks :
                           d \in needs'[s] <=> Count(Predecessors(s)', d) >= 1
                      /\ status'[s] # "Running" => join'[s] = 0
                      /\ \A d \in needs'[s] : status'[d] # "Idle" /\ d # s
    BY DEF TaskStages, Count
  <2>1. Predecessors(s)' = Predecessors(s)
    BY DEF Predecessors, edgeVars
  <2>2. status'[s] # "Running" => join'[s] = 0
    BY <1>1 DEF TaskStages
  <2> QED BY <1>1, <2>1, <2>2 DEF TaskStages, edgeVars
<1>10. RefsCounted' /\ \A s \in Tasks : RefsFinite(s)'
  <2>1. \A s \in Tasks : Executing(s)' <=> Executing(s)
    <3>1. \A w \in Workers : at'[w] = at[w]
      BY <1>1 DEF Others, Threads
    <3> QED BY <3>1 DEF Executing
  <2>2. \A e \in Clients : Held(e)' = Held(e)
    BY DEF Held, Others, Threads
  <2>3. Unlinks(at'[c]) = Unlinks(at[c])
    BY DEF Unlinks
  <2> QED BY <1>1, <2>1, <2>2, <2>3, RefsFrame
<1> QED BY <1>1, <1>2, <1>3, <1>4, <1>5, <1>6, <1>7, <1>8, <1>9, <1>10 DEF Stages

\* A predecessor that has finished is counted off.
LEMMA LinkFinishedStep ==
  ASSUME AInv, NEW CONSTANT c \in Clients, LinkFinished(c)
  PROVE  AInv'
<1>1. /\ TypeOK /\ Shapes /\ ClientHolds(c) /\ Linked /\ ArrivalsCounted /\ ScheduledOnce /\ TaskStages
      /\ at[c] \in ThreadStates /\ at[c].pc = "link" /\ at[c].todo # <<>>
      /\ at[c].todo \in Seq(Tasks) /\ at[c].task \in Tasks /\ at[c].cache = Nil
      /\ at[c].pending = <<>> /\ status[Head(at[c].todo)] = "Finished"
      /\ c \in Threads /\ \A s \in Tasks : Finite(s)
      /\ UNCHANGED <<status, locked, refs>>
      /\ UNCHANGED <<edgeVars, life, handles, queue, needs>>
  BY DEF AInv, Stages, Sums, Shapes, Shape, TypeOK, LinkFinished, ThreadStates, Threads, ClientsHold, control
<1>2. SUFFICES ASSUME NEW CONSTANT t \in Tasks, t = at[c].task PROVE AInv'
  BY <1>1
<1>3. /\ Tail(at[c].todo) \in Seq(Tasks) /\ Len(Tail(at[c].todo)) = Len(at[c].todo) - 1
      /\ Len(at[c].todo) \in Nat \ {0}
      /\ Head(at[c].todo) \in Range(at[c].todo)
      /\ Range(at[c].todo) = {Head(at[c].todo)} \cup Range(Tail(at[c].todo))
  BY <1>1, HeadTailProperties, RangeOfHeadTail, EmptySeq, LenProperties
<1>4. /\ at' = [at EXCEPT ![c].pc = "link", ![c].todo = Tail(@)]
      /\ join' = [join EXCEPT ![t] = @ - 1]
  BY <1>2 DEF LinkFinished, NextPredecessor
<1>5. /\ at' \in [Threads -> ThreadStates] /\ Others(c)
      /\ at'[c].pc = "link" /\ at'[c].task = t /\ at'[c].todo = Tail(at[c].todo)
      /\ at'[c].pending = <<>> /\ at'[c].cache = Nil
  <2>1. at' \in [Threads -> ThreadStates] /\ Others(c)
    BY <1>1, <1>3, <1>4 DEF TypeOK, ThreadStates, Others
  <2> QED BY <1>1, <1>2, <1>4, <2>1 DEF TypeOK, ThreadStates
<1>6. Shape(at'[c])
  BY <1>5 DEF Shape
<1>7. needs[t] # {} /\ status[t] = "Running" /\ Starting(at[c], t)
  BY <1>1, <1>2, <1>3 DEF ClientHolds, Starting
<1>8. join[t] \in Nat /\ join[t] >= 2
  <2>1. join[t] \in Nat /\ join[t] >= Len(at[c].todo) + 1
    BY <1>1, <1>7, Awaited
  <2> QED BY <1>3, <2>1
<1>9. /\ join' \in [Tasks -> Nat] /\ join'[t] = join[t] - 1
      /\ \A s \in Tasks \ {t} : join'[s] = join[s]
  <2>1. join \in [Tasks -> Nat]
    BY <1>1 DEF TypeOK
  <2>2. join[t] - 1 \in Nat
    BY <1>8
  <2> QED BY <1>4, <2>1, <2>2
<1>10. Held(c)' = Held(c)
  BY <1>1, <1>2, <1>5 DEF Held
<1>11. ClientHolds(c)'
  BY <1>1, <1>2, <1>3, <1>5 DEF ClientHolds
<1>12. /\ TypeOK' /\ Stages' /\ RefsCounted' /\ WaiterNotified'
       /\ \A s \in Tasks : RefsFinite(s)'
  <2>1. handles' \in [Clients -> SUBSET Tasks] /\ queue' \in [Tasks -> Nat]
    BY <1>1 DEF TypeOK
  <2> QED BY <1>1, <1>2, <1>5, <1>6, <1>9, <1>10, <1>11, <2>1, LinkFrame
<1>13. Linked'
  <2> SUFFICES ASSUME NEW s \in Tasks, status'[s] = "Running", NEW d \in needs'[s]
               PROVE  \/ status'[d] = "Finished"
                      \/ \E y \in Threads : Starting(at'[y], s) /\ d \in Range(at'[y].todo)
                      \/ Count(Successors(d)', s) >= 1
    BY DEF Linked, Count
  <2>1. Successors(d)' = Successors(d)
    BY <1>1 DEF Successors, edgeVars
  <2>2. \/ status[d] = "Finished"
        \/ \E y \in Threads : Starting(at[y], s) /\ d \in Range(at[y].todo)
        \/ Count(Successors(d), s) >= 1
    BY <1>1 DEF Linked
  <2>3. ASSUME NEW y \in Threads, Starting(at[y], s), d \in Range(at[y].todo)
        PROVE  status[d] = "Finished" \/ (Starting(at'[y], s) /\ d \in Range(at'[y].todo))
    <3>1. CASE y # c
      BY <1>5, <2>3, <3>1 DEF Others
    <3>2. CASE y = c
      BY <1>1, <1>2, <1>3, <1>5, <2>3, <3>2 DEF Starting
    <3> QED BY <3>1, <3>2
  <2> QED BY <1>1, <2>1, <2>2, <2>3
<1>14. ASSUME NEW s \in Tasks PROVE Starting(at'[c], s) <=> Starting(at[c], s)
  BY <1>1, <1>2, <1>5 DEF Starting
<1>15. ArrivalsCounted' /\ \A s \in Tasks : ArrivalsFinite(s)'
  <2>1. ASSUME NEW CONSTANT s \in Tasks
        PROVE  /\ ArrivalsFinite(s)' /\ Promises(s)' = Promises(s) /\ Reaches(s)' = Reaches(s)
               /\ Starters(s)' = Starters(s) - IF s = t THEN 1 ELSE 0
    <3>1. ToReach(c) = <<>> /\ ToReach(c)' = <<>> /\ <<>> \in Seq(Tasks)
      BY <1>1, <1>5, EmptySeq DEF ToReach
    <3>2. /\ StartsFor(at[c], s) = IF s = t THEN Len(at[c].todo) + 1 ELSE 0
          /\ StartsFor(at'[c], s) = IF s = t THEN Len(at[c].todo) ELSE 0
      BY <1>1, <1>2, <1>3, <1>5 DEF StartsFor
    <3>3. /\ ArrivalsFinite(s)'
          /\ Starters(s)' = Starters(s) - StartsFor(at[c], s) + StartsFor(at'[c], s)
          /\ Promises(s)' = Promises(s)
          /\ Reaches(s)' = Reaches(s) - Count(ToReach(c), s) + Count(ToReach(c)', s)
      <4>1. StartsFor(at'[c], s) \in Nat /\ ToReach(c)' \in Seq(Tasks)
        BY <1>3, <3>1, <3>2
      <4>2. UNCHANGED status /\ UNCHANGED edgeVars
        BY <1>1
      <4> QED BY <1>1, <1>5, <4>1, <4>2, ArrivalsBalance
    <3>4. Starters(s) \in Nat /\ Reaches(s) \in Nat /\ Count(<<>>, s) = 0
      BY <1>1, SumsType, CountEmpty
    <3>5. Reaches(s)' = Reaches(s)
      BY <3>1, <3>3, <3>4
    <3>6. Starters(s)' = Starters(s) - IF s = t THEN 1 ELSE 0
      BY <1>3, <3>2, <3>3, <3>4
    <3> QED BY <3>3, <3>5, <3>6
  <2>2. ASSUME NEW CONSTANT s \in Tasks
        PROVE  IF needs'[s] = {} THEN join'[s] = 0 /\ Promises(s)' = 0 /\ Reaches(s)' = 0
               ELSE join'[s] = Starters(s)' + Promises(s)' + Reaches(s)'
    <3>1. Starters(s) \in Nat /\ Reaches(s) \in Nat /\ Promises(s) \in Nat
      BY <1>1, SumsType
    <3>2. CASE s = t
      <4>1. join[t] = Starters(t) + Promises(t) + Reaches(t)
        BY <1>1, <1>7 DEF ArrivalsCounted
      <4> QED BY <1>1, <1>7, <1>9, <2>1, <3>1, <3>2, <4>1, SMTT(30)
    <3>3. CASE s # t
      <4>1. Starters(s)' = Starters(s) /\ join'[s] = join[s]
        BY <1>9, <2>1, <3>1, <3>3
      <4> QED BY <1>1, <2>1, <4>1 DEF ArrivalsCounted
    <3> QED BY <3>2, <3>3
  <2> QED BY <2>1, <2>2 DEF ArrivalsCounted
<1>16. ScheduledOnce' /\ \A s \in Tasks : ScheduleFinite(s)'
  <2>1. ASSUME NEW s \in Tasks
        PROVE  /\ queue'[s] + Caches(at'[c], s) + Runs(at'[c], s) =
                    queue[s] + Caches(at[c], s) + Runs(at[c], s)
               /\ queue'[s] \in Nat
               /\ (status'[s] = "Running" /\ join'[s] = 0) <=> (status[s] = "Running" /\ join[s] = 0)
    <3>1. /\ Caches(at'[c], s) = Caches(at[c], s) /\ Runs(at'[c], s) = Runs(at[c], s)
          /\ queue'[s] = queue[s] /\ queue[s] \in Nat
      BY <1>1, <1>5 DEF Caches, Runs, TypeOK
    <3>2. join'[s] = 0 <=> join[s] = 0
      BY <1>8, <1>9
    <3> QED BY <1>1, <3>1, <3>2
  <2> QED BY <1>1, <1>5, <1>14, <2>1, ScheduleFrame
<1> QED BY <1>12, <1>13, <1>15, <1>16 DEF AInv, Sums, Finite

\* The starter gives up its own arrival; the task is scheduled when that was
\* the last one.
LEMMA SubmitStep ==
  ASSUME AInv, NEW CONSTANT c \in Clients, Submit(c)
  PROVE  AInv'
<1>1. /\ TypeOK /\ Shapes /\ ClientHolds(c) /\ Linked /\ ArrivalsCounted /\ ScheduledOnce
      /\ StartsOnce
      /\ at[c] \in ThreadStates /\ at[c].pc = "link" /\ at[c].todo = <<>>
      /\ at[c].task \in Tasks /\ at[c].cache = Nil /\ at[c].pending = <<>>
      /\ c \in Threads /\ \A s \in Tasks : Finite(s)
      /\ UNCHANGED <<status, locked, refs>>
      /\ UNCHANGED <<edgeVars, life, needs>>
  BY DEF AInv, Stages, Sums, Shapes, Shape, TypeOK, Submit, ThreadStates, Threads, ClientsHold, control
<1>2. SUFFICES ASSUME NEW CONSTANT t \in Tasks, t = at[c].task PROVE AInv'
  BY <1>1
<1>3. /\ join' = [join EXCEPT ![t] = IF needs[t] = {} THEN @ ELSE @ - 1]
      /\ queue' = [queue EXCEPT ![t] = IF join'[t] = 0 THEN @ + 1 ELSE @]
      /\ handles' = [handles EXCEPT ![c] = @ \cup {t}]
      /\ at' = [at EXCEPT ![c] = Idle]
  BY <1>2 DEF Submit
<1>4. status[t] = "Running" /\ Starting(at[c], t)
  BY <1>1, <1>2 DEF ClientHolds, Starting
<1>5. Idle \in ThreadStates /\ Idle.pc = "idle" /\ Idle.pending = <<>> /\ Idle.cache = Nil
  BY EmptySeq DEF Idle, ThreadStates
<1>6. /\ at' \in [Threads -> ThreadStates] /\ Others(c) /\ at'[c] = Idle
      /\ at'[c].pc = "idle" /\ at'[c].pending = <<>> /\ at'[c].cache = Nil /\ Shape(at'[c])
  <2>1. at' \in [Threads -> ThreadStates] /\ Others(c) /\ at'[c] = Idle
    BY <1>1, <1>3, <1>5 DEF TypeOK, Others
  <2>2. at'[c].pc = "idle" /\ at'[c].pending = <<>> /\ at'[c].cache = Nil
    BY <1>5, <2>1
  <2>3. at'[c].todo = <<>>
    BY <2>1 DEF Idle
  <2> QED BY <2>1, <2>2, <2>3 DEF Shape
<1>7. join[t] \in Nat /\ (needs[t] # {} => join[t] >= 1) /\ (needs[t] = {} => join[t] = 0)
  <2>1. join[t] \in Nat /\ (needs[t] # {} => join[t] >= Len(at[c].todo) + 1)
    BY <1>1, <1>4, Awaited
  <2>2. Len(at[c].todo) = 0
    BY <1>1, EmptySeq
  <2> QED BY <1>1, <2>1, <2>2 DEF ArrivalsCounted
<1>8. /\ join' \in [Tasks -> Nat] /\ join'[t] = IF needs[t] = {} THEN 0 ELSE join[t] - 1
      /\ \A s \in Tasks \ {t} : join'[s] = join[s]
  <2>1. join \in [Tasks -> Nat] /\ (needs[t] # {} => join[t] - 1 \in Nat)
    BY <1>1, <1>7, SMTT(30) DEF TypeOK
  <2>2. CASE needs[t] = {}
    <3>1. join' = [join EXCEPT ![t] = @]
      BY <1>3, <2>2
    <3> QED BY <1>7, <2>1, <2>2, <3>1
  <2>3. CASE needs[t] # {}
    <3>1. join' = [join EXCEPT ![t] = @ - 1]
      BY <1>3, <2>3
    <3> QED BY <2>1, <2>3, <3>1
  <2> QED BY <2>2, <2>3
<1>9. /\ queue' \in [Tasks -> Nat] /\ queue'[t] = queue[t] + IF join'[t] = 0 THEN 1 ELSE 0
      /\ \A s \in Tasks \ {t} : queue'[s] = queue[s]
  <2>1. queue \in [Tasks -> Nat] /\ queue[t] \in Nat /\ queue[t] + 1 \in Nat
    BY <1>1 DEF TypeOK
  <2>2. CASE join'[t] = 0
    <3>1. queue' = [queue EXCEPT ![t] = @ + 1]
      BY <1>3, <2>2
    <3> QED BY <2>1, <2>2, <3>1
  <2>3. CASE join'[t] # 0
    <3>1. queue' = [queue EXCEPT ![t] = @]
      BY <1>3, <2>3
    <3> QED BY <2>1, <2>3, <3>1
  <2> QED BY <2>2, <2>3
<1>10. /\ handles' \in [Clients -> SUBSET Tasks] /\ handles'[c] = handles[c] \cup {t}
       /\ \A e \in Clients \ {c} : handles'[e] = handles[e]
  BY <1>1, <1>3 DEF TypeOK
<1>11. Held(c)' = Held(c)
  BY <1>1, <1>2, <1>6, <1>10 DEF Held
<1>12. ClientHolds(c)'
  BY <1>6 DEF ClientHolds
<1>13. /\ TypeOK' /\ Stages' /\ RefsCounted' /\ WaiterNotified'
       /\ \A s \in Tasks : RefsFinite(s)'
  BY <1>1, <1>2, <1>6, <1>8, <1>9, <1>10, <1>11, <1>12, LinkFrame
<1>14. Linked'
  <2> SUFFICES ASSUME NEW s \in Tasks, status'[s] = "Running", NEW d \in needs'[s]
               PROVE  \/ status'[d] = "Finished"
                      \/ \E y \in Threads : Starting(at'[y], s) /\ d \in Range(at'[y].todo)
                      \/ Count(Successors(d)', s) >= 1
    BY DEF Linked, Count
  <2>1. Successors(d)' = Successors(d)
    BY <1>1 DEF Successors, edgeVars
  <2>2. \/ status[d] = "Finished"
        \/ \E y \in Threads : Starting(at[y], s) /\ d \in Range(at[y].todo)
        \/ Count(Successors(d), s) >= 1
    BY <1>1 DEF Linked
  <2>3. ASSUME NEW y \in Threads, Starting(at[y], s), d \in Range(at[y].todo)
        PROVE  Starting(at'[y], s) /\ d \in Range(at'[y].todo)
    <3>1. y # c
      BY <1>1, <2>3, RangeOfEmpty
    <3> QED BY <1>6, <2>3, <3>1 DEF Others
  <2> QED BY <1>1, <2>1, <2>2, <2>3
<1>15. \A s : ~Starting(at'[c], s) /\ StartsFor(at'[c], s) = 0
  BY <1>6 DEF Starting, StartsFor
<1>16. ArrivalsCounted' /\ \A s \in Tasks : ArrivalsFinite(s)'
  <2>1. ASSUME NEW CONSTANT s \in Tasks
        PROVE  /\ ArrivalsFinite(s)' /\ Promises(s)' = Promises(s) /\ Reaches(s)' = Reaches(s)
               /\ Starters(s)' = Starters(s) - IF s = t THEN 1 ELSE 0
    <3>1. ToReach(c) = <<>> /\ ToReach(c)' = <<>> /\ <<>> \in Seq(Tasks)
      BY <1>1, <1>6, EmptySeq DEF ToReach
    <3>2. StartsFor(at[c], s) = IF s = t THEN 1 ELSE 0
      <4>1. Len(at[c].todo) = 0
        BY <1>1, EmptySeq
      <4> QED BY <1>1, <1>2, <4>1 DEF StartsFor
    <3>3. /\ ArrivalsFinite(s)'
          /\ Starters(s)' = Starters(s) - StartsFor(at[c], s) + StartsFor(at'[c], s)
          /\ Promises(s)' = Promises(s)
          /\ Reaches(s)' = Reaches(s) - Count(ToReach(c), s) + Count(ToReach(c)', s)
      <4>1. StartsFor(at'[c], s) \in Nat /\ ToReach(c)' \in Seq(Tasks)
        BY <1>15, <3>1
      <4>2. UNCHANGED status /\ UNCHANGED edgeVars
        BY <1>1
      <4> QED BY <1>1, <1>6, <4>1, <4>2, ArrivalsBalance
    <3>4. Starters(s) \in Nat /\ Reaches(s) \in Nat /\ Count(<<>>, s) = 0
      BY <1>1, SumsType, CountEmpty
    <3>5. Reaches(s)' = Reaches(s)
      BY <3>1, <3>3, <3>4
    <3>6. Starters(s)' = Starters(s) - IF s = t THEN 1 ELSE 0
      BY <1>15, <3>2, <3>3, <3>4
    <3> QED BY <3>3, <3>5, <3>6
  <2>2. ASSUME NEW CONSTANT s \in Tasks
        PROVE  IF needs'[s] = {} THEN join'[s] = 0 /\ Promises(s)' = 0 /\ Reaches(s)' = 0
               ELSE join'[s] = Starters(s)' + Promises(s)' + Reaches(s)'
    <3>1. Starters(s) \in Nat /\ Reaches(s) \in Nat /\ Promises(s) \in Nat
      BY <1>1, SumsType
    <3>2. CASE s = t
      <4>1. IF needs[t] = {} THEN join[t] = 0 /\ Promises(t) = 0 /\ Reaches(t) = 0
            ELSE join[t] = Starters(t) + Promises(t) + Reaches(t)
        BY <1>1 DEF ArrivalsCounted
      <4>2. /\ Starters(t)' = Starters(t) - 1 /\ Promises(t)' = Promises(t)
            /\ Reaches(t)' = Reaches(t) /\ needs'[t] = needs[t]
        BY <1>1, <2>1, <3>2
      <4>3. CASE needs[t] = {}
        BY <1>8, <3>2, <4>1, <4>2, <4>3
      <4>4. CASE needs[t] # {}
        <5>1. join'[t] = join[t] - 1 /\ join[t] = Starters(t) + Promises(t) + Reaches(t)
          BY <1>8, <4>1, <4>4
        <5>2. join'[t] = Starters(t)' + Promises(t)' + Reaches(t)'
          BY <3>1, <3>2, <4>2, <5>1
        <5> QED BY <3>2, <4>2, <4>4, <5>2
      <4> QED BY <4>3, <4>4
    <3>3. CASE s # t
      <4>1. Starters(s)' = Starters(s) /\ join'[s] = join[s]
        BY <1>8, <2>1, <3>1, <3>3
      <4> QED BY <1>1, <2>1, <4>1 DEF ArrivalsCounted
    <3> QED BY <3>2, <3>3
  <2> QED BY <2>1, <2>2 DEF ArrivalsCounted
<1>17. ScheduledOnce' /\ \A s \in Tasks : ScheduleFinite(s)'
  <2>1. ASSUME NEW CONSTANT s \in Tasks
        PROVE  /\ ScheduleFinite(s)'
               /\ Cached(s)' = Cached(s) /\ InBody(s)' = InBody(s)
    <3>1. /\ Caches(at'[c], s) = Caches(at[c], s) /\ Runs(at'[c], s) = 0 /\ Runs(at[c], s) = 0
          /\ Caches(at[c], s) \in Nat
      BY <1>1, <1>6 DEF Caches, Runs
    <3>2. /\ ScheduleFinite(s)'
          /\ Cached(s)' = Cached(s) - Caches(at[c], s) + Caches(at'[c], s)
          /\ InBody(s)' = InBody(s) - Runs(at[c], s) + Runs(at'[c], s)
      BY <1>1, <1>6, ScheduleBalance
    <3>3. Cached(s) \in Nat /\ InBody(s) \in Nat
      BY <1>1, SumsType
    <3> QED BY <3>1, <3>2, <3>3
  <2>2. ASSUME NEW s \in Tasks
        PROVE  queue'[s] + Cached(s)' + InBody(s)' =
                 IF status'[s] = "Running" /\ join'[s] = 0 /\ \A x \in Threads : ~Starting(at'[x], s)
                 THEN 1 ELSE 0
    <3>1. CASE s = t
      <4>1. queue[t] + Cached(t) + InBody(t) = 0
        BY <1>1, <1>4 DEF ScheduledOnce
      <4>2. \A x \in Threads : ~Starting(at'[x], t)
        BY <1>1, <1>4, <1>6, <1>15 DEF StartsOnce, Others
      <4>3. queue[t] \in Nat /\ Cached(t) \in Nat /\ InBody(t) \in Nat
        BY <1>1, SumsType DEF TypeOK
      <4>4. queue'[t] + Cached(t)' + InBody(t)' = IF join'[t] = 0 THEN 1 ELSE 0
        BY <1>9, <2>1, <4>1, <4>3
      <4> QED BY <1>1, <1>4, <3>1, <4>2, <4>4
    <3>2. CASE s # t
      <4>1. ASSUME NEW x \in Threads PROVE Starting(at'[x], s) <=> Starting(at[x], s)
        BY <1>2, <1>6, <1>15, <3>2 DEF Starting, Others
      <4>2. queue[s] + Cached(s) + InBody(s) =
              IF status[s] = "Running" /\ join[s] = 0 /\ \A x \in Threads : ~Starting(at[x], s)
              THEN 1 ELSE 0
        BY <1>1 DEF ScheduledOnce
      <4> QED BY <1>1, <1>8, <1>9, <2>1, <3>2, <4>1, <4>2
    <3> QED BY <3>1, <3>2
  <2> QED BY <2>1, <2>2 DEF ScheduledOnce
<1> QED BY <1>13, <1>14, <1>16, <1>17 DEF AInv, Sums, Finite

\* The task is registered with a predecessor that has not finished.
LEMMA LinkAppendStep ==
  ASSUME AInv, NEW CONSTANT c \in Clients, LinkAppend(c)
  PROVE  AInv'
<1>1. /\ TypeOK /\ Shapes /\ ClientsHold /\ LocksHeld /\ StartsOnce /\ EndsOnce /\ TaskStages
      /\ Linked /\ WaiterNotified /\ RefsCounted /\ ArrivalsCounted
      /\ \A s \in Tasks : Finite(s)
      /\ ClientHolds(c) /\ c \in Threads /\ c \notin Workers
      /\ at[c] \in ThreadStates /\ at[c].pc = "append" /\ at[c].todo \in Seq(Tasks)
      /\ at[c].todo # <<>> /\ at[c].task \in Tasks /\ at[c].pending = <<>> /\ at[c].cache = Nil
  BY AsyncAssumption
     DEF AInv, Stages, Sums, Shapes, Shape, TypeOK, LinkAppend, ThreadStates, Threads, ClientsHold
<1>2. /\ UNCHANGED <<status, refs, join, life, handles, queue, needs>>
      /\ UNCHANGED status /\ UNCHANGED needs
  BY DEF LinkAppend
<1>3. /\ Tail(at[c].todo) \in Seq(Tasks) /\ Len(Tail(at[c].todo)) = Len(at[c].todo) - 1
      /\ Len(at[c].todo) \in Nat \ {0}
      /\ Head(at[c].todo) \in Range(at[c].todo) /\ Head(at[c].todo) \in Tasks
      /\ Range(at[c].todo) = {Head(at[c].todo)} \cup Range(Tail(at[c].todo))
  BY <1>1, HeadTailProperties, RangeOfHeadTail, EmptySeq, LenProperties
<1>4. SUFFICES ASSUME NEW CONSTANT t \in Tasks, t = at[c].task,
                      NEW CONSTANT d \in Tasks, d = Head(at[c].todo)
               PROVE  AInv'
  BY <1>1, <1>3
<1>5. /\ status[t] = "Running" /\ status[d] = "Running" /\ d \in needs[t] /\ d # t
      /\ needs[t] # {} /\ life[d] = "live" /\ Starting(at[c], t) /\ Locks(at[c], d)
  <2>1. status[t] = "Running" /\ status[d] = "Running" /\ d \in needs[t]
    BY <1>1, <1>3, <1>4 DEF ClientHolds
  <2>2. d # t
    BY <1>1, <2>1 DEF TaskStages
  <2>3. life[d] = "live"
    <3>1. Executing(d)
      BY <2>1 DEF Executing
    <3>2. refs[d] >= 1
      BY <3>1, Referred
    <3> QED BY <3>2, Referred
  <2>4. Starting(at[c], t) /\ Locks(at[c], d)
    BY <1>1, <1>4 DEF Starting, Locks
  <2> QED BY <2>1, <2>2, <2>3, <2>4
<1>6. /\ m_edges' = [m_edges EXCEPT ![d] = Registered(@, m_num_successors[d], t)]
      /\ m_num_successors' = [m_num_successors EXCEPT ![d] = @ + 1]
      /\ locked' = [locked EXCEPT ![d] = FALSE]
      /\ at' = [at EXCEPT ![c].pc = "link", ![c].todo = Tail(@)]
  BY <1>4 DEF LinkAppend, NextPredecessor
<1>7. /\ at' \in [Threads -> ThreadStates] /\ Others(c)
      /\ at'[c].pc = "link" /\ at'[c].task = t /\ at'[c].todo = Tail(at[c].todo)
      /\ at'[c].pending = <<>> /\ at'[c].cache = Nil
  <2>1. at' \in [Threads -> ThreadStates] /\ Others(c)
    BY <1>1, <1>3, <1>6 DEF TypeOK, ThreadStates, Others
  <2> QED BY <1>1, <1>4, <1>6, <2>1 DEF TypeOK, ThreadStates
<1>8. Shape(at'[c])
  BY <1>7 DEF Shape
<1> DEFINE s0 == m_edges[d]
           n == m_num_successors[d]
           e == Registered(s0, n, t)
<1>9. s0 \in Seq(Tasks) /\ n \in Nat /\ n <= Len(s0) /\ Len(s0) \in Nat
  BY <1>1, LenProperties DEF TypeOK
<1>10. /\ e \in Seq(Tasks) /\ Len(e) = Len(s0) + 1
       /\ SubSeq(e, 1, n + 1) = Append(SubSeq(s0, 1, n), t)
       /\ \A s : Count(SubSeq(e, n + 1 + 1, Len(e)), s) = Count(SubSeq(s0, n + 1, Len(s0)), s)
  <2> HIDE DEF s0, n
  <2> QED BY <1>9, RegisteredKeeps
<1>11. /\ m_edges' \in [Tasks -> Seq(Tasks)] /\ m_num_successors' \in [Tasks -> Nat]
       /\ locked' \in [Tasks -> BOOLEAN] /\ ~locked'[d]
       /\ m_edges'[d] = e /\ m_num_successors'[d] = n + 1
       /\ \A u \in Tasks \ {d} : /\ m_edges'[u] = m_edges[u] /\ locked'[u] = locked[u]
                                 /\ m_num_successors'[u] = m_num_successors[u]
  <2>1. m_num_successors \in [Tasks -> Nat] /\ n + 1 \in Nat
    <3>1. m_num_successors \in [Tasks -> Nat]
      BY <1>1 DEF TypeOK
    <3> HIDE DEF n
    <3> QED BY <1>9, <3>1
  <2>2. m_edges' = [m_edges EXCEPT ![d] = e]
    BY <1>6
  <2>3. m_edges \in [Tasks -> Seq(Tasks)] /\ locked \in [Tasks -> BOOLEAN]
    BY <1>1 DEF TypeOK
  <2> HIDE DEF e
  <2>4. m_edges' \in [Tasks -> Seq(Tasks)] /\ m_edges'[d] = e /\ \A u \in Tasks \ {d} : m_edges'[u] = m_edges[u]
    BY <1>10, <2>2, <2>3
  <2> QED BY <1>6, <2>1, <2>3, <2>4
<1>12. /\ \A u \in Tasks \ {d} : Predecessors(u)' = Predecessors(u) /\ Successors(u)' = Successors(u)
       /\ Successors(d)' = Append(Successors(d), t)
       /\ Successors(d) \in Seq(Tasks)
       /\ Predecessors(d) \in Seq(Tasks) /\ Predecessors(d)' \in Seq(Tasks)
       /\ \A s : Count(Predecessors(d)', s) = Count(Predecessors(d), s)
  <2>1. \A u \in Tasks \ {d} : Predecessors(u)' = Predecessors(u) /\ Successors(u)' = Successors(u)
    BY <1>11 DEF Predecessors, Successors
  <2>2. /\ Predecessors(d) = SubSeq(s0, n + 1, Len(s0)) /\ Successors(d) = SubSeq(s0, 1, n)
        /\ Predecessors(d)' = SubSeq(e, n + 1 + 1, Len(e)) /\ Successors(d)' = SubSeq(e, 1, n + 1)
    BY <1>11 DEF Predecessors, Successors
  <2>3. Predecessors(d) \in Seq(Tasks) /\ Successors(d) \in Seq(Tasks)
    BY <1>1, EdgesType
  <2>4. SubSeq(e, n + 1 + 1, Len(e)) \in Seq(Tasks)
    <3>1. n + 1 \in Nat /\ Len(e) \in Nat /\ Len(e) <= Len(e)
      BY <1>9, <1>10
    <3> HIDE DEF e, n
    <3> QED BY <1>10, <3>1, PartOfEdges
  <2> HIDE DEF e, n, s0
  <2> QED BY <1>10, <2>1, <2>2, <2>3, <2>4
<1> HIDE DEF e, n, s0
<1>13. TypeOK'
  <2>1. ASSUME NEW u \in Tasks PROVE m_num_successors'[u] <= Len(m_edges'[u])
    <3>1. CASE u = d
      <4>1. m_num_successors'[u] = n + 1 /\ Len(m_edges'[u]) = Len(s0) + 1
        BY <1>10, <1>11, <3>1
      <4> QED BY <1>9, <4>1
    <3>2. CASE u # d
      <4>1. m_num_successors'[u] = m_num_successors[u] /\ m_edges'[u] = m_edges[u]
        BY <1>11, <3>2
      <4> QED BY <1>1, <4>1 DEF TypeOK
    <3> QED BY <3>1, <3>2
  <2> QED BY <1>1, <1>2, <1>7, <1>11, <2>1 DEF TypeOK
<1>14. Shapes'
  BY <1>1, <1>7, <1>8, ShapesStep
<1>15. ClientsHold'
  <2>1. ClientHolds(c)'
    BY <1>1, <1>2, <1>3, <1>4, <1>5, <1>7 DEF ClientHolds
  <2> QED BY <1>1, <1>2, <1>7, <2>1, ClientsFrame
<1>16. LocksHeld'
  <2>1. \A s : ~Locks(at'[c], s)
    BY <1>7 DEF Locks
  <2>2. \A s \in Tasks : locked[s] /\ ~locked'[s] => Locks(at[c], s)
    BY <1>5, <1>11
  <2> QED BY <1>1, <1>7, <2>1, <2>2, LocksStep
<1>17. \A s : Starting(at'[c], s) <=> Starting(at[c], s)
  BY <1>1, <1>4, <1>7 DEF Starting
<1>18. StartsOnce'
  BY <1>1, <1>7, <1>17, StartsOnceStep
<1>19. ASSUME NEW y \in Threads, NEW s, Ending(at[y], s) PROVE s # d
  BY <1>1, <1>5, <1>19 DEF EndsOnce
<1>20. EndsOnce'
  <2>1. \A s : ~Ending(at'[c], s)
    BY <1>7 DEF Ending
  <2>2. ASSUME NEW y \in Threads \ {c}, at[y].pc = "successors"
        PROVE  m_num_successors'[at[y].task] = m_num_successors[at[y].task]
    <3>1. at[y].task \in Tasks /\ at[y].task # d
      BY <1>1, <1>19, <2>2 DEF Shapes, Shape, Ending
    <3> QED BY <1>11, <3>1
  <2>3. at'[c].pc # "successors"
    BY <1>7
  <2> QED BY <1>1, <1>2, <1>7, <2>1, <2>2, <2>3, EndsOnceStep
<1>21. WaiterNotified'
  BY <1>1, <1>2, <1>7, WaiterFrame
<1>22. TaskStages'
  <2> SUFFICES ASSUME NEW s \in Tasks
               PROVE  /\ status'[s] = "Idle" => m_edges'[s] = <<>> /\ needs'[s] = {}
                      /\ life'[s] = "none" => status'[s] = "Idle"
                      /\ life'[s] # "live" => m_edges'[s] = <<>> /\ refs'[s] = 0
                      /\ life'[s] = "live" => \A u \in Tasks :
                           u \in needs'[s] <=> Count(Predecessors(s)', u) >= 1
                      /\ status'[s] # "Running" => join'[s] = 0
                      /\ \A u \in needs'[s] : status'[u] # "Idle" /\ u # s
    BY DEF TaskStages, Count
  <2>1. \A u : Count(Predecessors(s)', u) = Count(Predecessors(s), u)
    BY <1>12
  <2>2. s # d => m_edges'[s] = m_edges[s]
    BY <1>11
  <2> QED BY <1>1, <1>2, <1>5, <2>1, <2>2 DEF TaskStages
<1>23. Linked'
  <2> SUFFICES ASSUME NEW s \in Tasks, status'[s] = "Running", NEW u \in needs'[s]
               PROVE  \/ status'[u] = "Finished"
                      \/ \E y \in Threads : Starting(at'[y], s) /\ u \in Range(at'[y].todo)
                      \/ Count(Successors(u)', s) >= 1
    BY DEF Linked, Count
  <2>1. \/ status[u] = "Finished"
        \/ \E y \in Threads : Starting(at[y], s) /\ u \in Range(at[y].todo)
        \/ Count(Successors(u), s) >= 1
    BY <1>1, <1>2 DEF Linked
  <2>2. \A k : Count(Successors(d)', k) = Count(Successors(d), k) + IF t = k THEN 1 ELSE 0
    BY <1>12, IndicesOfAppend DEF Count
  <2>3. \A k : Count(Successors(d), k) \in Nat
    BY <1>12, CountType
  <2>4. u \in Tasks
    BY <1>1, <1>2 DEF TypeOK
  <2>5. CASE Count(Successors(u), s) >= 1
    <3>1. CASE u = d
      <4>1. Count(Successors(d)', s) >= 1
        BY <2>2, <2>3, <2>5, <3>1
      <4> QED BY <3>1, <4>1
    <3>2. CASE u # d
      BY <1>12, <2>4, <2>5, <3>2
    <3> QED BY <3>1, <3>2
  <2>6. ASSUME NEW y \in Threads, Starting(at[y], s), u \in Range(at[y].todo)
        PROVE  \/ Starting(at'[y], s) /\ u \in Range(at'[y].todo)
               \/ Count(Successors(u)', s) >= 1
    <3>1. CASE y # c
      BY <1>7, <2>6, <3>1 DEF Others
    <3>2. CASE y = c /\ u \in Range(Tail(at[c].todo))
      BY <1>7, <1>17, <2>6, <3>2
    <3>3. CASE y = c /\ u = d
      <4>1. s = t
        BY <1>4, <2>6, <3>3 DEF Starting
      <4>2. Count(Successors(d)', t) >= 1
        BY <2>2, <2>3
      <4> QED BY <3>3, <4>1, <4>2
    <3> QED BY <1>3, <1>4, <2>6, <3>1, <3>2, <3>3
  <2> QED BY <1>2, <2>1, <2>5, <2>6
<1>24. ASSUME NEW CONSTANT s \in Tasks
       PROVE  /\ RefsFinite(s)'
              /\ Futures(s)' = Futures(s) /\ Dependents(s)' = Dependents(s)
              /\ Unlinkers(s)' = Unlinkers(s) /\ Destroyers(s)' = Destroyers(s)
  <2>1. IsFiniteSet(Units(FutureOf(s), Clients)') /\ Futures(s)' = Futures(s)
    <3>1. \A x \in Clients : Held(x)' = Held(x)
      <4>1. \A x \in Clients \ {c} : at'[x] = at[x]
        BY <1>7 DEF Others, Threads
      <4> QED BY <1>1, <1>2, <1>4, <1>7, <4>1 DEF Held
    <3> QED BY <1>1, <3>1, FuturesSame
  <2>2. /\ IsFiniteSet(Places(PredecessorsOf, Tasks, s)')
        /\ Dependents(s)' = Dependents(s) - Count(Predecessors(d), s) + Count(Predecessors(d)', s)
    BY <1>1, <1>12, DependentsStep
  <2>3. Unlinks(at[c]) = <<>> /\ Unlinks(at'[c]) = <<>> /\ <<>> \in Seq(Tasks)
    BY <1>1, <1>7, EmptySeq DEF Unlinks
  <2>4. /\ IsFiniteSet(Places(UnlinksOf, Threads, s)')
        /\ Unlinkers(s)' = Unlinkers(s) - Count(Unlinks(at[c]), s) + Count(Unlinks(at'[c]), s)
    BY <1>1, <1>7, <2>3, UnlinkersStep
  <2>5. /\ IsFiniteSet(Places(PendingOf, Threads, s)')
        /\ Destroyers(s)' = Destroyers(s) - Count(at[c].pending, s) + Count(at'[c].pending, s)
    BY <1>1, <1>7, <2>3, DestroyersStep
  <2>6. /\ Dependents(s) \in Nat /\ Unlinkers(s) \in Nat /\ Destroyers(s) \in Nat
        /\ Count(Predecessors(d), s) \in Nat /\ Count(<<>>, s) = 0
    BY <1>1, <1>12, SumsType, CountType, CountEmpty
  <2>7. Dependents(s)' = Dependents(s)
    <3> DEFINE p == Count(Predecessors(d), s)
    <3>1. p \in Nat /\ Dependents(s)' = Dependents(s) - p + p
      BY <1>12, <2>2, <2>6
    <3> HIDE DEF p
    <3> QED BY <2>6, <3>1
  <2>8. Unlinkers(s)' = Unlinkers(s) /\ Destroyers(s)' = Destroyers(s)
    BY <1>1, <1>7, <2>3, <2>4, <2>5, <2>6
  <2> QED BY <2>1, <2>2, <2>4, <2>5, <2>7, <2>8 DEF RefsFinite
<1>25. RefsCounted'
  <2>1. \A s \in Tasks : Executing(s)' <=> Executing(s)
    <3>1. \A w \in Workers : at'[w] = at[w]
      BY <1>1, <1>7 DEF Others, Threads
    <3> QED BY <1>2, <3>1 DEF Executing
  <2>2. ASSUME NEW CONSTANT s \in Tasks
        PROVE  /\ refs'[s] = Futures(s)' + Dependents(s)' + Unlinkers(s)'
                               + (IF Executing(s)' THEN 1 ELSE 0)
               /\ Destroyers(s)' = IF life'[s] = "live" /\ refs'[s] = 0 THEN 1 ELSE 0
    BY <1>1, <1>2, <1>24, <2>1 DEF RefsCounted
  <2> QED BY <2>2 DEF RefsCounted
<1>26. \A u \in Tasks \ {d} : Promised(u)' = Promised(u)
  BY <1>2, <1>12 DEF Promised
<1>27. Promised(d) = Successors(d) /\ Promised(d)' = Append(Successors(d), t)
  BY <1>2, <1>5, <1>12 DEF Promised
<1>28. ASSUME NEW y \in Threads PROVE ToReach(y)' = ToReach(y)
  <2>1. CASE y = c
    BY <1>1, <1>7, <2>1 DEF ToReach
  <2>2. CASE y # c /\ at[y].pc \in {"notify", "successors"}
    <3>1. at'[y] = at[y] /\ at[y].task \in Tasks /\ at[y].task # d
      BY <1>1, <1>7, <1>19, <2>2 DEF Shapes, Shape, Ending, Others
    <3>2. /\ Successors(at[y].task)' = Successors(at[y].task)
          /\ m_edges'[at[y].task] = m_edges[at[y].task]
          /\ m_num_successors'[at[y].task] = m_num_successors[at[y].task]
      BY <1>11, <1>12, <3>1
    <3> QED BY <3>1, <3>2 DEF ToReach, Successors
  <2>3. CASE y # c /\ at[y].pc \notin {"notify", "successors"}
    BY <1>7, <2>3 DEF ToReach, Others
  <2> QED BY <2>1, <2>2, <2>3
<1>29. ASSUME NEW CONSTANT s \in Tasks
       PROVE  /\ ArrivalsFinite(s)' /\ Reaches(s)' = Reaches(s)
              /\ Starters(s)' = Starters(s) - IF s = t THEN 1 ELSE 0
              /\ Promises(s)' = Promises(s) + IF s = t THEN 1 ELSE 0
  <2>1. /\ StartsFor(at[c], s) = IF s = t THEN Len(at[c].todo) + 1 ELSE 0
        /\ StartsFor(at'[c], s) = IF s = t THEN Len(at[c].todo) ELSE 0
    BY <1>1, <1>3, <1>4, <1>7 DEF StartsFor
  <2>2. /\ IsFiniteSet(Units(StarterOf(s), Threads)')
        /\ Starters(s)' = Starters(s) - StartsFor(at[c], s) + StartsFor(at'[c], s)
    <3>1. StartsFor(at[c], s) \in Nat /\ StartsFor(at'[c], s) \in Nat
      BY <1>3, <2>1
    <3> QED BY <1>1, <1>7, <3>1, StartersStep
  <2>3. IsFiniteSet(Places(ToReachOf, Threads, s)') /\ Reaches(s)' = Reaches(s)
    BY <1>1, <1>28, ReachesSame
  <2>4. Append(Successors(d), t) \in Seq(Tasks)
    BY <1>12, AppendProperties
  <2>5. /\ IsFiniteSet(Places(PromisedOf, Tasks, s)')
        /\ Promises(s)' = Promises(s) - Count(Promised(d), s) + Count(Promised(d)', s)
    BY <1>1, <1>12, <1>26, <1>27, <2>4, PromisesStep
  <2>6. Count(Promised(d)', s) = Count(Promised(d), s) + IF t = s THEN 1 ELSE 0
    BY <1>12, <1>27, IndicesOfAppend DEF Count
  <2>7. Starters(s) \in Nat /\ Promises(s) \in Nat /\ Count(Promised(d), s) \in Nat
    BY <1>1, <1>12, <1>27, SumsType, CountType
  <2>8. Starters(s)' = Starters(s) - IF s = t THEN 1 ELSE 0
    BY <1>3, <2>1, <2>2, <2>7
  <2>9. Promises(s)' = Promises(s) + IF s = t THEN 1 ELSE 0
    <3> DEFINE p == Count(Promised(d), s)
               one == IF s = t THEN 1 ELSE 0
    <3>1. p \in Nat /\ one \in Nat /\ Promises(s)' = Promises(s) - p + (p + one)
      BY <2>5, <2>6, <2>7
    <3> HIDE DEF p, one
    <3>2. Promises(s)' = Promises(s) + one
      BY <2>7, <3>1
    <3> QED BY <3>2 DEF one
  <2> QED BY <2>2, <2>3, <2>5, <2>8, <2>9 DEF ArrivalsFinite
<1>30. ArrivalsCounted'
  <2>1. ASSUME NEW CONSTANT s \in Tasks
        PROVE  IF needs'[s] = {} THEN join'[s] = 0 /\ Promises(s)' = 0 /\ Reaches(s)' = 0
               ELSE join'[s] = Starters(s)' + Promises(s)' + Reaches(s)'
    <3>1. Starters(s) \in Nat /\ Reaches(s) \in Nat /\ Promises(s) \in Nat
      BY <1>1, SumsType
    <3>2. CASE s = t
      <4>1. join[t] = Starters(t) + Promises(t) + Reaches(t)
        BY <1>1, <1>5 DEF ArrivalsCounted
      <4>2. Starters(s)' = Starters(s) - 1 /\ Promises(s)' = Promises(s) + 1 /\ Reaches(s)' = Reaches(s)
        BY <1>29, <3>2
      <4>3. join'[s] = Starters(s)' + Promises(s)' + Reaches(s)'
        BY <1>2, <3>1, <3>2, <4>1, <4>2
      <4> QED BY <1>2, <1>5, <3>2, <4>3
    <3>3. CASE s # t
      <4>1. Starters(s)' = Starters(s) /\ Promises(s)' = Promises(s) /\ Reaches(s)' = Reaches(s)
        BY <1>29, <3>1, <3>3
      <4> QED BY <1>1, <1>2, <4>1 DEF ArrivalsCounted
    <3> QED BY <3>2, <3>3
  <2> QED BY <2>1 DEF ArrivalsCounted
<1>31. ScheduledOnce' /\ \A s \in Tasks : ScheduleFinite(s)'
  <2>1. ASSUME NEW s \in Tasks
        PROVE  /\ queue'[s] + Caches(at'[c], s) + Runs(at'[c], s) =
                    queue[s] + Caches(at[c], s) + Runs(at[c], s)
               /\ queue'[s] \in Nat
    BY <1>1, <1>2, <1>7 DEF Caches, Runs, TypeOK
  <2> QED BY <1>1, <1>2, <1>7, <1>17, <2>1, ScheduleFrame
<1> QED BY <1>13, <1>14, <1>15, <1>16, <1>18, <1>20, <1>21, <1>22, <1>23, <1>24, <1>25, <1>29,
           <1>30, <1>31
        DEF AInv, Stages, Sums, Finite

-----------------------------------------------------------------------------
(* Workers.                                                                *)

\* A worker takes a task from a queue.
LEMMA TakeStep ==
  ASSUME AInv, NEW CONSTANT w \in Workers, Take(w)
  PROVE  AInv'
<1>1. /\ TypeOK /\ Stages /\ Shapes /\ ClientsHold /\ LocksHeld /\ StartsOnce /\ EndsOnce /\ TaskStages
      /\ Linked /\ WaiterNotified /\ at[w].pc = "idle" /\ at[w] = Idle
      /\ w \in Threads /\ w \notin Clients
      /\ UNCHANGED <<status, locked, refs, join, edgeVars, life, handles, needs>>
  BY AsyncAssumption DEF AInv, Stages, Threads, Shapes, Shape, Take, control
<1>2. \E t \in Tasks : /\ queue[t] > 0 /\ queue' = [queue EXCEPT ![t] = @ - 1]
                       /\ at' = [at EXCEPT ![w] = Resumed(t)]
  BY DEF Take
<1>3. SUFFICES ASSUME NEW CONSTANT t \in Tasks, queue[t] > 0, queue' = [queue EXCEPT ![t] = @ - 1],
                      at' = [at EXCEPT ![w] = Resumed(t)]
               PROVE  AInv'
  BY <1>2
<1>4. /\ Resumed(t) = [Idle EXCEPT !.pc = "body", !.task = t] /\ Nil \notin Tasks
      /\ <<>> \in Seq(Tasks)
  BY AsyncAssumption, EmptySeq DEF Resumed
<1>5. /\ Resumed(t) \in ThreadStates /\ Resumed(t).pc = "body" /\ Resumed(t).task = t
      /\ Resumed(t).todo = <<>> /\ Resumed(t).pending = <<>> /\ Resumed(t).cache = Nil
  <2> DEFINE r == Resumed(t)
  <2>1. r = [Idle EXCEPT !.pc = "body", !.task = t]
    BY <1>4
  <2> HIDE DEF r
  <2>2. /\ r \in ThreadStates /\ r.pc = "body" /\ r.task = t
        /\ r.todo = <<>> /\ r.pending = <<>> /\ r.cache = Nil
    BY <1>4, <2>1 DEF Idle, ThreadStates
  <2> QED BY <2>2 DEF r
<1>6. /\ at' \in [Threads -> ThreadStates] /\ Others(w) /\ at'[w] = Resumed(t)
  BY <1>1, <1>3, <1>5 DEF TypeOK, Others
<1>7. /\ at'[w].pc = "body" /\ at'[w].task = t /\ at'[w].todo = <<>> /\ at'[w].pending = <<>>
      /\ at'[w].cache = Nil
  BY <1>5, <1>6
<1>8. at[w].todo = <<>> /\ at[w].pending = <<>> /\ at[w].cache = Nil
  BY <1>1 DEF Idle
<1>9. Shape(at'[w])
  BY <1>7 DEF Shape
<1>10. /\ queue' \in [Tasks -> Nat]
       /\ \A s \in Tasks : queue'[s] = queue[s] - (IF s = t THEN 1 ELSE 0) /\ queue[s] \in Nat
  <2>1. queue \in [Tasks -> Nat]
    BY <1>1 DEF TypeOK
  <2>2. queue[t] - 1 \in Nat
    BY <1>3, <2>1
  <2> QED BY <1>3, <2>1, <2>2
<1>11. TypeOK'
  BY <1>1, <1>6, <1>10 DEF TypeOK, edgeVars
<1>12. Shapes'
  BY <1>1, <1>6, <1>7, <1>9, ShapesStep
<1>13. TaskStages'
  BY <1>1, StagesFrame
<1>14. ClientsHold'
  BY <1>1, <1>6, ClientsFrame
<1>15. \A s : /\ ~Starting(at'[w], s) /\ ~Starting(at[w], s) /\ ~Ending(at'[w], s) /\ ~Ending(at[w], s)
              /\ ~Locks(at'[w], s) /\ ~Locks(at[w], s)
  BY <1>1, <1>7 DEF Starting, Ending, Locks
<1>16. LocksHeld' /\ StartsOnce'
  BY <1>1, <1>6, <1>15, LocksStep, StartsOnceStep
<1>17. EndsOnce'
  BY <1>1, <1>6, <1>7, <1>15, EndsOnceStep DEF edgeVars
<1>18. Linked'
  BY <1>1, <1>6, <1>15, LinkedFrame
<1>19. WaiterNotified'
  BY <1>1, <1>6, <1>7, WaiterFrame
<1>20. RefsCounted' /\ \A s \in Tasks : RefsFinite(s)'
  <2>1. \A s \in Tasks : Executing(s)' <=> Executing(s)
    <3>1. \A y \in Workers : \A s : Ending(at'[y], s) <=> Ending(at[y], s)
      BY <1>6, <1>15 DEF Others, Threads
    <3> QED BY <1>1, <3>1 DEF Executing, Ending
  <2>2. \A e \in Clients : Held(e)' = Held(e)
    BY <1>1, <1>6 DEF Held, Others, Threads
  <2>3. Unlinks(at'[w]) = Unlinks(at[w])
    BY <1>1, <1>7 DEF Unlinks
  <2> QED BY <1>1, <1>6, <1>7, <1>8, <2>1, <2>2, <2>3, RefsFrame
<1>21. ArrivalsCounted' /\ \A s \in Tasks : ArrivalsFinite(s)'
  <2>1. \A s \in Tasks : StartsFor(at'[w], s) = StartsFor(at[w], s)
    BY <1>1, <1>7 DEF StartsFor
  <2>2. ToReach(w)' = ToReach(w)
    BY <1>1, <1>7 DEF ToReach
  <2> QED BY <1>1, <1>6, <2>1, <2>2, ArrivalsFrame
<1>22. ScheduledOnce' /\ \A s \in Tasks : ScheduleFinite(s)'
  <2>1. ASSUME NEW s \in Tasks
        PROVE  queue'[s] + Caches(at'[w], s) + Runs(at'[w], s) =
                 queue[s] + Caches(at[w], s) + Runs(at[w], s) /\ queue'[s] \in Nat
    <3>1. /\ Caches(at'[w], s) = 0 /\ Caches(at[w], s) = 0 /\ Runs(at[w], s) = 0
          /\ Runs(at'[w], s) = IF s = t THEN 1 ELSE 0
      BY <1>1, <1>4, <1>7, <1>8 DEF Caches, Runs
    <3> QED BY <1>10, <3>1
  <2> QED BY <1>1, <1>6, <1>15, <2>1, ScheduleFrame
<1> QED BY <1>11, <1>12, <1>13, <1>14, <1>16, <1>17, <1>18, <1>19, <1>20, <1>21, <1>22
        DEF AInv, Stages, Sums, Finite

\* The body of a task has ended.
LEMMA FinishStep ==
  ASSUME AInv, NEW CONSTANT w \in Workers, Finish(w)
  PROVE  AInv'
<1>1. /\ TypeOK /\ Stages /\ Shapes /\ ClientsHold /\ LocksHeld /\ StartsOnce /\ EndsOnce /\ TaskStages
      /\ Linked /\ WaiterNotified /\ RefsCounted /\ ArrivalsCounted /\ ScheduledOnce
      /\ \A s \in Tasks : Finite(s)
      /\ at[w] \in ThreadStates /\ at[w].pc = "body" /\ at[w].task \in Tasks
      /\ at[w].todo = <<>> /\ at[w].pending = <<>> /\ at[w].cache = Nil
      /\ w \in Threads /\ w \notin Clients
      /\ UNCHANGED <<locked, refs, join, edgeVars, life, handles, queue, needs>>
  BY AsyncAssumption
     DEF AInv, Stages, Sums, Threads, Shapes, Shape, Finish, Goto, ThreadStates, TypeOK
<1>2. SUFFICES ASSUME NEW CONSTANT t \in Tasks, t = at[w].task PROVE AInv'
  BY <1>1
<1>3. /\ at' = [at EXCEPT ![w].pc = "notify"] /\ ~locked[t]
      /\ status' = [status EXCEPT ![t] = "Finished"]
  BY <1>2 DEF Finish, Goto
<1>4. /\ status[t] = "Running" /\ join[t] = 0
      /\ \A x \in Threads : ~Starting(at[x], t)
      /\ queue[t] + Cached(t) + InBody(t) = 1
  BY <1>1, <1>2, Scheduled
<1>5. /\ at' \in [Threads -> ThreadStates] /\ Others(w)
      /\ at'[w].pc = "notify" /\ at'[w].task = t /\ at'[w].todo = <<>> /\ at'[w].pending = <<>>
      /\ at'[w].cache = Nil
  <2>1. at' \in [Threads -> ThreadStates] /\ Others(w)
    BY <1>1, <1>3 DEF TypeOK, ThreadStates, Others
  <2> QED BY <1>1, <1>2, <1>3, <2>1 DEF TypeOK, ThreadStates
<1>6. Shape(at'[w])
  BY <1>5 DEF Shape
<1>7. /\ status' \in [Tasks -> {"Idle", "Running", "Finished"}] /\ status'[t] = "Finished"
      /\ \A s \in Tasks \ {t} : status'[s] = status[s]
  BY <1>1, <1>3 DEF TypeOK
<1>8. /\ \A s : ~Starting(at'[w], s) /\ ~Starting(at[w], s) /\ ~Ending(at[w], s)
      /\ \A s : (Ending(at'[w], s) <=> s = t) /\ ~Locks(at'[w], s) /\ ~Locks(at[w], s)
      /\ \A y \in Threads : ~Ending(at[y], t)
  <2>1. \A y \in Threads : ~Ending(at[y], t)
    BY <1>1, <1>4 DEF EndsOnce
  <2> QED BY <1>1, <1>5, <2>1 DEF Starting, Ending, Locks
<1>9. TypeOK'
  BY <1>1, <1>5, <1>7 DEF TypeOK, edgeVars
<1>10. Shapes'
  BY <1>1, <1>5, <1>6, ShapesStep
<1>11. TaskStages'
  <2> SUFFICES ASSUME NEW s \in Tasks
               PROVE  /\ status'[s] = "Idle" => m_edges'[s] = <<>> /\ needs'[s] = {}
                      /\ life'[s] = "none" => status'[s] = "Idle"
                      /\ life'[s] # "live" => m_edges'[s] = <<>> /\ refs'[s] = 0
                      /\ life'[s] = "live" => \A d \in Tasks :
                           d \in needs'[s] <=> Count(Predecessors(s)', d) >= 1
                      /\ status'[s] # "Running" => join'[s] = 0
                      /\ \A d \in needs'[s] : status'[d] # "Idle" /\ d # s
    BY DEF TaskStages, Count
  <2>1. Predecessors(s)' = Predecessors(s)
    BY <1>1 DEF Predecessors, edgeVars
  <2>2. life[t] # "none"
    BY <1>1, <1>4 DEF TaskStages
  <2>3. needs[s] \subseteq Tasks /\ \A d \in Tasks : status'[d] = "Idle" => status[d] = "Idle"
    BY <1>1, <1>7 DEF TypeOK
  <2>4. s # t => status'[s] = status[s]
    BY <1>7
  <2>5. CASE s = t
    BY <1>1, <1>4, <1>7, <2>1, <2>2, <2>3, <2>5 DEF TaskStages, edgeVars
  <2>6. CASE s # t
    BY <1>1, <2>1, <2>3, <2>4, <2>6 DEF TaskStages, edgeVars
  <2> QED BY <2>5, <2>6
<1>12. ClientsHold'
  <2> SUFFICES ASSUME NEW CONSTANT e \in Clients PROVE ClientHolds(e)'
    BY DEF ClientsHold
  <2>1. at'[e] = at[e] /\ handles'[e] = handles[e] /\ ClientHolds(e) /\ e \in Threads
    BY <1>1, <1>5 DEF Others, Threads, ClientsHold
  <2>2. at[e].pc \in {"unlock", "link", "append"} => at[e].task # t
    BY <1>4, <2>1 DEF Starting
  <2>3. at[e].pc \notin {"idle", "destroy", "unlink"} => at[e].task \in Tasks
    BY <1>1, <2>1 DEF Shapes, Shape
  <2>4. at[e] \in ThreadStates /\ at[e].todo \in Seq(Tasks)
    BY <1>1, <2>1 DEF TypeOK, ThreadStates
  <2>5. at[e].pc = "append" => Head(at[e].todo) # t /\ Head(at[e].todo) \in Tasks
    <3>1. ASSUME at[e].pc = "append" PROVE Head(at[e].todo) # t /\ Head(at[e].todo) \in Tasks
      <4>1. at[e].todo # <<>>
        BY <1>1, <2>1, <3>1 DEF Shapes, Shape
      <4>2. Head(at[e].todo) \in Tasks
        BY <2>4, <4>1, HeadTailProperties
      <4>3. Locks(at[e], Head(at[e].todo))
        BY <3>1 DEF Locks
      <4> QED BY <1>1, <1>3, <2>1, <4>2, <4>3 DEF LocksHeld
    <3> QED BY <3>1
  <2>6. \A d \in Range(at[e].todo) : d \in Tasks
    BY <2>4, RangeOfSeq
  <2>7. \A d \in Tasks : status[d] # "Idle" => status'[d] # "Idle"
    BY <1>7
  <2>8. at[e].pc = "prepare" => at[e].task # t
    BY <1>4, <2>1 DEF ClientHolds
  <2>9. at[e].pc \in {"lock", "prepare"} => \A d \in Range(at[e].todo) : status'[d] # "Idle"
    BY <2>1, <2>6, <2>7 DEF ClientHolds
  <2>10. at[e].pc = "prepare" => status'[at[e].task] = "Idle"
    BY <1>7, <2>1, <2>3, <2>8 DEF ClientHolds
  <2>11. at[e].pc \in {"unlock", "link", "append"} => status'[at[e].task] = "Running"
    BY <1>7, <2>1, <2>2, <2>3 DEF ClientHolds
  <2>12. at[e].pc = "append" => status'[Head(at[e].todo)] = "Running"
    BY <1>7, <2>1, <2>5 DEF ClientHolds
  <2> QED BY <1>1, <2>1, <2>9, <2>10, <2>11, <2>12 DEF ClientHolds
<1>13. LocksHeld' /\ StartsOnce'
  BY <1>1, <1>5, <1>8, LocksStep, StartsOnceStep
<1>14. EndsOnce'
  <2>1. \A s \in Tasks : Ending(at'[w], s) =>
          status'[s] = "Finished" /\ \A y \in Threads \ {w} : ~Ending(at[y], s)
    BY <1>7, <1>8
  <2>2. \A s \in Tasks : status[s] = "Finished" => status'[s] = "Finished"
    BY <1>7
  <2>3. at'[w].pc # "successors" /\ m_num_successors' = m_num_successors
    BY <1>1, <1>5 DEF edgeVars
  <2> QED BY <1>1, <1>5, <2>1, <2>2, <2>3, EndsOnceStep
<1>15. Linked'
  <2> SUFFICES ASSUME NEW s \in Tasks, status'[s] = "Running", NEW d \in needs'[s]
               PROVE  \/ status'[d] = "Finished"
                      \/ \E y \in Threads : Starting(at'[y], s) /\ d \in Range(at'[y].todo)
                      \/ Count(Successors(d)', s) >= 1
    BY DEF Linked, Count
  <2>1. Successors(d)' = Successors(d)
    BY <1>1 DEF Successors, edgeVars
  <2>2. status[s] = "Running" /\ d \in Tasks
    BY <1>1, <1>7 DEF TypeOK
  <2>3. \/ status[d] = "Finished"
        \/ \E y \in Threads : Starting(at[y], s) /\ d \in Range(at[y].todo)
        \/ Count(Successors(d), s) >= 1
    BY <1>1, <2>2 DEF Linked
  <2>4. ASSUME NEW y \in Threads, Starting(at[y], s) PROVE at'[y] = at[y]
    BY <1>5, <1>8, <2>4 DEF Others
  <2>5. status[d] = "Finished" => status'[d] = "Finished"
    BY <1>7, <2>2
  <2> QED BY <2>1, <2>3, <2>4, <2>5
<1>16. WaiterNotified'
  <2> SUFFICES ASSUME NEW c \in Clients, at'[c].pc = "blocked", status'[at'[c].task] = "Finished"
               PROVE  \E y \in Workers : at'[y].pc = "notify" /\ at'[y].task = at'[c].task
    BY DEF WaiterNotified
  <2>1. at'[c] = at[c] /\ at[c].task \in Tasks
    BY <1>1, <1>5 DEF Others, Threads, Shapes, Shape
  <2>2. CASE at[c].task = t
    BY <1>5, <2>1, <2>2
  <2>3. CASE at[c].task # t
    <3>1. PICK y \in Workers : at[y].pc = "notify" /\ at[y].task = at[c].task
      BY <1>1, <1>7, <2>1, <2>3 DEF WaiterNotified
    <3>2. at'[y] = at[y]
      BY <1>1, <1>5, <3>1 DEF Others, Threads
    <3> QED BY <2>1, <3>1, <3>2
  <2> QED BY <2>2, <2>3
<1>17. RefsCounted' /\ \A s \in Tasks : RefsFinite(s)'
  <2>1. ASSUME NEW s \in Tasks PROVE Executing(s)' <=> Executing(s)
    <3>1. CASE s = t
      <4>1. Executing(t)
        BY <1>4 DEF Executing
      <4>2. Executing(t)'
        BY <1>5 DEF Executing
      <4> QED BY <3>1, <4>1, <4>2
    <3>2. CASE s # t
      <4>1. status'[s] = status[s]
        BY <1>7, <3>2
      <4>2. ASSUME NEW y \in Workers PROVE Ending(at'[y], s) <=> Ending(at[y], s)
        BY <1>5, <1>8, <3>2 DEF Others, Threads
      <4> QED BY <4>1, <4>2 DEF Executing, Ending
    <3> QED BY <3>1, <3>2
  <2>2. \A e \in Clients : Held(e)' = Held(e)
    BY <1>1, <1>5 DEF Held, Others, Threads
  <2>3. Unlinks(at'[w]) = Unlinks(at[w])
    BY <1>1, <1>5 DEF Unlinks
  <2> QED BY <1>1, <1>5, <2>1, <2>2, <2>3, RefsFrame
<1>18. ASSUME NEW CONSTANT s \in Tasks
       PROVE  /\ ArrivalsFinite(s)' /\ Starters(s)' = Starters(s)
              /\ Promises(s)' + Reaches(s)' = Promises(s) + Reaches(s)
              /\ Promises(s)' \in Nat /\ Reaches(s)' \in Nat
  <2>1. \A d \in Tasks : Successors(d)' = Successors(d)
    BY <1>1 DEF Successors, edgeVars
  <2>2. /\ Promised(t) = Successors(t) /\ Promised(t)' = <<>>
        /\ \A d \in Tasks \ {t} : Promised(d)' = Promised(d)
    BY <1>4, <1>7, <2>1 DEF Promised
  <2>3. ToReach(w) = <<>> /\ ToReach(w)' = Successors(t)
    <3>1. ToReach(w)' = Successors(t)'
      BY <1>5 DEF ToReach, Successors
    <3> QED BY <1>1, <2>1, <3>1 DEF ToReach
  <2>4. \A y \in Threads \ {w} : ToReach(y)' = ToReach(y)
    BY <1>1, <1>5 DEF ToReach, Successors, Others, edgeVars
  <2>5. Successors(t) \in Seq(Tasks) /\ <<>> \in Seq(Tasks)
    BY <1>1, EdgesType, EmptySeq
  <2>6. /\ IsFiniteSet(Places(PromisedOf, Tasks, s)')
        /\ Promises(s)' = Promises(s) - Count(Promised(t), s) + Count(Promised(t)', s)
    BY <1>1, <2>2, <2>5, PromisesStep
  <2>7. /\ IsFiniteSet(Places(ToReachOf, Threads, s)')
        /\ Reaches(s)' = Reaches(s) - Count(ToReach(w), s) + Count(ToReach(w)', s)
    BY <1>1, <2>3, <2>4, <2>5, ReachesStep
  <2>8. IsFiniteSet(Units(StarterOf(s), Threads)') /\ Starters(s)' = Starters(s) - 0 + 0
    <3>1. StartsFor(at[w], s) = 0 /\ StartsFor(at'[w], s) = 0
      BY <1>1, <1>5 DEF StartsFor
    <3> QED BY <1>1, <1>5, <3>1, StartersStep
  <2> DEFINE p == Count(Successors(t), s)
  <2>9. /\ Starters(s) \in Nat /\ Promises(s) \in Nat /\ Reaches(s) \in Nat /\ p \in Nat
        /\ Count(<<>>, s) = 0 /\ Promises(s) >= p
    BY <1>1, <2>2, <2>5, SumsType, CountType, CountEmpty, SumParts
  <2>10. Promises(s)' = Promises(s) - p + 0 /\ Reaches(s)' = Reaches(s) - 0 + p
    BY <2>2, <2>3, <2>6, <2>7, <2>9
  <2> HIDE DEF p
  <2>11. /\ Promises(s)' + Reaches(s)' = Promises(s) + Reaches(s)
         /\ Promises(s)' \in Nat /\ Reaches(s)' \in Nat /\ Starters(s)' = Starters(s)
    BY <2>8, <2>9, <2>10
  <2> QED BY <2>6, <2>7, <2>8, <2>11 DEF ArrivalsFinite
<1>19. ArrivalsCounted'
  <2>1. ASSUME NEW CONSTANT s \in Tasks
        PROVE  IF needs'[s] = {} THEN join'[s] = 0 /\ Promises(s)' = 0 /\ Reaches(s)' = 0
               ELSE join'[s] = Starters(s)' + Promises(s)' + Reaches(s)'
    <3>1. Starters(s) \in Nat /\ Reaches(s) \in Nat /\ Promises(s) \in Nat
      BY <1>1, SumsType
    <3>2. CASE needs[s] = {}
      <4>1. join[s] = 0 /\ Promises(s) = 0 /\ Reaches(s) = 0
        BY <1>1, <3>2 DEF ArrivalsCounted
      <4>2. Promises(s)' = 0 /\ Reaches(s)' = 0
        BY <1>18, <4>1
      <4> QED BY <1>1, <3>2, <4>1, <4>2
    <3>3. CASE needs[s] # {}
      <4>1. join[s] = Starters(s) + Promises(s) + Reaches(s)
        BY <1>1, <3>3 DEF ArrivalsCounted
      <4>2. join[s] = Starters(s)' + Promises(s)' + Reaches(s)'
        BY <1>18, <3>1, <4>1
      <4> QED BY <1>1, <3>3, <4>2
    <3> QED BY <3>2, <3>3
  <2> QED BY <2>1 DEF ArrivalsCounted
<1>20. ScheduledOnce' /\ \A s \in Tasks : ScheduleFinite(s)'
  <2>1. ASSUME NEW CONSTANT s \in Tasks
        PROVE  /\ ScheduleFinite(s)' /\ queue'[s] = queue[s] /\ Cached(s)' = Cached(s)
               /\ InBody(s)' = InBody(s) - IF s = t THEN 1 ELSE 0
    <3>1. /\ Caches(at'[w], s) = Caches(at[w], s) /\ Runs(at'[w], s) = 0
          /\ Runs(at[w], s) = (IF s = t THEN 1 ELSE 0) /\ Caches(at[w], s) \in Nat
      BY <1>1, <1>2, <1>5 DEF Caches, Runs
    <3>2. /\ ScheduleFinite(s)'
          /\ Cached(s)' = Cached(s) - Caches(at[w], s) + Caches(at'[w], s)
          /\ InBody(s)' = InBody(s) - Runs(at[w], s) + Runs(at'[w], s)
      BY <1>1, <1>5, ScheduleBalance
    <3>3. Cached(s) \in Nat /\ InBody(s) \in Nat
      BY <1>1, SumsType
    <3> QED BY <1>1, <3>1, <3>2, <3>3
  <2>2. ASSUME NEW s \in Tasks
        PROVE  queue'[s] + Cached(s)' + InBody(s)' =
                 IF status'[s] = "Running" /\ join'[s] = 0 /\ \A x \in Threads : ~Starting(at'[x], s)
                 THEN 1 ELSE 0
    <3>1. CASE s = t
      <4>1. queue[t] \in Nat /\ Cached(t) \in Nat /\ InBody(t) \in Nat
        BY <1>1, SumsType DEF TypeOK
      <4>2. queue'[t] + Cached(t)' + InBody(t)' = 0
        BY <1>4, <2>1, <4>1
      <4> QED BY <1>7, <3>1, <4>2
    <3>2. CASE s # t
      <4>1. ASSUME NEW x \in Threads PROVE Starting(at'[x], s) <=> Starting(at[x], s)
        BY <1>5, <1>8 DEF Others
      <4>2. queue[s] + Cached(s) + InBody(s) =
              IF status[s] = "Running" /\ join[s] = 0 /\ \A x \in Threads : ~Starting(at[x], s)
              THEN 1 ELSE 0
        BY <1>1 DEF ScheduledOnce
      <4>3. InBody(s)' = InBody(s)
        <5>1. InBody(s) \in Nat
          BY <1>1, SumsType
        <5> QED BY <2>1, <3>2, <5>1
      <4>4. status'[s] = status[s] /\ join'[s] = join[s] /\ queue'[s] = queue[s] /\ Cached(s)' = Cached(s)
        BY <1>1, <1>7, <2>1, <3>2
      <4> QED BY <4>1, <4>2, <4>3, <4>4
    <3> QED BY <3>1, <3>2
  <2> QED BY <2>1, <2>2 DEF ScheduledOnce
<1> QED BY <1>9, <1>10, <1>11, <1>12, <1>13, <1>14, <1>15, <1>16, <1>17, <1>18, <1>19, <1>20
        DEF AInv, Stages, Sums, Finite

\* A worker reaches a successor of the task it tears down.
LEMMA ReachSuccessorStep ==
  ASSUME AInv, NEW CONSTANT w \in Workers, ReachSuccessor(w)
  PROVE  AInv'
<1>1. /\ TypeOK /\ Stages /\ Shapes /\ ClientsHold /\ LocksHeld /\ StartsOnce /\ EndsOnce /\ TaskStages
      /\ Linked /\ WaiterNotified /\ RefsCounted /\ ArrivalsCounted /\ ScheduledOnce
      /\ \A s \in Tasks : Finite(s)
      /\ at[w] \in ThreadStates /\ at[w].pc = "successors" /\ at[w].task \in Tasks
      /\ at[w].todo = <<>> /\ at[w].pending = <<>>
      /\ w \in Threads /\ w \notin Clients
      /\ UNCHANGED <<control, edgeVars, life, handles, needs>>
      /\ UNCHANGED <<status, locked, refs>> /\ UNCHANGED edgeVars /\ UNCHANGED status
  BY AsyncAssumption
     DEF AInv, Stages, Sums, Threads, Shapes, Shape, ReachSuccessor, ThreadStates, TypeOK, control
<1>2. SUFFICES ASSUME NEW CONSTANT t \in Tasks, t = at[w].task PROVE AInv'
  BY <1>1
<1> DEFINE n == at[w].next
           e == m_edges[t]
           m == m_num_successors[t]
<1>3. /\ e \in Seq(Tasks) /\ m \in Nat /\ m <= Len(e) /\ Len(e) \in Nat
      /\ n \in Nat /\ n >= 1 /\ n <= m
  <2>1. e \in Seq(Tasks) /\ m \in Nat /\ m <= Len(e)
    BY <1>1 DEF TypeOK
  <2>2. n \in 1..(m + 1) /\ n <= m
    BY <1>1, <1>2 DEF EndsOnce, ReachSuccessor
  <2> QED BY <2>1, <2>2, LenProperties
<1>4. SUFFICES ASSUME NEW CONSTANT s \in Tasks, s = m_edges[t][at[w].next] PROVE AInv'
  <2>1. e[n] \in Tasks
    <3>1. n \in 1..Len(e)
      BY <1>3
    <3> QED BY <1>3, <3>1, ElementOfSeq
  <2> QED BY <2>1
<1> DEFINE isReady == join[s] = 1
           keep == isReady /\ at[w].cache = Nil
           cache == IF keep THEN s ELSE at[w].cache
<1>5. /\ join' = [join EXCEPT ![s] = @ - 1]
      /\ queue' = [queue EXCEPT ![s] = IF isReady /\ ~keep THEN @ + 1 ELSE @]
      /\ at' = [at EXCEPT ![w].next = @ + 1, ![w].cache = IF keep THEN s ELSE @]
  BY <1>2, <1>4 DEF ReachSuccessor
<1>6. cache \in Tasks \cup {Nil} /\ at[w].cache \in Tasks \cup {Nil}
  BY <1>1 DEF ThreadStates
<1>7. /\ at' \in [Threads -> ThreadStates] /\ Others(w)
      /\ at'[w].pc = "successors" /\ at'[w].task = t /\ at'[w].todo = <<>> /\ at'[w].pending = <<>>
      /\ at'[w].next = n + 1 /\ at'[w].cache = cache
  <2> DEFINE r == [at[w] EXCEPT !.next = @ + 1, !.cache = cache]
  <2>1. at' = [at EXCEPT ![w] = r] /\ at \in [Threads -> ThreadStates]
    BY <1>1, <1>5 DEF TypeOK
  <2>2. at[w].next = n /\ n + 1 \in Nat
    BY <1>3
  <2> HIDE DEF keep, cache, n
  <2>3. r = [at[w] EXCEPT !.next = n + 1, !.cache = cache]
    BY <2>2
  <2> HIDE DEF r
  <2>4. /\ r.pc = "successors" /\ r.task = t /\ r.todo = <<>> /\ r.pending = <<>>
        /\ r.next = n + 1 /\ r.cache = cache /\ r \in ThreadStates
    BY <1>1, <1>2, <1>6, <2>2, <2>3 DEF ThreadStates
  <2>5. at'[w] = r /\ at' \in [Threads -> ThreadStates] /\ Others(w)
    BY <1>1, <2>1, <2>4 DEF Others
  <2> QED BY <2>4, <2>5
<1> HIDE DEF cache
<1>8. Shape(at'[w])
  BY <1>7 DEF Shape
<1>9. /\ ToReach(w) = SubSeq(e, n, m) /\ ToReach(w)' = SubSeq(e, n + 1, m)
      /\ ToReach(w) \in Seq(Tasks) /\ ToReach(w)' \in Seq(Tasks)
      /\ \A k : Count(ToReach(w)', k) = Count(ToReach(w), k) - IF s = k THEN 1 ELSE 0
      /\ Count(ToReach(w), s) >= 1
  <2>1. ToReach(w) = SubSeq(e, n, m)
    BY <1>1, <1>2 DEF ToReach
  <2>2. ToReach(w)' = SubSeq(e, n + 1, m)
    BY <1>1, <1>7 DEF ToReach, edgeVars
  <2>3. s = e[n]
    BY <1>4
  <2> HIDE DEF e, n, m
  <2> DEFINE u == SubSeq(e, n, m)
             v == SubSeq(e, n + 1, m)
  <2>4. /\ u \in Seq(Tasks) /\ Len(u) = m - n + 1 /\ \A i \in 1..(m - n + 1) : u[i] = e[(n - 1) + i]
    <3>1. n - 1 \in Nat /\ (n - 1) + 1 = n /\ m - (n - 1) = m - n + 1 /\ n - 1 <= m
      BY <1>3
    <3>2. /\ SubSeq(e, (n - 1) + 1, m) \in Seq(Tasks)
          /\ Len(SubSeq(e, (n - 1) + 1, m)) = IF n - 1 <= m THEN m - (n - 1) ELSE 0
          /\ \A i \in 1..(m - (n - 1)) : SubSeq(e, (n - 1) + 1, m)[i] = e[(n - 1) + i]
      BY <1>3, <3>1, PartOfEdges
    <3> QED BY <3>1, <3>2
  <2>5. /\ v \in Seq(Tasks) /\ Len(v) = m - n /\ \A i \in 1..(m - n) : v[i] = e[n + i]
    BY <1>3, PartOfEdges
  <2> HIDE DEF u, v
  <2>6. u # <<>> /\ Head(u) = s
    <3>1. Len(u) # 0 /\ 1 \in 1..(m - n + 1) /\ (n - 1) + 1 = n
      BY <1>3, <2>4
    <3>2. u[1] = e[n]
      BY <2>4, <3>1
    <3> QED BY <2>3, <2>4, <3>1, <3>2, EmptySeq
  <2>7. /\ Tail(u) \in Seq(Tasks) /\ Len(Tail(u)) = Len(u) - 1
        /\ \A i \in 1..(Len(u) - 1) : Tail(u)[i] = u[i + 1]
    BY <2>4, <2>6, HeadTailProperties
  <2>8. v = Tail(u)
    <3>1. Len(Tail(u)) = Len(v)
      BY <1>3, <2>4, <2>5, <2>7
    <3>2. ASSUME NEW i \in 1..Len(v) PROVE v[i] = Tail(u)[i]
      <4>1. /\ i \in 1..(m - n) /\ i \in 1..(Len(u) - 1) /\ i + 1 \in 1..(m - n + 1)
            /\ (n - 1) + (i + 1) = n + i
        BY <1>3, <2>4, <2>5
      <4>2. v[i] = e[n + i]
        BY <2>5, <4>1
      <4>3. Tail(u)[i] = u[i + 1]
        BY <2>7, <4>1
      <4>4. u[i + 1] = e[(n - 1) + (i + 1)]
        BY <2>4, <4>1
      <4> QED BY <4>1, <4>2, <4>3, <4>4
    <3> QED BY <2>5, <2>7, <3>1, <3>2, SeqEqual
  <2>9. \A k : Count(v, k) = Count(u, k) - IF s = k THEN 1 ELSE 0
    BY <2>4, <2>6, <2>8, IndicesOfTail DEF Count
  <2>10. Count(u, s) >= 1
    BY <2>4, <2>6, RangeOfHeadTail, CountType
  <2> QED BY <2>1, <2>2, <2>4, <2>5, <2>9, <2>10 DEF u, v
<1> HIDE DEF e, m
<1>10. /\ join[s] \in Nat /\ join[s] >= 1 /\ status[s] = "Running" /\ needs[s] # {}
       /\ join[s] = 1 => \A y \in Threads : ~Starting(at[y], s)
  BY <1>1, <1>9, Awaited
<1>11. /\ join' \in [Tasks -> Nat] /\ join'[s] = join[s] - 1
       /\ \A k \in Tasks \ {s} : join'[k] = join[k]
  <2>1. join \in [Tasks -> Nat]
    BY <1>1 DEF TypeOK
  <2>2. join[s] - 1 \in Nat
    BY <1>10
  <2> QED BY <1>5, <2>1, <2>2
<1>12. /\ queue' \in [Tasks -> Nat] /\ queue'[s] = queue[s] + IF isReady /\ ~keep THEN 1 ELSE 0
       /\ \A k \in Tasks \ {s} : queue'[k] = queue[k]
  <2>1. queue \in [Tasks -> Nat] /\ queue[s] \in Nat /\ queue[s] + 1 \in Nat
    BY <1>1, SMTT(30) DEF TypeOK
  <2>2. CASE isReady /\ ~keep
    <3>1. queue' = [queue EXCEPT ![s] = @ + 1]
      BY <1>5, <2>2
    <3> HIDE DEF isReady, keep
    <3> QED BY <2>1, <2>2, <3>1
  <2>3. CASE ~(isReady /\ ~keep)
    <3>1. queue' = [queue EXCEPT ![s] = @]
      BY <1>5, <2>3
    <3> HIDE DEF isReady, keep
    <3> QED BY <2>1, <2>3, <3>1
  <2> QED BY <2>2, <2>3
<1>13. /\ \A k : (Starting(at'[w], k) <=> Starting(at[w], k)) /\ ~Starting(at[w], k)
       /\ \A k : (Ending(at'[w], k) <=> Ending(at[w], k)) /\ ~Locks(at'[w], k) /\ ~Locks(at[w], k)
  BY <1>1, <1>2, <1>7 DEF Starting, Ending, Locks
<1>14. TypeOK'
  BY <1>1, <1>7, <1>11, <1>12 DEF TypeOK, edgeVars
<1>15. Shapes'
  BY <1>1, <1>7, <1>8, ShapesStep
<1>16. ClientsHold'
  BY <1>1, <1>7, ClientsFrame
<1>17. LocksHeld' /\ StartsOnce'
  BY <1>1, <1>7, <1>13, LocksStep, StartsOnceStep
<1>18. EndsOnce'
  <2>1. at'[w].next \in 1..(m_num_successors'[at'[w].task] + 1)
    <3>1. m_num_successors'[at'[w].task] = m
      BY <1>1, <1>7 DEF m, edgeVars
    <3>2. n + 1 \in 1..(m + 1)
      BY <1>3
    <3> QED BY <1>7, <3>1, <3>2
  <2>2. \A k \in Tasks : Ending(at'[w], k) => status'[k] = "Finished" /\ Ending(at[w], k)
    BY <1>1, <1>13 DEF EndsOnce
  <2> QED BY <1>1, <1>7, <2>1, <2>2, EndsOnceStep DEF edgeVars
<1>19. Linked'
  BY <1>1, <1>7, <1>13, LinkedFrame
<1>20. WaiterNotified'
  BY <1>1, <1>7, WaiterFrame
<1>21. TaskStages'
  <2> SUFFICES ASSUME NEW k \in Tasks
               PROVE  /\ status'[k] = "Idle" => m_edges'[k] = <<>> /\ needs'[k] = {}
                      /\ life'[k] = "none" => status'[k] = "Idle"
                      /\ life'[k] # "live" => m_edges'[k] = <<>> /\ refs'[k] = 0
                      /\ life'[k] = "live" => \A d \in Tasks :
                           d \in needs'[k] <=> Count(Predecessors(k)', d) >= 1
                      /\ status'[k] # "Running" => join'[k] = 0
                      /\ \A d \in needs'[k] : status'[d] # "Idle" /\ d # k
    BY DEF TaskStages, Count
  <2>1. Predecessors(k)' = Predecessors(k)
    BY <1>1 DEF Predecessors, edgeVars
  <2>2. status'[k] # "Running" => join'[k] = 0
    BY <1>1, <1>10, <1>11 DEF TaskStages
  <2> QED BY <1>1, <2>1, <2>2 DEF TaskStages, edgeVars
<1>22. RefsCounted' /\ \A k \in Tasks : RefsFinite(k)'
  <2>1. \A k \in Tasks : Executing(k)' <=> Executing(k)
    <3>1. \A y \in Workers : \A k : Ending(at'[y], k) <=> Ending(at[y], k)
      BY <1>7, <1>13 DEF Others, Threads
    <3> QED BY <1>1, <3>1 DEF Executing, Ending
  <2>2. \A y \in Clients : Held(y)' = Held(y)
    BY <1>1, <1>7 DEF Held, Others, Threads
  <2>3. Unlinks(at'[w]) = Unlinks(at[w])
    BY <1>1, <1>7 DEF Unlinks
  <2> QED BY <1>1, <1>7, <2>1, <2>2, <2>3, RefsFrame
<1>23. ArrivalsCounted' /\ \A k \in Tasks : ArrivalsFinite(k)'
  <2>1. ASSUME NEW CONSTANT k \in Tasks
        PROVE  /\ ArrivalsFinite(k)' /\ Promises(k)' = Promises(k) /\ Starters(k)' = Starters(k)
               /\ Reaches(k)' = Reaches(k) - IF s = k THEN 1 ELSE 0
    <3>1. StartsFor(at[w], k) = 0 /\ StartsFor(at'[w], k) = 0
      BY <1>1, <1>7 DEF StartsFor
    <3>2. /\ ArrivalsFinite(k)'
          /\ Starters(k)' = Starters(k) - StartsFor(at[w], k) + StartsFor(at'[w], k)
          /\ Promises(k)' = Promises(k)
          /\ Reaches(k)' = Reaches(k) - Count(ToReach(w), k) + Count(ToReach(w)', k)
      <4>1. StartsFor(at'[w], k) \in Nat /\ ToReach(w)' \in Seq(Tasks)
        BY <1>9, <3>1
      <4>2. UNCHANGED status /\ UNCHANGED edgeVars
        BY <1>1
      <4> QED BY <1>1, <1>7, <4>1, <4>2, ArrivalsBalance
    <3>3. Starters(k) \in Nat /\ Reaches(k) \in Nat /\ Count(ToReach(w), k) \in Nat
      BY <1>1, <1>9, SumsType, CountType
    <3> DEFINE p == Count(ToReach(w), k)
               one == IF s = k THEN 1 ELSE 0
    <3>4. p \in Nat /\ one \in Nat /\ Reaches(k)' = Reaches(k) - p + (p - one)
      BY <1>9, <3>2, <3>3
    <3>5. Starters(k)' = Starters(k)
      BY <3>1, <3>2, <3>3
    <3> HIDE DEF p, one
    <3>6. Reaches(k)' = Reaches(k) - one
      BY <3>3, <3>4
    <3> QED BY <3>2, <3>5, <3>6 DEF one
  <2>2. ASSUME NEW CONSTANT k \in Tasks
        PROVE  IF needs'[k] = {} THEN join'[k] = 0 /\ Promises(k)' = 0 /\ Reaches(k)' = 0
               ELSE join'[k] = Starters(k)' + Promises(k)' + Reaches(k)'
    <3>1. Starters(k) \in Nat /\ Reaches(k) \in Nat /\ Promises(k) \in Nat
      BY <1>1, SumsType
    <3>2. CASE k = s
      <4>1. join[s] = Starters(s) + Promises(s) + Reaches(s)
        BY <1>1, <1>10 DEF ArrivalsCounted
      <4>2. /\ Starters(s)' = Starters(s) /\ Promises(s)' = Promises(s)
            /\ Reaches(s)' = Reaches(s) - 1 /\ join'[s] = join[s] - 1
        BY <1>11, <2>1, <3>2
      <4>3. join'[s] = Starters(s)' + Promises(s)' + Reaches(s)'
        BY <3>1, <3>2, <4>1, <4>2
      <4> QED BY <1>1, <1>10, <3>2, <4>3
    <3>3. CASE k # s
      <4>1. Reaches(k)' = Reaches(k) /\ join'[k] = join[k]
        BY <1>11, <2>1, <3>1, <3>3
      <4> QED BY <1>1, <2>1, <4>1 DEF ArrivalsCounted
    <3> QED BY <3>2, <3>3
  <2> QED BY <2>1, <2>2 DEF ArrivalsCounted
<1>24. ScheduledOnce' /\ \A k \in Tasks : ScheduleFinite(k)'
  <2>1. ASSUME NEW CONSTANT k \in Tasks
        PROVE  /\ ScheduleFinite(k)' /\ InBody(k)' = InBody(k)
               /\ Cached(k)' = Cached(k) + IF keep /\ s = k THEN 1 ELSE 0
    <3>1. Runs(at'[w], k) = 0 /\ Runs(at[w], k) = 0
      BY <1>1, <1>7 DEF Runs
    <3>2. /\ ScheduleFinite(k)'
          /\ Cached(k)' = Cached(k) - Caches(at[w], k) + Caches(at'[w], k)
          /\ InBody(k)' = InBody(k) - Runs(at[w], k) + Runs(at'[w], k)
      BY <1>1, <1>7, ScheduleBalance
    <3>3. Cached(k) \in Nat /\ InBody(k) \in Nat
      BY <1>1, SumsType
    <3>4. /\ Caches(at[w], k) \in Nat
          /\ Caches(at'[w], k) = Caches(at[w], k) + IF keep /\ s = k THEN 1 ELSE 0
      <4>1. Nil \notin Tasks
        BY AsyncAssumption
      <4>2. CASE keep
        <5>1. at'[w].cache = s /\ at[w].cache = Nil
          BY <1>7, <4>2 DEF cache
        <5> HIDE DEF keep
        <5> QED BY <4>1, <4>2, <5>1 DEF Caches
      <4>3. CASE ~keep
        <5>1. at'[w].cache = at[w].cache
          BY <1>7, <4>3 DEF cache
        <5> HIDE DEF keep
        <5> QED BY <4>3, <5>1 DEF Caches
      <4> QED BY <4>2, <4>3
    <3> HIDE DEF keep
    <3>5. InBody(k)' = InBody(k)
      BY <3>1, <3>2, <3>3
    <3> DEFINE p == Caches(at[w], k)
               one == IF keep /\ s = k THEN 1 ELSE 0
    <3>6. p \in Nat /\ one \in Nat /\ Cached(k)' = Cached(k) - p + (p + one)
      BY <3>2, <3>4
    <3> HIDE DEF p, one
    <3>7. Cached(k)' = Cached(k) + one
      BY <3>3, <3>6
    <3> QED BY <3>2, <3>5, <3>7 DEF one
  <2>2. ASSUME NEW k \in Tasks
        PROVE  queue'[k] + Cached(k)' + InBody(k)' =
                 IF status'[k] = "Running" /\ join'[k] = 0 /\ \A x \in Threads : ~Starting(at'[x], k)
                 THEN 1 ELSE 0
    <3>1. queue[k] \in Nat /\ Cached(k) \in Nat /\ InBody(k) \in Nat
      BY <1>1, SumsType DEF TypeOK
    <3>2. \A x \in Threads : Starting(at'[x], k) <=> Starting(at[x], k)
      BY <1>7, <1>13 DEF Others
    <3>3. queue[k] + Cached(k) + InBody(k) =
            IF status[k] = "Running" /\ join[k] = 0 /\ \A x \in Threads : ~Starting(at[x], k)
            THEN 1 ELSE 0
      BY <1>1 DEF ScheduledOnce
    <3>4. CASE k = s
      <4>1. queue[s] + Cached(s) + InBody(s) = 0
        BY <1>10, <3>3, <3>4
      <4>2. queue'[s] + Cached(s)' + InBody(s)' = IF join[s] = 1 THEN 1 ELSE 0
        <5>1. CASE keep
          <6>1. queue'[s] = queue[s] /\ Cached(s)' = Cached(s) + 1 /\ InBody(s)' = InBody(s) /\ join[s] = 1
            BY <1>12, <2>1, <3>1, <3>4, <5>1
          <6> QED BY <3>1, <3>4, <4>1, <6>1
        <5>2. CASE isReady /\ ~keep
          <6>1. queue'[s] = queue[s] + 1 /\ Cached(s)' = Cached(s) /\ InBody(s)' = InBody(s) /\ join[s] = 1
            BY <1>12, <2>1, <3>1, <3>4, <5>2
          <6> QED BY <3>1, <3>4, <4>1, <6>1
        <5>3. CASE ~isReady
          <6>1. queue'[s] = queue[s] /\ Cached(s)' = Cached(s) /\ InBody(s)' = InBody(s) /\ join[s] # 1
            BY <1>12, <2>1, <3>1, <3>4, <5>3
          <6> QED BY <3>1, <3>4, <4>1, <6>1
        <5> QED BY <5>1, <5>2, <5>3
      <4>3. join'[s] = 0 <=> join[s] = 1
        BY <1>10, <1>11
      <4> QED BY <1>1, <1>10, <3>2, <3>4, <4>2, <4>3
    <3>5. CASE k # s
      <4>1. queue'[k] = queue[k] /\ Cached(k)' = Cached(k) /\ InBody(k)' = InBody(k) /\ join'[k] = join[k]
        BY <1>11, <1>12, <2>1, <3>1, <3>5
      <4> QED BY <1>1, <3>2, <3>3, <4>1
    <3> QED BY <3>4, <3>5
  <2> QED BY <2>1, <2>2 DEF ScheduledOnce
<1> QED BY <1>14, <1>15, <1>16, <1>17, <1>18, <1>19, <1>20, <1>21, <1>22, <1>23, <1>24
        DEF AInv, Stages, Sums, Finite

\* A worker wakes the threads blocked on the task it tears down.
LEMMA NotifyAllStep ==
  ASSUME AInv, NEW CONSTANT w \in Workers, NotifyAll(w)
  PROVE  AInv'
<1>1. /\ TypeOK /\ Stages /\ Shapes /\ ClientsHold /\ LocksHeld /\ StartsOnce /\ EndsOnce /\ TaskStages
      /\ Linked /\ WaiterNotified /\ RefsCounted /\ ArrivalsCounted /\ ScheduledOnce
      /\ \A s \in Tasks : Finite(s)
      /\ at \in [Threads -> ThreadStates]
      /\ at[w] \in ThreadStates /\ at[w].pc = "notify" /\ at[w].task \in Tasks
      /\ w \in Threads /\ w \notin Clients /\ Clients \subseteq Threads
      /\ UNCHANGED <<control, join, edgeVars, life, handles, queue, needs>>
      /\ UNCHANGED <<status, locked, refs, m_edges, m_num_successors>>
  BY AsyncAssumption
     DEF AInv, Stages, Sums, Threads, Shapes, Shape, NotifyAll, ThreadStates, TypeOK, control, edgeVars
<1>2. SUFFICES ASSUME NEW CONSTANT t \in Tasks, t = at[w].task PROVE AInv'
  BY <1>1
<1> DEFINE woken == {c \in Clients : at[c].pc = "blocked" /\ at[c].task = t}
           r == [at[w] EXCEPT !.pc = "successors", !.next = 1]
<1>3. at' = [x \in Threads |-> IF x = w THEN r ELSE IF x \in woken THEN Idle ELSE at[x]]
  BY <1>2 DEF NotifyAll
<1>4. /\ r \in ThreadStates /\ r.pc = "successors" /\ r.next = 1
      /\ r.task = t /\ r.todo = at[w].todo /\ r.pending = at[w].pending /\ r.cache = at[w].cache
  BY <1>1, <1>2 DEF ThreadStates
<1>5. /\ Idle \in ThreadStates /\ Idle.pc = "idle" /\ Idle.pending = <<>> /\ Idle.cache = Nil
      /\ Idle.todo = <<>>
  BY EmptySeq DEF Idle, ThreadStates
<1> HIDE DEF r
<1>6. /\ at' \in [Threads -> ThreadStates] /\ at'[w] = r
      /\ \A x \in woken : at'[x] = Idle
      /\ \A x \in Threads : x # w /\ x \notin woken => at'[x] = at[x]
  BY <1>1, <1>3, <1>4, <1>5
<1>7. ASSUME NEW x \in woken
      PROVE  x \in Clients /\ at[x].pc = "blocked" /\ at[x].task = t /\ at[x].pending = <<>> /\ at[x].cache = Nil
  BY <1>1 DEF Shapes, Shape
<1> HIDE DEF woken
<1>8. ASSUME NEW x \in Threads
      PROVE  /\ Shape(at'[x]) /\ Unlinks(at'[x]) = Unlinks(at[x])
             /\ at'[x].pending = at[x].pending /\ at'[x].cache = at[x].cache
             /\ \A k : /\ StartsFor(at'[x], k) = StartsFor(at[x], k)
                       /\ Runs(at'[x], k) = Runs(at[x], k) /\ Caches(at'[x], k) = Caches(at[x], k)
                       /\ Starting(at'[x], k) <=> Starting(at[x], k)
                       /\ Ending(at'[x], k) <=> Ending(at[x], k)
                       /\ Locks(at'[x], k) <=> Locks(at[x], k)
             /\ Starting(at[x], t) \/ at[x].pc \in {"unlock", "link", "append"} => at'[x] = at[x]
  <2>1. CASE x = w
    <3>1. Shape(at[w])
      BY <1>1 DEF Shapes
    <3>2. Shape(r)
      BY <1>1, <1>4, <3>1 DEF Shape
    <3> QED BY <1>1, <1>2, <1>4, <1>6, <2>1, <3>2
            DEF Unlinks, StartsFor, Runs, Caches, Starting, Ending, Locks
  <2>2. CASE x \in woken
    <3>1. Shape(Idle)
      BY <1>5 DEF Shape
    <3> QED BY <1>5, <1>6, <1>7, <2>2, <3>1
            DEF Unlinks, StartsFor, Runs, Caches, Starting, Ending, Locks
  <2>3. CASE x # w /\ x \notin woken
    BY <1>1, <1>6, <2>3 DEF Shapes, Unlinks, StartsFor, Runs, Caches, Starting, Ending, Locks
  <2> QED BY <2>1, <2>2, <2>3
<1>9. \A k \in Tasks : Successors(k)' = Successors(k) /\ Predecessors(k)' = Predecessors(k)
  BY <1>1 DEF Successors, Predecessors
<1>10. ASSUME NEW x \in Threads PROVE ToReach(x)' = ToReach(x)
  <2>1. CASE x = w
    BY <1>1, <1>2, <1>4, <1>6, <2>1 DEF ToReach, Successors
  <2>2. CASE x \in woken
    BY <1>5, <1>6, <1>7, <2>2 DEF ToReach
  <2>3. CASE x # w /\ x \notin woken
    BY <1>1, <1>6, <2>3 DEF ToReach, Successors
  <2> QED BY <2>1, <2>2, <2>3
<1>11. TypeOK'
  BY <1>1, <1>6 DEF TypeOK, edgeVars
<1>12. Shapes'
  <2>1. ASSUME NEW c \in Clients
        PROVE  at'[c].pc \notin {"body", "notify", "successors"} /\ at'[c].cache = Nil
    BY <1>1, <1>5, <1>6, <1>8, <2>1 DEF Shapes
  <2>2. ASSUME NEW y \in Workers
        PROVE  at'[y].pc \notin {"blocked", "lock", "prepare", "unlock", "link", "append"}
    <3>1. y \in Threads /\ y \notin woken
      BY <1>7, AsyncAssumption DEF Threads
    <3> QED BY <1>1, <1>4, <1>6, <3>1 DEF Shapes
  <2> QED BY <1>8, <2>1, <2>2 DEF Shapes
<1>13. TaskStages'
  BY <1>1, StagesFrame
<1>14. ClientsHold'
  <2> SUFFICES ASSUME NEW CONSTANT e \in Clients PROVE ClientHolds(e)'
    BY DEF ClientsHold
  <2>1. CASE e \in woken
    BY <1>5, <1>6, <2>1 DEF ClientHolds
  <2>2. CASE e \notin woken
    <3>1. at'[e] = at[e] /\ ClientHolds(e)
      BY <1>1, <1>6, <2>2 DEF ClientsHold
    <3> QED BY <1>1, <3>1 DEF ClientHolds
  <2> QED BY <2>1, <2>2
<1>15. LocksHeld'
  BY <1>1, <1>8 DEF LocksHeld
<1>16. StartsOnce'
  BY <1>1, <1>8 DEF StartsOnce
<1>17. EndsOnce'
  <2>1. ASSUME NEW x \in Threads, at'[x].pc = "successors"
        PROVE  at'[x].next \in 1..(m_num_successors'[at'[x].task] + 1)
    <3>1. CASE x = w
      <4>1. m_num_successors[t] \in Nat
        BY <1>1 DEF TypeOK
      <4>2. 1 \in 1..(m_num_successors[t] + 1)
        BY <4>1
      <4> QED BY <1>1, <1>4, <1>6, <3>1, <4>2
    <3>2. CASE x # w
      <4>1. at'[x] = at[x]
        BY <1>5, <1>6, <2>1, <3>2
      <4> QED BY <1>1, <2>1, <4>1 DEF EndsOnce
    <3> QED BY <3>1, <3>2
  <2> QED BY <1>1, <1>8, <2>1 DEF EndsOnce
<1>18. Linked'
  <2> SUFFICES ASSUME NEW s \in Tasks, status'[s] = "Running", NEW d \in needs'[s]
               PROVE  \/ status'[d] = "Finished"
                      \/ \E y \in Threads : Starting(at'[y], s) /\ d \in Range(at'[y].todo)
                      \/ Count(Successors(d)', s) >= 1
    BY DEF Linked, Count
  <2>1. Successors(d)' = Successors(d)
    BY <1>1 DEF Successors
  <2>2. \/ status[d] = "Finished"
        \/ \E y \in Threads : Starting(at[y], s) /\ d \in Range(at[y].todo)
        \/ Count(Successors(d), s) >= 1
    BY <1>1 DEF Linked
  <2>3. \A y \in Threads : Starting(at[y], s) => at'[y] = at[y]
    BY <1>8 DEF Starting
  <2> QED BY <1>1, <2>1, <2>2, <2>3
<1>19. WaiterNotified'
  <2> SUFFICES ASSUME NEW c \in Clients, at'[c].pc = "blocked", status'[at'[c].task] = "Finished"
               PROVE  \E y \in Workers : at'[y].pc = "notify" /\ at'[y].task = at'[c].task
    BY DEF WaiterNotified
  <2>1. c \notin woken /\ at'[c] = at[c] /\ at[c].task # t
    BY <1>1, <1>5, <1>6 DEF woken
  <2>2. PICK y \in Workers : at[y].pc = "notify" /\ at[y].task = at[c].task
    BY <1>1, <2>1 DEF WaiterNotified
  <2>3. y # w /\ y \in Threads /\ y \notin woken
    BY <1>2, <1>7, <2>1, <2>2, AsyncAssumption DEF Threads
  <2>4. at'[y] = at[y]
    BY <1>6, <2>3
  <2> QED BY <2>1, <2>2, <2>4
<1>20. ASSUME NEW CONSTANT s \in Tasks
       PROVE  Finite(s)' /\ Futures(s)' = Futures(s) /\ Dependents(s)' = Dependents(s)
              /\ Unlinkers(s)' = Unlinkers(s) /\ Destroyers(s)' = Destroyers(s)
              /\ Starters(s)' = Starters(s) /\ Promises(s)' = Promises(s) /\ Reaches(s)' = Reaches(s)
              /\ Cached(s)' = Cached(s) /\ InBody(s)' = InBody(s)
  <2>1. IsFiniteSet(Units(FutureOf(s), Clients)') /\ Futures(s)' = Futures(s)
    <3>1. ASSUME NEW e \in Clients PROVE Held(e)' = Held(e)
      <4>1. CASE e \in woken
        BY <1>1, <1>5, <1>6, <1>7, <4>1 DEF Held
      <4>2. CASE e \notin woken
        BY <1>1, <1>6, <4>2 DEF Held
      <4> QED BY <4>1, <4>2
    <3> QED BY <1>1, <3>1, FuturesSame
  <2>2. IsFiniteSet(Places(PredecessorsOf, Tasks, s)') /\ Dependents(s)' = Dependents(s)
    BY <1>1, DependentsSame
  <2>3. IsFiniteSet(Places(PromisedOf, Tasks, s)') /\ Promises(s)' = Promises(s)
    <3>1. \A d \in Tasks : Promised(d)' = Promised(d)
      BY <1>1, <1>9 DEF Promised
    <3> QED BY <1>1, <3>1, PromisesSame
  <2>4. IsFiniteSet(Places(ToReachOf, Threads, s)') /\ Reaches(s)' = Reaches(s)
    BY <1>1, <1>10, ReachesSame
  <2>5. /\ UnlinksOf' = UnlinksOf /\ PendingOf' = PendingOf
        /\ StarterOf(s)' = StarterOf(s) /\ CacheOf(s)' = CacheOf(s) /\ BodyOf(s)' = BodyOf(s)
    BY <1>8 DEF UnlinksOf, PendingOf, StarterOf, CacheOf, BodyOf
  <2>6. /\ Unlinkers(s)' = Unlinkers(s) /\ Destroyers(s)' = Destroyers(s)
        /\ Places(UnlinksOf, Threads, s)' = Places(UnlinksOf, Threads, s)
        /\ Places(PendingOf, Threads, s)' = Places(PendingOf, Threads, s)
    <3>1. /\ Places(UnlinksOf, Threads, s)' = Places(UnlinksOf', Threads, s)
          /\ Places(PendingOf, Threads, s)' = Places(PendingOf', Threads, s)
      BY DEF Places
    <3>2. /\ Unlinkers(s) = Cardinality(Places(UnlinksOf, Threads, s))
          /\ Unlinkers(s)' = Cardinality(Places(UnlinksOf, Threads, s)')
          /\ Destroyers(s) = Cardinality(Places(PendingOf, Threads, s))
          /\ Destroyers(s)' = Cardinality(Places(PendingOf, Threads, s)')
      BY DEF Unlinkers, Destroyers, Occurrences, PendingOf
    <3> QED BY <2>5, <3>1, <3>2
  <2>7. /\ Starters(s)' = Starters(s) /\ Cached(s)' = Cached(s) /\ InBody(s)' = InBody(s)
        /\ Units(StarterOf(s), Threads)' = Units(StarterOf(s), Threads)
        /\ Units(CacheOf(s), Threads)' = Units(CacheOf(s), Threads)
        /\ Units(BodyOf(s), Threads)' = Units(BodyOf(s), Threads)
    <3>1. /\ Units(StarterOf(s), Threads)' = Units(StarterOf(s)', Threads)
          /\ Units(CacheOf(s), Threads)' = Units(CacheOf(s)', Threads)
          /\ Units(BodyOf(s), Threads)' = Units(BodyOf(s)', Threads)
      BY DEF Units
    <3>2. /\ Starters(s) = Cardinality(Units(StarterOf(s), Threads))
          /\ Starters(s)' = Cardinality(Units(StarterOf(s), Threads)')
          /\ Cached(s) = Cardinality(Units(CacheOf(s), Threads))
          /\ Cached(s)' = Cardinality(Units(CacheOf(s), Threads)')
          /\ InBody(s) = Cardinality(Units(BodyOf(s), Threads))
          /\ InBody(s)' = Cardinality(Units(BodyOf(s), Threads)')
      BY DEF Starters, Cached, InBody, Total, CacheOf, BodyOf, Caches, Runs
    <3> QED BY <2>5, <3>1, <3>2
  <2> QED BY <1>1, <2>1, <2>2, <2>3, <2>4, <2>6, <2>7
          DEF Finite, RefsFinite, ArrivalsFinite, ScheduleFinite
<1>21. RefsCounted'
  <2>1. \A s \in Tasks : Executing(s)' <=> Executing(s)
    <3>1. \A y \in Workers : \A s : Ending(at'[y], s) <=> Ending(at[y], s)
      BY <1>8 DEF Threads
    <3> QED BY <1>1, <3>1 DEF Executing, Ending
  <2>2. ASSUME NEW CONSTANT s \in Tasks
        PROVE  /\ refs'[s] = Futures(s)' + Dependents(s)' + Unlinkers(s)'
                               + (IF Executing(s)' THEN 1 ELSE 0)
               /\ Destroyers(s)' = IF life'[s] = "live" /\ refs'[s] = 0 THEN 1 ELSE 0
    BY <1>1, <1>20, <2>1 DEF RefsCounted
  <2> QED BY <2>2 DEF RefsCounted
<1>22. ArrivalsCounted'
  BY <1>1, <1>20 DEF ArrivalsCounted
<1>23. ScheduledOnce'
  <2>1. ASSUME NEW s \in Tasks
        PROVE  queue'[s] + Cached(s)' + InBody(s)' =
                 IF status'[s] = "Running" /\ join'[s] = 0 /\ \A x \in Threads : ~Starting(at'[x], s)
                 THEN 1 ELSE 0
    <3>1. \A x \in Threads : Starting(at'[x], s) <=> Starting(at[x], s)
      BY <1>8
    <3> QED BY <1>1, <1>20, <3>1 DEF ScheduledOnce
  <2> QED BY <2>1 DEF ScheduledOnce
<1> QED BY <1>11, <1>12, <1>13, <1>14, <1>15, <1>16, <1>17, <1>18, <1>19, <1>20, <1>21, <1>22, <1>23
        DEF AInv, Stages, Sums

-----------------------------------------------------------------------------
(* The start of a task.                                                    *)

\* Nobody starts, tears down or executes a task that was not started.
LEMMA Unstarted ==
  ASSUME AInv, NEW CONSTANT t \in Tasks, status[t] = "Idle"
  PROVE  /\ m_edges[t] = <<>> /\ m_num_successors[t] = 0 /\ needs[t] = {} /\ join[t] = 0
         /\ Predecessors(t) = <<>> /\ Successors(t) = <<>>
         /\ \A x \in Threads : ~Starting(at[x], t) /\ ~Ending(at[x], t)
         /\ ~Executing(t) /\ Starters(t) = 0 /\ Promises(t) = 0 /\ Reaches(t) = 0
         /\ queue[t] + Cached(t) + InBody(t) = 0
<1>1. /\ TypeOK /\ Shapes /\ TaskStages /\ ClientsHold /\ EndsOnce /\ ArrivalsCounted /\ ScheduledOnce
      /\ Finite(t)
  BY DEF AInv, Stages, Sums
<1>2. m_edges[t] = <<>> /\ needs[t] = {} /\ join[t] = 0
  BY <1>1 DEF TaskStages
<1>3. m_num_successors[t] = 0
  <2>1. m_num_successors[t] \in Nat /\ m_num_successors[t] <= Len(m_edges[t]) /\ Len(<<>>) = 0
    BY <1>1, EmptySeq DEF TypeOK
  <2> QED BY <1>2, <2>1
<1>4. Predecessors(t) = <<>> /\ Successors(t) = <<>>
  <2>1. Predecessors(t) = SubSeq(<<>>, 1, 0) /\ Successors(t) = SubSeq(<<>>, 1, 0)
    <3>1. Len(<<>>) = 0 /\ 0 + 1 = 1
      BY EmptySeq
    <3> QED BY <1>2, <1>3, <3>1 DEF Predecessors, Successors
  <2>2. Successors(t) \in Seq(Tasks) /\ Len(Successors(t)) = 0
    BY <1>1, <1>3, EdgesType
  <2>3. Successors(t) = <<>>
    BY <2>2, EmptySeq
  <2> QED BY <2>1, <2>3
<1>5. ASSUME NEW x \in Threads PROVE ~Starting(at[x], t) /\ ~Ending(at[x], t)
  <2>1. ~Ending(at[x], t)
    BY <1>1 DEF EndsOnce
  <2>2. x \in Clients => ~Starting(at[x], t)
    BY <1>1 DEF ClientsHold, ClientHolds, Starting
  <2>3. x \in Workers => ~Starting(at[x], t)
    BY <1>1 DEF Shapes, Starting
  <2> QED BY <2>1, <2>2, <2>3 DEF Threads
<1>6. ~Executing(t)
  BY <1>5 DEF Executing, Ending, Threads
<1>7. Starters(t) = 0
  <2> DEFINE f == StarterOf(t)
  <2>1. \A x \in Threads : f[x] = 0
    BY <1>5 DEF StarterOf, StartsFor, Starting
  <2>2. Starters(t) = Cardinality(Units(f, Threads))
    BY DEF Starters, Total
  <2> HIDE DEF f
  <2> QED BY <2>1, <2>2, UnitsEmpty
<1> QED BY <1>1, <1>2, <1>3, <1>4, <1>5, <1>6, <1>7 DEF ArrivalsCounted, ScheduledOnce

\* The edges of a task without successors are its predecessors.
LEMMA OnlyPredecessors ==
  ASSUME NEW s \in Seq(Tasks)
  PROVE  SubSeq(s, 0 + 1, Len(s)) = s /\ SubSeq(s, 1, 0) = <<>>
<1>1. Len(s) \in Nat
  BY LenProperties
<1>2. SubSeq(s, 0 + 1, Len(s)) = s
  <2> DEFINE u == SubSeq(s, 0 + 1, Len(s))
  <2>1. 0 \in Nat /\ Len(s) <= Len(s)
    BY <1>1
  <2>2. /\ SubSeq(s, 0 + 1, Len(s)) \in Seq(Tasks)
        /\ Len(SubSeq(s, 0 + 1, Len(s))) = IF 0 <= Len(s) THEN Len(s) - 0 ELSE 0
        /\ \A i \in 1..(Len(s) - 0) : SubSeq(s, 0 + 1, Len(s))[i] = s[0 + i]
    BY <1>1, <2>1, PartOfEdges
  <2>3. u \in Seq(Tasks) /\ Len(u) = Len(s) /\ \A i \in 1..Len(s) : u[i] = s[i]
    <3> HIDE DEF u
    <3>1. /\ u \in Seq(Tasks) /\ Len(u) = IF 0 <= Len(s) THEN Len(s) - 0 ELSE 0
          /\ \A i \in 1..(Len(s) - 0) : u[i] = s[0 + i]
      BY <2>2 DEF u
    <3>2. ASSUME NEW i \in 1..Len(s) PROVE u[i] = s[i]
      <4>1. i \in 1..(Len(s) - 0) /\ 0 + i = i
        BY <1>1
      <4> QED BY <3>1, <4>1
    <3> QED BY <1>1, <3>1, <3>2
  <2> HIDE DEF u
  <2>4. u = s
    BY <2>3, SeqEqual
  <2> QED BY <2>4 DEF u
<1>3. SubSeq(s, 1, 0) = <<>>
  <2> DEFINE u == SubSeq(s, 0 + 1, 0)
  <2>1. 0 \in Nat /\ 0 <= Len(s)
    BY <1>1
  <2>2. /\ SubSeq(s, 0 + 1, 0) \in Seq(Tasks)
        /\ Len(SubSeq(s, 0 + 1, 0)) = IF 0 <= 0 THEN 0 - 0 ELSE 0
    BY <2>1, PartOfEdges
  <2>3. u \in Seq(Tasks) /\ Len(u) = 0
    BY <2>2
  <2>4. u = SubSeq(s, 1, 0)
    OBVIOUS
  <2> HIDE DEF u
  <2> QED BY <2>3, <2>4, EmptySeq
<1> QED BY <1>2, <1>3

\* The references that the start of t with dependencies D takes of task s.
Taken(D, t, s) ==
  Count(D, s) + (IF s = t THEN IF life[t] = "none" THEN 2 ELSE 1 ELSE 0)

\* Client c starts task t with dependencies D: it launches the task, or has
\* prepared it under the lock.
StartedBy(c, t, D) ==
  /\ status[t] = "Idle"
  /\ at[c].pc \in {"idle", "prepare"}
  /\ Others(c)
  /\ at' \in [Threads -> ThreadStates]
  /\ at'[c].pc \in {"unlock", "link"}
  /\ at'[c].task = t
  /\ at'[c].todo = D
  /\ at'[c].pending = <<>>
  /\ at'[c].cache = Nil
  /\ at'[c].pc = "unlock" => Locks(at[c], t) /\ life[t] = "live"
  /\ Range(D) \subseteq handles[c] \ {t}
  /\ \A d \in Range(D) : status[d] # "Idle"
  /\ \A e \in Clients \ {c} : at[e].pc = "prepare" => at[e].task # t
  /\ status' = [status EXCEPT ![t] = "Running"]
  /\ m_edges' = [m_edges EXCEPT ![t] = D]
  /\ join' = [join EXCEPT ![t] = Guarded(D)]
  /\ needs' = [needs EXCEPT ![t] = Range(D)]
  /\ UNCHANGED <<locked, m_num_successors, handles, queue>>
  /\ life' \in [Tasks -> {"none", "live", "freed"}]
  /\ life'[t] = "live"
  /\ \A s \in Tasks \ {t} : life'[s] = life[s]
  /\ life[t] = "none" \/ (life[t] = "live" /\ t \in handles[c])
  /\ refs' \in [Tasks -> Nat]
  /\ \A s \in Tasks : refs'[s] = refs[s] + Taken(D, t, s)

\* A task that a client has started.
LEMMA StartedStep ==
  ASSUME AInv, NEW CONSTANT c \in Clients, NEW CONSTANT t \in Tasks, NEW CONSTANT D \in Seq(Tasks),
         StartedBy(c, t, D)
  PROVE  AInv'
<1> SUFFICES ASSUME status[t] = "Idle",
                    at[c].pc \in {"idle", "prepare"},
                    Others(c),
                    at' \in [Threads -> ThreadStates],
                    at'[c].pc \in {"unlock", "link"},
                    at'[c].task = t,
                    at'[c].todo = D,
                    at'[c].pending = <<>>,
                    at'[c].cache = Nil,
                    at'[c].pc = "unlock" => Locks(at[c], t) /\ life[t] = "live",
                    Range(D) \subseteq handles[c] \ {t},
                    \A d \in Range(D) : status[d] # "Idle",
                    \A e \in Clients \ {c} : at[e].pc = "prepare" => at[e].task # t,
                    status' = [status EXCEPT ![t] = "Running"],
                    m_edges' = [m_edges EXCEPT ![t] = D],
                    join' = [join EXCEPT ![t] = Guarded(D)],
                    needs' = [needs EXCEPT ![t] = Range(D)],
                    UNCHANGED <<locked, m_num_successors, handles, queue>>,
                    life' \in [Tasks -> {"none", "live", "freed"}],
                    life'[t] = "live",
                    \A s \in Tasks \ {t} : life'[s] = life[s],
                    life[t] = "none" \/ (life[t] = "live" /\ t \in handles[c]),
                    refs' \in [Tasks -> Nat],
                    \A s \in Tasks : refs'[s] = refs[s] + Taken(D, t, s)
             PROVE  AInv'
  BY DEF StartedBy
<1>1. /\ TypeOK /\ Stages /\ Shapes /\ ClientsHold /\ LocksHeld /\ StartsOnce /\ EndsOnce /\ TaskStages
      /\ Linked /\ WaiterNotified /\ RefsCounted /\ ArrivalsCounted /\ ScheduledOnce
      /\ \A s \in Tasks : Finite(s)
      /\ c \in Threads /\ c \notin Workers /\ Shape(at[c])
      /\ at[c].pending = <<>> /\ at[c].cache = Nil
  BY AsyncAssumption DEF AInv, Stages, Sums, Threads, Shapes, Shape
<1>2. /\ m_edges[t] = <<>> /\ m_num_successors[t] = 0 /\ needs[t] = {} /\ join[t] = 0
      /\ Predecessors(t) = <<>> /\ Successors(t) = <<>>
      /\ \A x \in Threads : ~Starting(at[x], t) /\ ~Ending(at[x], t)
      /\ ~Executing(t) /\ Starters(t) = 0 /\ Promises(t) = 0 /\ Reaches(t) = 0
      /\ queue[t] + Cached(t) + InBody(t) = 0
  BY Unstarted
<1>3. /\ status' \in [Tasks -> {"Idle", "Running", "Finished"}]
      /\ status'[t] = "Running" /\ \A s \in Tasks \ {t} : status'[s] = status[s]
      /\ m_edges' \in [Tasks -> Seq(Tasks)]
      /\ m_edges'[t] = D /\ \A s \in Tasks \ {t} : m_edges'[s] = m_edges[s]
      /\ needs'[t] = Range(D) /\ \A s \in Tasks \ {t} : needs'[s] = needs[s]
      /\ needs' \in [Tasks -> SUBSET Tasks]
      /\ m_num_successors' = m_num_successors /\ handles' = handles /\ queue' = queue
      /\ locked' = locked
  BY <1>1, RangeOfSeq DEF TypeOK
<1>4. Len(D) \in Nat /\ (D = <<>> <=> Range(D) = {})
  <2>1. D # <<>> => Head(D) \in Range(D)
    BY RangeOfHeadTail
  <2> QED BY <2>1, RangeOfEmpty, LenProperties
<1>5. /\ join' \in [Tasks -> Nat] /\ join'[t] = Guarded(D) /\ Guarded(D) \in Nat
      /\ \A s \in Tasks \ {t} : join'[s] = join[s]
  <2>1. Guarded(D) \in Nat /\ join \in [Tasks -> Nat]
    BY <1>1, <1>4 DEF Guarded, TypeOK
  <2> QED BY <2>1
<1>6. /\ Predecessors(t)' = D /\ Successors(t)' = <<>>
      /\ \A s \in Tasks \ {t} : Predecessors(s)' = Predecessors(s) /\ Successors(s)' = Successors(s)
  <2>1. Predecessors(t)' = SubSeq(D, 0 + 1, Len(D)) /\ Successors(t)' = SubSeq(D, 1, 0)
    BY <1>2, <1>3 DEF Predecessors, Successors
  <2>2. SubSeq(D, 0 + 1, Len(D)) = D /\ SubSeq(D, 1, 0) = <<>>
    BY OnlyPredecessors
  <2> QED BY <1>3, <2>1, <2>2 DEF Predecessors, Successors
<1>7. TypeOK'
  <2>1. ASSUME NEW s \in Tasks PROVE m_num_successors'[s] <= Len(m_edges'[s])
    <3>1. m_num_successors'[t] = 0 /\ m_edges'[t] = D /\ 0 <= Len(D)
      BY <1>2, <1>3, <1>4
    <3>2. s # t => m_num_successors'[s] = m_num_successors[s] /\ m_edges'[s] = m_edges[s]
      BY <1>3
    <3>3. m_num_successors[s] <= Len(m_edges[s])
      BY <1>1 DEF TypeOK
    <3>4. CASE s = t
      BY <3>1, <3>4
    <3>5. CASE s # t
      BY <3>2, <3>3, <3>5
    <3> QED BY <3>4, <3>5
  <2>2. /\ locked' \in [Tasks -> BOOLEAN] /\ m_num_successors' \in [Tasks -> Nat]
        /\ handles' \in [Clients -> SUBSET Tasks] /\ queue' \in [Tasks -> Nat]
    BY <1>1, <1>3 DEF TypeOK
  <2>3. /\ status' \in [Tasks -> {"Idle", "Running", "Finished"}]
        /\ m_edges' \in [Tasks -> Seq(Tasks)] /\ needs' \in [Tasks -> SUBSET Tasks]
        /\ join' \in [Tasks -> Nat]
    BY <1>3, <1>5
  <2> QED BY <2>1, <2>2, <2>3, Zenon DEF TypeOK
<1>8. Shapes'
  <2>1. Shape(at'[c])
    BY DEF Shape
  <2> QED BY <1>1, <2>1, ShapesStep
<1>9. /\ Held(c) = handles[c] /\ Held(c)' = handles[c] \cup {t}
      /\ \A e \in Clients \ {c} : Held(e)' = Held(e)
  <2>1. Held(c) = handles[c]
    BY DEF Held
  <2>2. at'[c].pc = "unlock" => t \in handles[c]
    OBVIOUS
  <2>3. Held(c)' = handles[c] \cup {t}
    BY <1>3, <2>2 DEF Held
  <2>4. \A e \in Clients \ {c} : Held(e)' = Held(e)
    BY <1>3 DEF Held, Others, Threads
  <2> QED BY <2>1, <2>3, <2>4
<1>10. ClientsHold'
  <2> SUFFICES ASSUME NEW CONSTANT e \in Clients PROVE ClientHolds(e)'
    BY DEF ClientsHold
  <2>1. CASE e = c
    <3>1. at'[c].pc = "unlock" => t \in handles'[c]
      BY <1>3
    <3> QED BY <1>3, <2>1, <3>1 DEF ClientHolds
  <2>2. CASE e # c
    <3>1. at'[e] = at[e] /\ handles'[e] = handles[e] /\ at[e].todo \in Seq(Tasks) /\ e \in Threads
      BY <1>1, <1>3, <2>2 DEF Others, Threads, TypeOK, ThreadStates
    <3>2. ClientHolds(e) /\ Shape(at[e])
      BY <1>1, <3>1 DEF ClientsHold, Shapes
    <3>3. \A d \in Tasks : status[d] # "Idle" => status'[d] = status[d]
      BY <1>3
    <3>4. CASE at[e].pc \in {"lock", "prepare"}
      <4>1. \A d \in Range(at[e].todo) : status'[d] # "Idle"
        BY <1>3, <3>1, <3>2, <3>4, RangeOfSeq DEF ClientHolds
      <4>2. at[e].pc = "prepare" => status'[at[e].task] = "Idle"
        <5>1. at[e].pc = "prepare" => at[e].task # t /\ at[e].task \in Tasks
          BY <2>2, <3>2 DEF Shape
        <5> QED BY <1>3, <3>2, <5>1 DEF ClientHolds
      <4> QED BY <3>1, <3>2, <3>4, <4>1, <4>2 DEF ClientHolds
    <3>5. CASE at[e].pc \in {"unlock", "link", "append"}
      <4>1. at[e].task \in Tasks /\ at[e].task # t
        BY <3>2, <3>5 DEF ClientHolds, Shape
      <4>2. status'[at[e].task] = "Running" /\ Range(at[e].todo) \subseteq needs'[at[e].task]
        BY <1>3, <3>2, <3>5, <4>1 DEF ClientHolds
      <4>3. at[e].pc = "append" => Head(at[e].todo) \in Tasks
        BY <3>1, <3>2, HeadTailProperties DEF Shape
      <4>4. at[e].pc = "append" => status'[Head(at[e].todo)] = "Running"
        BY <3>2, <3>3, <4>3 DEF ClientHolds
      <4> QED BY <3>1, <3>2, <3>5, <4>2, <4>4 DEF ClientHolds
    <3>6. CASE at[e].pc \notin {"lock", "prepare", "unlock", "link", "append"}
      BY <3>1, <3>2, <3>6 DEF ClientHolds
    <3> QED BY <3>4, <3>5, <3>6
  <2> QED BY <2>1, <2>2
<1>11. LocksHeld'
  <2>1. \A s \in Tasks : Locks(at'[c], s) => locked'[s] /\ Locks(at[c], s)
    BY <1>1, <1>3 DEF Locks, LocksHeld
  <2> QED BY <1>1, <1>3, <2>1, LocksStep
<1>12. StartsOnce'
  <2>1. \A s \in Tasks : Starting(at'[c], s) => s = t
    BY DEF Starting
  <2> QED BY <1>1, <1>2, <2>1, StartsOnceStep
<1>13. EndsOnce'
  <2>1. \A s : ~Ending(at'[c], s)
    BY DEF Ending
  <2>2. \A s \in Tasks : status[s] = "Finished" => status'[s] = "Finished"
    BY <1>3
  <2> QED BY <1>1, <1>3, <2>1, <2>2, EndsOnceStep
<1>14. WaiterNotified'
  <2> SUFFICES ASSUME NEW e \in Clients, at'[e].pc = "blocked", status'[at'[e].task] = "Finished"
               PROVE  \E w \in Workers : at'[w].pc = "notify" /\ at'[w].task = at'[e].task
    BY DEF WaiterNotified
  <2>1. e # c /\ at'[e] = at[e] /\ e \in Threads
    BY DEF Others, Threads
  <2>2. at[e].task \in Tasks
    BY <1>1, <2>1 DEF Shapes, Shape
  <2>3. status[at[e].task] = "Finished"
    BY <1>3, <2>1, <2>2
  <2>4. PICK w \in Workers : at[w].pc = "notify" /\ at[w].task = at[e].task
    BY <1>1, <2>1, <2>3 DEF WaiterNotified
  <2>5. at'[w] = at[w]
    BY <1>1, <2>4 DEF Others, Threads
  <2> QED BY <2>1, <2>4, <2>5
<1>15. Linked'
  <2> SUFFICES ASSUME NEW s \in Tasks, status'[s] = "Running", NEW d \in needs'[s]
               PROVE  \/ status'[d] = "Finished"
                      \/ \E y \in Threads : Starting(at'[y], s) /\ d \in Range(at'[y].todo)
                      \/ Count(Successors(d)', s) >= 1
    BY DEF Linked, Count
  <2>1. CASE s = t
    <3>1. Starting(at'[c], t) /\ d \in Range(at'[c].todo)
      BY <1>3, <2>1 DEF Starting
    <3> QED BY <1>1, <2>1, <3>1
  <2>2. CASE s # t
    <3>1. status[s] = "Running" /\ d \in needs[s] /\ d \in Tasks
      BY <1>1, <1>3, <2>2 DEF TypeOK
    <3>2. \/ status[d] = "Finished"
          \/ \E y \in Threads : Starting(at[y], s) /\ d \in Range(at[y].todo)
          \/ Count(Successors(d), s) >= 1
      BY <1>1, <3>1 DEF Linked
    <3>3. Successors(d)' = Successors(d)
      BY <1>2, <1>6, <3>1
    <3>4. status[d] = "Finished" => status'[d] = "Finished"
      BY <1>3, <3>1
    <3>5. ASSUME NEW y \in Threads, Starting(at[y], s), d \in Range(at[y].todo)
          PROVE  Starting(at'[y], s) /\ d \in Range(at'[y].todo)
      <4>1. y # c
        BY <3>5 DEF Starting
      <4> QED BY <3>5, <4>1 DEF Others
    <3> QED BY <3>2, <3>3, <3>4, <3>5
  <2> QED BY <2>1, <2>2
<1>16. TaskStages'
  <2> SUFFICES ASSUME NEW s \in Tasks
               PROVE  /\ status'[s] = "Idle" => m_edges'[s] = <<>> /\ needs'[s] = {}
                      /\ life'[s] = "none" => status'[s] = "Idle"
                      /\ life'[s] # "live" => m_edges'[s] = <<>> /\ refs'[s] = 0
                      /\ life'[s] = "live" => \A d \in Tasks :
                           d \in needs'[s] <=> Count(Predecessors(s)', d) >= 1
                      /\ status'[s] # "Running" => join'[s] = 0
                      /\ \A d \in needs'[s] : status'[d] # "Idle" /\ d # s
    BY DEF TaskStages, Count
  <2>1. \A d \in Tasks : status[d] # "Idle" => status'[d] # "Idle"
    BY <1>3
  <2>2. Range(D) \subseteq Tasks
    BY RangeOfSeq
  <2>3. CASE s = t
    <3>1. \A d \in Tasks : d \in needs'[s] <=> Count(Predecessors(s)', d) >= 1
      BY <1>3, <1>6, <2>3, CountType
    <3>2. \A d \in needs'[s] : status'[d] # "Idle" /\ d # s
      BY <1>3, <2>1, <2>2, <2>3
    <3> QED BY <1>3, <2>3, <3>1, <3>2
  <2>4. CASE s # t
    <3>1. /\ status'[s] = status[s] /\ life'[s] = life[s] /\ m_edges'[s] = m_edges[s]
          /\ needs'[s] = needs[s] /\ join'[s] = join[s] /\ Predecessors(s)' = Predecessors(s)
          /\ needs[s] \subseteq Tasks
      BY <1>1, <1>3, <1>5, <1>6, <2>4 DEF TypeOK
    <3>2. \A d \in needs'[s] : status'[d] # "Idle" /\ d # s
      BY <1>1, <2>1, <3>1 DEF TaskStages
    <3>3. life[s] # "live" => refs'[s] = 0
      <4>1. ASSUME life[s] # "live" PROVE refs'[s] = 0
        <5>1. refs[s] = 0
          BY <1>1, <4>1 DEF TaskStages
        <5>2. s \notin Range(D)
          <6>1. s \notin Held(c)
            BY <5>1, Referred
          <6> QED BY <1>9, <6>1
        <5>3. Count(D, s) = 0
          BY <5>2, CountType
        <5>4. Taken(D, t, s) = 0
          BY <2>4, <5>3 DEF Taken
        <5> QED BY <5>1, <5>4
      <4> QED BY <4>1
    <3> QED BY <1>1, <3>1, <3>2, <3>3 DEF TaskStages
  <2> QED BY <2>3, <2>4
<1>17. RefsCounted' /\ \A s \in Tasks : RefsFinite(s)'
  <2>1. ASSUME NEW CONSTANT s \in Tasks PROVE Executing(s)' <=> Executing(s) \/ s = t
    <3>1. \A w \in Workers : at'[w] = at[w]
      BY <1>1 DEF Others, Threads
    <3>2. (\E w \in Workers : at'[w].pc \in {"notify", "successors"} /\ at'[w].task = s) <=>
            (\E w \in Workers : at[w].pc \in {"notify", "successors"} /\ at[w].task = s)
      BY <3>1
    <3> QED BY <1>3, <3>2 DEF Executing
  <2>2. /\ Unlinks(at[c]) = <<>> /\ Unlinks(at'[c]) = <<>> /\ <<>> \in Seq(Tasks)
    BY EmptySeq DEF Unlinks
  <2>3. ASSUME NEW CONSTANT s \in Tasks
        PROVE  /\ RefsFinite(s)'
               /\ Futures(s)' = Futures(s) + (IF s = t /\ life[t] = "none" THEN 1 ELSE 0)
               /\ Dependents(s)' = Dependents(s) + Count(D, s)
               /\ Unlinkers(s)' = Unlinkers(s) /\ Destroyers(s)' = Destroyers(s)
    <3>1. /\ Futures(s) \in Nat /\ Dependents(s) \in Nat /\ Unlinkers(s) \in Nat /\ Destroyers(s) \in Nat
          /\ Count(<<>>, s) = 0 /\ Count(D, s) \in Nat /\ Finite(s)
      BY <1>1, SumsType, CountEmpty, CountType
    <3>2. /\ IsFiniteSet(Units(FutureOf(s), Clients)')
          /\ Futures(s)' = Futures(s) - (IF s \in Held(c) THEN 1 ELSE 0)
                                      + (IF s \in Held(c)' THEN 1 ELSE 0)
      <4>1. \A e \in Clients \ {c} : s \in Held(e)' <=> s \in Held(e)
        BY <1>9
      <4> QED BY <3>1, <4>1, FuturesStep
    <3>3. /\ IsFiniteSet(Places(PredecessorsOf, Tasks, s)')
          /\ Dependents(s)' = Dependents(s) - Count(Predecessors(t), s) + Count(Predecessors(t)', s)
      <4>1. Predecessors(t) \in Seq(Tasks) /\ Predecessors(t)' \in Seq(Tasks)
        BY <1>2, <1>6, <2>2
      <4>2. \A d \in Tasks \ {t} : Predecessors(d)' = Predecessors(d)
        BY <1>6
      <4> QED BY <3>1, <4>1, <4>2, DependentsStep
    <3>4. /\ IsFiniteSet(Places(UnlinksOf, Threads, s)')
          /\ Unlinkers(s)' = Unlinkers(s) - Count(Unlinks(at[c]), s) + Count(Unlinks(at'[c]), s)
      <4>1. Unlinks(at[c]) \in Seq(Tasks) /\ Unlinks(at'[c]) \in Seq(Tasks)
        BY <2>2
      <4> QED BY <1>1, <3>1, <4>1, UnlinkersStep
    <3>5. /\ IsFiniteSet(Places(PendingOf, Threads, s)')
          /\ Destroyers(s)' = Destroyers(s) - Count(at[c].pending, s) + Count(at'[c].pending, s)
      <4>1. at[c].pending \in Seq(Tasks) /\ at'[c].pending \in Seq(Tasks)
        BY <1>1, <2>2
      <4> QED BY <1>1, <3>1, <4>1, DestroyersStep
    <3>6. Dependents(s)' = Dependents(s) + Count(D, s)
      BY <1>2, <1>6, <3>1, <3>3
    <3>7. Unlinkers(s)' = Unlinkers(s) /\ Destroyers(s)' = Destroyers(s)
      BY <1>1, <2>2, <3>1, <3>4, <3>5
    <3>8. Futures(s)' = Futures(s) + (IF s = t /\ life[t] = "none" THEN 1 ELSE 0)
      <4>1. s \in Held(c)' <=> s \in Held(c) \/ s = t
        BY <1>9
      <4>2. t \in Held(c) <=> life[t] # "none"
        <5>1. life[t] = "none" => t \notin Held(c)
          BY Referred
        <5> QED BY <1>9, <5>1
      <4> QED BY <3>1, <3>2, <4>1, <4>2
    <3> QED BY <3>2, <3>3, <3>4, <3>5, <3>6, <3>7, <3>8 DEF RefsFinite
  <2>4. ASSUME NEW CONSTANT s \in Tasks
        PROVE  /\ refs'[s] = Futures(s)' + Dependents(s)' + Unlinkers(s)'
                               + (IF Executing(s)' THEN 1 ELSE 0)
               /\ Destroyers(s)' = IF life'[s] = "live" /\ refs'[s] = 0 THEN 1 ELSE 0
    <3> DEFINE f == Futures(s)
               g == Dependents(s)
               u == Unlinkers(s)
               k == Count(D, s)
               new == IF s = t /\ life[t] = "none" THEN 1 ELSE 0
               e0 == IF Executing(s) THEN 1 ELSE 0
               e1 == IF Executing(s)' THEN 1 ELSE 0
               more == IF s = t THEN IF life[t] = "none" THEN 2 ELSE 1 ELSE 0
    <3>1. f \in Nat /\ g \in Nat /\ u \in Nat /\ k \in Nat /\ new \in Nat /\ e0 \in Nat /\ e1 \in Nat
      BY <1>1, SumsType, CountType
    <3>2. more = new + (e1 - e0) /\ more \in Nat
      <4>1. s = t => e0 = 0 /\ e1 = 1
        BY <1>2, <2>1
      <4>2. s # t => e1 = e0
        BY <2>1
      <4> HIDE DEF e0, e1
      <4> QED BY <3>1, <4>1, <4>2
    <3>3. refs[s] = f + g + u + e0
      BY <1>1 DEF RefsCounted
    <3>4. refs'[s] = refs[s] + k + more
      <4>1. refs'[s] = refs[s] + Taken(D, t, s) /\ Taken(D, t, s) = k + more /\ refs[s] \in Nat
        BY <1>1 DEF Taken, TypeOK
      <4> HIDE DEF k, more
      <4> QED BY <3>1, <3>2, <4>1
    <3>5. Futures(s)' = f + new /\ Dependents(s)' = g + k /\ Unlinkers(s)' = u
      BY <2>3
    <3>6. refs'[s] = Futures(s)' + Dependents(s)' + Unlinkers(s)' + e1
      <4> HIDE DEF f, g, u, k, new, e0, e1, more
      <4>1. refs'[s] = (f + g + u + e0) + k + (new + (e1 - e0))
        BY <3>2, <3>3, <3>4
      <4>2. (f + g + u + e0) + k + (new + (e1 - e0)) = (f + new) + (g + k) + u + e1
        BY <3>1
      <4> QED BY <3>5, <4>1, <4>2
    <3>7. Destroyers(s)' = IF life'[s] = "live" /\ refs'[s] = 0 THEN 1 ELSE 0
      <4>1. Destroyers(s) = IF life[s] = "live" /\ refs[s] = 0 THEN 1 ELSE 0
        BY <1>1 DEF RefsCounted
      <4>2. refs[s] \in Nat /\ (s \in Held(c) => refs[s] >= 1)
        BY Referred
      <4>3. k # 0 => refs[s] >= 1
        <5>1. k # 0 => s \in Range(D)
          BY <3>1, CountType
        <5> QED BY <1>9, <4>2, <5>1
      <4>4. CASE s = t
        <5>1. more >= 1
          BY <4>4
        <5>2. Destroyers(s) = 0
          BY <1>9, <4>1, <4>2, <4>4
        <5>3. refs'[s] # 0
          <6> HIDE DEF k, more
          <6> QED BY <3>1, <3>2, <3>4, <4>2, <5>1
        <5> QED BY <2>3, <5>2, <5>3
      <4>5. CASE s # t
        <5>1. more = 0 /\ life'[s] = life[s]
          BY <4>5
        <5>2. refs'[s] = 0 <=> refs[s] = 0
          <6> HIDE DEF k, more
          <6> QED BY <3>1, <3>4, <4>2, <4>3, <5>1
        <5> QED BY <2>3, <4>1, <5>1, <5>2
      <4> QED BY <4>4, <4>5
    <3> QED BY <3>6, <3>7
  <2> QED BY <2>3, <2>4 DEF RefsCounted
<1>18. ArrivalsCounted' /\ \A s \in Tasks : ArrivalsFinite(s)'
  <2>1. \A d \in Tasks : Promised(d)' = Promised(d)
    BY <1>2, <1>3, <1>6 DEF Promised
  <2>2. ASSUME NEW y \in Threads PROVE ToReach(y)' = ToReach(y)
    <3>1. CASE y = c
      BY <1>1, <3>1 DEF ToReach
    <3>2. CASE y # c
      <4>1. at'[y] = at[y]
        BY <3>2 DEF Others
      <4>2. CASE at[y].pc \in {"notify", "successors"}
        <5>1. at[y].task \in Tasks /\ at[y].task # t
          BY <1>1, <1>2, <4>2 DEF Shapes, Shape, Ending
        <5> QED BY <1>3, <1>6, <4>1, <4>2, <5>1 DEF ToReach
      <4>3. CASE at[y].pc \notin {"notify", "successors"}
        BY <4>1, <4>3 DEF ToReach
      <4> QED BY <4>2, <4>3
    <3> QED BY <3>1, <3>2
  <2>3. ASSUME NEW CONSTANT s \in Tasks
        PROVE  /\ ArrivalsFinite(s)' /\ Promises(s)' = Promises(s) /\ Reaches(s)' = Reaches(s)
               /\ Starters(s)' = Starters(s) + IF s = t THEN Len(D) + 1 ELSE 0
    <3>1. Finite(s) /\ Starters(s) \in Nat
      BY <1>1, SumsType
    <3>2. IsFiniteSet(Places(PromisedOf, Tasks, s)') /\ Promises(s)' = Promises(s)
      BY <2>1, <3>1, PromisesSame
    <3>3. IsFiniteSet(Places(ToReachOf, Threads, s)') /\ Reaches(s)' = Reaches(s)
      BY <2>2, <3>1, ReachesSame
    <3>4. StartsFor(at[c], s) = 0 /\ StartsFor(at'[c], s) = IF s = t THEN Len(D) + 1 ELSE 0
      BY DEF StartsFor
    <3>5. StartsFor(at[c], s) \in Nat /\ StartsFor(at'[c], s) \in Nat
      BY <1>4, <3>4
    <3>6. /\ IsFiniteSet(Units(StarterOf(s), Threads)')
          /\ Starters(s)' = Starters(s) - StartsFor(at[c], s) + StartsFor(at'[c], s)
      BY <1>1, <3>1, <3>5, StartersStep
    <3>7. Starters(s)' = Starters(s) + IF s = t THEN Len(D) + 1 ELSE 0
      BY <3>1, <3>4, <3>5, <3>6
    <3> QED BY <3>2, <3>3, <3>6, <3>7 DEF ArrivalsFinite
  <2>4. ASSUME NEW CONSTANT s \in Tasks
        PROVE  IF needs'[s] = {} THEN join'[s] = 0 /\ Promises(s)' = 0 /\ Reaches(s)' = 0
               ELSE join'[s] = Starters(s)' + Promises(s)' + Reaches(s)'
    <3>1. Starters(s) \in Nat
      BY <1>1, SumsType
    <3>2. CASE s = t
      <4>1. Promises(s)' = 0 /\ Reaches(s)' = 0 /\ Starters(s)' = Len(D) + 1
        BY <1>2, <1>4, <2>3, <3>2
      <4> QED BY <1>3, <1>4, <1>5, <3>2, <4>1 DEF Guarded
    <3>3. CASE s # t
      <4>1. Starters(s)' = Starters(s) /\ join'[s] = join[s] /\ needs'[s] = needs[s]
        BY <1>3, <1>5, <2>3, <3>1, <3>3
      <4> QED BY <1>1, <2>3, <4>1 DEF ArrivalsCounted
    <3> QED BY <3>2, <3>3
  <2> QED BY <2>3, <2>4 DEF ArrivalsCounted
<1>19. ScheduledOnce' /\ \A s \in Tasks : ScheduleFinite(s)'
  <2>1. ASSUME NEW CONSTANT s \in Tasks
        PROVE  /\ ScheduleFinite(s)' /\ Cached(s)' = Cached(s) /\ InBody(s)' = InBody(s)
    <3>1. /\ Caches(at'[c], s) = Caches(at[c], s) /\ Caches(at[c], s) \in Nat
          /\ Runs(at'[c], s) = 0 /\ Runs(at[c], s) = 0
      BY <1>1 DEF Caches, Runs
    <3>2. /\ ScheduleFinite(s)'
          /\ Cached(s)' = Cached(s) - Caches(at[c], s) + Caches(at'[c], s)
          /\ InBody(s)' = InBody(s) - Runs(at[c], s) + Runs(at'[c], s)
      BY <1>1, ScheduleBalance
    <3>3. Cached(s) \in Nat /\ InBody(s) \in Nat
      BY <1>1, SumsType
    <3> QED BY <3>1, <3>2, <3>3
  <2>2. ASSUME NEW CONSTANT s \in Tasks
        PROVE  queue'[s] + Cached(s)' + InBody(s)' =
                 IF /\ status'[s] = "Running" /\ join'[s] = 0
                    /\ \A x \in Threads : ~Starting(at'[x], s)
                 THEN 1 ELSE 0
    <3>1. queue'[s] + Cached(s)' + InBody(s)' = queue[s] + Cached(s) + InBody(s)
      BY <1>3, <2>1
    <3>2. CASE s = t
      <4>1. Starting(at'[c], t)
        BY DEF Starting
      <4> QED BY <1>1, <1>2, <3>1, <3>2, <4>1
    <3>3. CASE s # t
      <4>1. \A x \in Threads : Starting(at'[x], s) <=> Starting(at[x], s)
        <5>1. ~Starting(at'[c], s) /\ ~Starting(at[c], s)
          BY <3>3 DEF Starting
        <5> QED BY <5>1 DEF Others
      <4>2. status'[s] = status[s] /\ join'[s] = join[s]
        BY <1>3, <1>5, <3>3
      <4>3. queue[s] + Cached(s) + InBody(s) =
              IF status[s] = "Running" /\ join[s] = 0 /\ \A x \in Threads : ~Starting(at[x], s)
              THEN 1 ELSE 0
        BY <1>1 DEF ScheduledOnce
      <4> QED BY <3>1, <4>1, <4>2, <4>3
    <3> QED BY <3>2, <3>3
  <2> QED BY <2>1, <2>2 DEF ScheduledOnce
<1> QED BY <1>7, <1>8, <1>10, <1>11, <1>12, <1>13, <1>14, <1>15, <1>16, <1>17, <1>18, <1>19
        DEF AInv, Stages, Sums, Finite

\* Retained counts one more reference for each mention.
LEMMA RetainedCounts ==
  ASSUME NEW r \in [Tasks -> Nat], NEW D \in Seq(Tasks)
  PROVE  /\ Retained(r, D) \in [Tasks -> Nat]
         /\ \A s \in Tasks : Retained(r, D)[s] = r[s] + Count(D, s) /\ Count(D, s) \in Nat
<1>1. \A s \in Tasks : Count(D, s) \in Nat
  BY CountType
<1>2. \A s \in Tasks : r[s] + Count(D, s) \in Nat
  BY <1>1
<1> QED BY <1>1, <1>2 DEF Retained

\* Under the lock a task is prepared and published as running.
LEMMA PreparesStart ==
  ASSUME AInv, NEW CONSTANT c \in Clients, StartPrepare(c)
  PROVE  \E u \in Tasks : \E U \in Seq(Tasks) : StartedBy(c, u, U)
<1>1. /\ TypeOK /\ Shapes /\ ClientHolds(c) /\ LocksHeld
      /\ at[c] \in ThreadStates /\ at[c].pc = "prepare" /\ at[c].todo \in Seq(Tasks)
      /\ at[c].task \in Tasks /\ at[c].pending = <<>> /\ at[c].cache = Nil /\ c \in Threads
      /\ UNCHANGED <<locked, m_num_successors, handles, queue>> /\ UNCHANGED life
      /\ at' = [at EXCEPT ![c].pc = "unlock"]
  BY DEF AInv, Stages, Shapes, Shape, TypeOK, StartPrepare, Goto, ThreadStates, Threads, ClientsHold
<1>2. SUFFICES ASSUME NEW CONSTANT t \in Tasks, t = at[c].task,
                      NEW CONSTANT D \in Seq(Tasks), D = at[c].todo
               PROVE  \E u \in Tasks : \E U \in Seq(Tasks) : StartedBy(c, u, U)
  BY <1>1
<1>3. /\ m_edges' = [m_edges EXCEPT ![t] = D]
      /\ refs' = [Retained(refs, D) EXCEPT ![t] = @ + 1]
      /\ join' = [join EXCEPT ![t] = Guarded(D)]
      /\ status' = [status EXCEPT ![t] = "Running"]
      /\ needs' = [needs EXCEPT ![t] = Range(D)]
  BY <1>2 DEF StartPrepare
<1>4. /\ status[t] = "Idle" /\ t \in handles[c]
      /\ Range(D) \subseteq handles[c] \ {t} /\ \A d \in Range(D) : status[d] # "Idle"
  BY <1>1, <1>2 DEF ClientHolds
<1>5. /\ at' \in [Threads -> ThreadStates] /\ Others(c)
      /\ at'[c].pc = "unlock" /\ at'[c].task = t /\ at'[c].todo = D
      /\ at'[c].pending = <<>> /\ at'[c].cache = Nil
  <2>1. at' \in [Threads -> ThreadStates] /\ Others(c)
    BY <1>1 DEF TypeOK, ThreadStates, Others
  <2> QED BY <1>1, <1>2, <2>1 DEF TypeOK, ThreadStates
<1>6. life[t] = "live" /\ life' \in [Tasks -> {"none", "live", "freed"}]
  <2>1. t \in Held(c)
    BY <1>4 DEF Held
  <2>2. refs[t] >= 1
    BY <2>1, Referred
  <2>3. life[t] = "live"
    BY <2>2, Referred
  <2> QED BY <1>1, <2>3 DEF TypeOK
<1>7. Locks(at[c], t)
  BY <1>1, <1>2 DEF Locks
<1>8. \A e \in Clients \ {c} : at[e].pc = "prepare" => at[e].task # t
  BY <1>1, <1>7 DEF Locks, LocksHeld, Threads
<1>9. /\ refs' \in [Tasks -> Nat]
      /\ \A s \in Tasks : refs'[s] = refs[s] + Taken(D, t, s)
  <2> DEFINE r == Retained(refs, D)
  <2>1. /\ refs \in [Tasks -> Nat] /\ r \in [Tasks -> Nat]
        /\ \A s \in Tasks : r[s] = refs[s] + Count(D, s) /\ Count(D, s) \in Nat
    BY <1>1, RetainedCounts DEF TypeOK
  <2>2. refs' = [r EXCEPT ![t] = @ + 1]
    BY <1>3
  <2> HIDE DEF r
  <2> QED BY <1>6, <2>1, <2>2 DEF Taken
<1>10. /\ at[c].pc \in {"idle", "prepare"} /\ at'[c].pc \in {"unlock", "link"}
       /\ at'[c].pc = "unlock" => Locks(at[c], t) /\ life[t] = "live"
       /\ life[t] = "none" \/ (life[t] = "live" /\ t \in handles[c])
       /\ life'[t] = "live" /\ \A s \in Tasks \ {t} : life'[s] = life[s]
       /\ UNCHANGED <<locked, m_num_successors, handles, queue>>
  BY <1>1, <1>4, <1>5, <1>6, <1>7
<1>11. StartedBy(c, t, D)
  BY <1>3, <1>4, <1>5, <1>6, <1>8, <1>9, <1>10, Zenon DEF StartedBy
<1> QED BY <1>11

\* A task is created and started at once.
LEMMA LaunchesStart ==
  ASSUME AInv, NEW CONSTANT c \in Clients, Launch(c)
  PROVE  \E u \in Tasks : \E U \in Seq(Tasks) : StartedBy(c, u, U)
<1>1. /\ TypeOK /\ Shapes /\ ClientsHold /\ TaskStages
      /\ at[c] \in ThreadStates /\ at[c].pc = "idle" /\ at[c] = Idle /\ c \in Threads
      /\ UNCHANGED <<locked, m_num_successors, handles, queue>>
      /\ handles[c] \in SUBSET Tasks
  BY DEF AInv, Stages, Shapes, Shape, TypeOK, Launch, Threads
<1>2. SUFFICES ASSUME NEW CONSTANT t \in Tasks, NEW CONSTANT D, D \in DepLists(handles[c]),
                      life[t] = "none", Started(D),
                      life' = [life EXCEPT ![t] = "live"],
                      refs' = [Retained(refs, D) EXCEPT ![t] = 2],
                      m_edges' = [m_edges EXCEPT ![t] = D],
                      status' = [status EXCEPT ![t] = "Running"],
                      join' = [join EXCEPT ![t] = Guarded(D)],
                      needs' = [needs EXCEPT ![t] = Range(D)],
                      at' = [at EXCEPT ![c].pc = "link", ![c].task = t, ![c].todo = D]
               PROVE  \E u \in Tasks : \E U \in Seq(Tasks) : StartedBy(c, u, U)
  BY DEF Launch
<1>3. D \in Seq(Tasks) /\ Range(D) \subseteq handles[c] /\ \A d \in Range(D) : status[d] # "Idle"
  BY <1>1, <1>2, DepListsType
<1>4. status[t] = "Idle" /\ refs[t] = 0
  BY <1>1, <1>2 DEF TaskStages
<1>5. /\ at' \in [Threads -> ThreadStates] /\ Others(c)
      /\ at'[c].pc = "link" /\ at'[c].task = t /\ at'[c].todo = D
      /\ at'[c].pending = <<>> /\ at'[c].cache = Nil
  <2> DEFINE r == [at[c] EXCEPT !.pc = "link", !.task = t, !.todo = D]
  <2>1. at' = [at EXCEPT ![c] = r] /\ at \in [Threads -> ThreadStates]
    BY <1>1, <1>2 DEF TypeOK
  <2>2. at[c].pending = <<>> /\ at[c].cache = Nil
    BY <1>1 DEF Idle
  <2>3. /\ r.pc = "link" /\ r.task = t /\ r.todo = D /\ r.pending = <<>> /\ r.cache = Nil
        /\ r \in ThreadStates
    BY <1>1, <1>3, <2>2 DEF ThreadStates
  <2> HIDE DEF r
  <2>4. at' \in [Threads -> ThreadStates] /\ Others(c) /\ at'[c] = r
    BY <1>1, <2>1, <2>3 DEF Others
  <2> QED BY <2>3, <2>4
<1>6. ASSUME NEW e \in Clients PROVE t \notin handles[e]
  <2>1. t \notin Held(e)
    BY <1>4, Referred
  <2> QED BY <2>1 DEF Held
<1>7. Range(D) \subseteq handles[c] \ {t}
  BY <1>3, <1>6
<1>8. \A e \in Clients \ {c} : at[e].pc = "prepare" => at[e].task # t
  BY <1>1, <1>6 DEF ClientsHold, ClientHolds
<1>9. /\ life' \in [Tasks -> {"none", "live", "freed"}] /\ life'[t] = "live"
      /\ \A s \in Tasks \ {t} : life'[s] = life[s]
  BY <1>1, <1>2 DEF TypeOK
<1>10. /\ refs' \in [Tasks -> Nat]
       /\ \A s \in Tasks : refs'[s] = refs[s] + Taken(D, t, s)
  <2> DEFINE r == Retained(refs, D)
  <2>1. /\ refs \in [Tasks -> Nat] /\ r \in [Tasks -> Nat]
        /\ \A s \in Tasks : r[s] = refs[s] + Count(D, s) /\ Count(D, s) \in Nat
    BY <1>1, <1>3, RetainedCounts DEF TypeOK
  <2>2. refs' = [r EXCEPT ![t] = 2]
    BY <1>2
  <2>3. Count(D, t) = 0
    BY <1>3, <1>7, CountType
  <2> HIDE DEF r
  <2>4. refs' \in [Tasks -> Nat] /\ refs'[t] = 2 /\ \A s \in Tasks \ {t} : refs'[s] = r[s]
    BY <2>1, <2>2
  <2>5. refs[t] + Taken(D, t, t) = 2
    BY <1>2, <1>4, <2>3 DEF Taken
  <2>6. \A s \in Tasks \ {t} : refs[s] + Taken(D, t, s) = refs[s] + Count(D, s)
    BY <2>1 DEF Taken
  <2> QED BY <2>1, <2>4, <2>5, <2>6
<1>11. /\ at[c].pc \in {"idle", "prepare"} /\ at'[c].pc \in {"unlock", "link"}
       /\ at'[c].pc = "unlock" => Locks(at[c], t) /\ life[t] = "live"
       /\ life[t] = "none" \/ (life[t] = "live" /\ t \in handles[c])
       /\ UNCHANGED <<locked, m_num_successors, handles, queue>>
       /\ \A d \in Range(D) : status[d] # "Idle"
  BY <1>1, <1>2, <1>3, <1>5
<1>12. D \in Seq(Tasks) /\ status[t] = "Idle"
  BY <1>3, <1>4
<1>13. StartedBy(c, t, D)
  BY <1>2, <1>5, <1>7, <1>8, <1>9, <1>10, <1>11, <1>12, Zenon DEF StartedBy
<1> QED BY <1>12, <1>13

\* A client starts a task.
LEMMA StartStep ==
  ASSUME AInv, NEW CONSTANT c \in Clients, StartPrepare(c) \/ Launch(c)
  PROVE  AInv'
<1>1. \E t \in Tasks : \E D \in Seq(Tasks) : StartedBy(c, t, D)
  BY PreparesStart, LaunchesStart
<1>2. SUFFICES ASSUME NEW CONSTANT t \in Tasks, NEW CONSTANT D \in Seq(Tasks), StartedBy(c, t, D)
               PROVE  AInv'
  BY <1>1
<1> QED BY <1>2, StartedStep

-----------------------------------------------------------------------------
(* The invariant holds.                                                    *)

\* Nothing is created yet: every sum is zero and AInv holds.
LEMMA AsyncInit == Init => AInv
<1> SUFFICES ASSUME Init PROVE AInv
  OBVIOUS
<1>1. /\ \A t \in Tasks : /\ status[t] = "Idle" /\ locked[t] = FALSE /\ refs[t] = 0 /\ join[t] = 0
                          /\ m_edges[t] = <<>> /\ m_num_successors[t] = 0 /\ life[t] = "none"
                          /\ queue[t] = 0 /\ needs[t] = {}
      /\ \A c \in Clients : handles[c] = {}
      /\ \A x \in Threads : at[x] = Idle
      /\ Clients \subseteq Threads /\ Workers \subseteq Threads
  BY DEF Init, Threads
<1>2. /\ Idle.pc = "idle" /\ Idle.task = Nil /\ Idle.todo = <<>> /\ Idle.pending = <<>>
      /\ Idle.cache = Nil /\ Nil \notin Tasks /\ Idle \in ThreadStates
  BY AsyncAssumption, EmptySeq DEF Idle, ThreadStates
<1>3. TypeOK
  <2>1. <<>> \in Seq(Tasks) /\ Len(<<>>) = 0
    BY EmptySeq
  <2> QED BY <1>1, <1>2, <2>1 DEF TypeOK, Init
<1> HIDE DEF Idle
<1>4. Shapes /\ ClientsHold /\ LocksHeld /\ StartsOnce /\ EndsOnce /\ Linked /\ WaiterNotified
  <2>1. Shape(Idle)
    BY <1>2 DEF Shape
  <2>2. ClientsHold
    BY <1>1, <1>2 DEF ClientsHold, ClientHolds
  <2>3. LocksHeld /\ StartsOnce /\ EndsOnce
    BY <1>1, <1>2 DEF LocksHeld, Locks, StartsOnce, Starting, EndsOnce, Ending
  <2>4. Shapes
    BY <1>1, <1>2, <2>1 DEF Shapes
  <2> QED BY <1>1, <1>2, <2>2, <2>3, <2>4 DEF Linked, WaiterNotified
<1>5. TaskStages
  BY <1>1 DEF TaskStages
<1>6. \A t \in Tasks : Predecessors(t) = <<>> /\ Promised(t) = <<>>
  <2>1. SubSeq(<<>>, 0 + 1, Len(<<>>)) = <<>> /\ <<>> \in Seq(Tasks) /\ Len(<<>>) = 0
    BY OnlyPredecessors, EmptySeq
  <2> QED BY <1>1, <2>1 DEF Predecessors, Promised
<1>7. ASSUME NEW CONSTANT t \in Tasks
      PROVE  /\ Finite(t) /\ ~Executing(t)
             /\ Futures(t) = 0 /\ Dependents(t) = 0 /\ Unlinkers(t) = 0 /\ Destroyers(t) = 0
             /\ Promises(t) = 0 /\ Reaches(t) = 0 /\ Cached(t) = 0 /\ InBody(t) = 0
  <2>1. \A c \in Clients : FutureOf(t)[c] = 0
    BY <1>1, <1>2 DEF FutureOf, Held
  <2>2. \A u \in Tasks : PredecessorsOf[u] = <<>> /\ PromisedOf[u] = <<>>
    BY <1>6 DEF PredecessorsOf, PromisedOf
  <2>3. \A x \in Threads : /\ UnlinksOf[x] = <<>> /\ PendingOf[x] = <<>> /\ ToReachOf[x] = <<>>
                           /\ StarterOf(t)[x] = 0 /\ CacheOf(t)[x] = 0 /\ BodyOf(t)[x] = 0
    BY <1>1, <1>2 DEF UnlinksOf, Unlinks, PendingOf, ToReachOf, ToReach, StarterOf, StartsFor,
                      CacheOf, Caches, BodyOf, Runs
  <2>4. /\ IsFiniteSet(Units(FutureOf(t), Clients)) /\ Cardinality(Units(FutureOf(t), Clients)) = 0
        /\ IsFiniteSet(Units(StarterOf(t), Threads))
        /\ IsFiniteSet(Units(CacheOf(t), Threads)) /\ Cardinality(Units(CacheOf(t), Threads)) = 0
        /\ IsFiniteSet(Units(BodyOf(t), Threads)) /\ Cardinality(Units(BodyOf(t), Threads)) = 0
    BY <2>1, <2>3, UnitsEmpty
  <2>5. /\ IsFiniteSet(Places(PredecessorsOf, Tasks, t)) /\ Cardinality(Places(PredecessorsOf, Tasks, t)) = 0
        /\ IsFiniteSet(Places(PromisedOf, Tasks, t)) /\ Cardinality(Places(PromisedOf, Tasks, t)) = 0
        /\ IsFiniteSet(Places(UnlinksOf, Threads, t)) /\ Cardinality(Places(UnlinksOf, Threads, t)) = 0
        /\ IsFiniteSet(Places(PendingOf, Threads, t)) /\ Cardinality(Places(PendingOf, Threads, t)) = 0
        /\ IsFiniteSet(Places(ToReachOf, Threads, t)) /\ Cardinality(Places(ToReachOf, Threads, t)) = 0
    BY <2>2, <2>3, PlacesEmpty
  <2>6. /\ Futures(t) = Cardinality(Units(FutureOf(t), Clients))
        /\ Dependents(t) = Cardinality(Places(PredecessorsOf, Tasks, t))
        /\ Unlinkers(t) = Cardinality(Places(UnlinksOf, Threads, t))
        /\ Destroyers(t) = Cardinality(Places(PendingOf, Threads, t))
        /\ Promises(t) = Cardinality(Places(PromisedOf, Tasks, t))
        /\ Reaches(t) = Cardinality(Places(ToReachOf, Threads, t))
        /\ Cached(t) = Cardinality(Units(CacheOf(t), Threads))
        /\ InBody(t) = Cardinality(Units(BodyOf(t), Threads))
    BY DEF Futures, Dependents, Unlinkers, Destroyers, Promises, Reaches, Cached, InBody,
           Total, Occurrences, FutureOf, PendingOf, CacheOf, BodyOf, Caches, Runs
  <2>7. ~Executing(t)
    BY <1>1, <1>2 DEF Executing
  <2> QED BY <2>4, <2>5, <2>6, <2>7 DEF Finite, RefsFinite, ArrivalsFinite, ScheduleFinite
<1>8. RefsCounted /\ ArrivalsCounted /\ ScheduledOnce
  BY <1>1, <1>7 DEF RefsCounted, ArrivalsCounted, ScheduledOnce
<1> QED BY <1>3, <1>4, <1>5, <1>7, <1>8 DEF AInv, Stages, Sums

\* Nothing changes.
LEMMA AsyncStutters ==
  ASSUME AInv, UNCHANGED vars
  PROVE  AInv'
<1>1. /\ TypeOK /\ Shapes /\ TaskStages /\ ClientsHold /\ LocksHeld /\ StartsOnce /\ EndsOnce
      /\ Linked /\ WaiterNotified /\ RefsCounted /\ ArrivalsCounted /\ ScheduledOnce
      /\ \A t \in Tasks : Finite(t)
  BY DEF AInv, Stages, Sums
<1>2. /\ UNCHANGED <<status, locked, refs, join, m_edges, m_num_successors, life, handles, queue, at, needs>>
      /\ UNCHANGED edgeVars
  BY DEF vars, control, edgeVars
<1>3. TypeOK'
  BY <1>1, <1>2 DEF TypeOK
<1>4. Shapes' /\ LocksHeld' /\ StartsOnce' /\ EndsOnce' /\ WaiterNotified'
  BY <1>1, <1>2 DEF Shapes, LocksHeld, StartsOnce, EndsOnce, WaiterNotified
<1>5. TaskStages'
  BY <1>1, <1>2, StagesFrame
<1>6. ClientsHold'
  BY <1>1, <1>2 DEF ClientsHold, ClientHolds
<1>7. Linked'
  <2>1. ASSUME NEW d \in Tasks PROVE Successors(d)' = Successors(d)
    BY <1>2 DEF Successors
  <2> SUFFICES ASSUME NEW s \in Tasks, status'[s] = "Running", NEW d \in needs'[s]
               PROVE  \/ status'[d] = "Finished"
                      \/ \E y \in Threads : Starting(at'[y], s) /\ d \in Range(at'[y].todo)
                      \/ Count(Successors(d)', s) >= 1
    BY DEF Linked, Count
  <2>2. d \in Tasks
    BY <1>1, <1>2 DEF TypeOK
  <2> QED BY <1>1, <1>2, <2>1, <2>2 DEF Linked
<1>8. ASSUME NEW CONSTANT t \in Tasks
      PROVE  /\ Finite(t)' /\ (Executing(t)' <=> Executing(t))
             /\ Futures(t)' = Futures(t) /\ Dependents(t)' = Dependents(t)
             /\ Unlinkers(t)' = Unlinkers(t) /\ Destroyers(t)' = Destroyers(t)
             /\ Starters(t)' = Starters(t) /\ Promises(t)' = Promises(t)
             /\ Reaches(t)' = Reaches(t) /\ Cached(t)' = Cached(t) /\ InBody(t)' = InBody(t)
  <2>1. /\ FutureOf(t)' = FutureOf(t) /\ PredecessorsOf' = PredecessorsOf
        /\ UnlinksOf' = UnlinksOf /\ PendingOf' = PendingOf /\ StarterOf(t)' = StarterOf(t)
        /\ PromisedOf' = PromisedOf /\ ToReachOf' = ToReachOf
        /\ CacheOf(t)' = CacheOf(t) /\ BodyOf(t)' = BodyOf(t)
    BY <1>2 DEF FutureOf, Held, PredecessorsOf, Predecessors, UnlinksOf, PendingOf, StarterOf,
                PromisedOf, Promised, Successors, ToReachOf, ToReach, CacheOf, BodyOf
  <2>2. RefsFinite(t)' <=> RefsFinite(t)
    BY <2>1 DEF RefsFinite, Units, Places, Family, Indices
  <2>3. ArrivalsFinite(t)' <=> ArrivalsFinite(t)
    BY <2>1 DEF ArrivalsFinite, Units, Places, Family, Indices
  <2>4. ScheduleFinite(t)' <=> ScheduleFinite(t)
    BY <2>1 DEF ScheduleFinite, Units, Family
  <2>5. Executing(t)' <=> Executing(t)
    BY <1>2 DEF Executing
  <2>6. Futures(t)' = Futures(t) /\ Destroyers(t)' = Destroyers(t)
    BY <1>2 DEF Futures, Destroyers, Held
  <2>7. Dependents(t)' = Dependents(t) /\ Unlinkers(t)' = Unlinkers(t)
    BY <2>1 DEF Dependents, Unlinkers
  <2>8. Starters(t)' = Starters(t) /\ Promises(t)' = Promises(t) /\ Reaches(t)' = Reaches(t)
    BY <2>1 DEF Starters, Promises, Reaches
  <2>9. Cached(t)' = Cached(t) /\ InBody(t)' = InBody(t)
    BY <1>2 DEF Cached, InBody
  <2> QED BY <1>1, <2>2, <2>3, <2>4, <2>5, <2>6, <2>7, <2>8, <2>9 DEF Finite
<1>9. RefsCounted' /\ ArrivalsCounted'
  BY <1>1, <1>2, <1>8 DEF RefsCounted, ArrivalsCounted
<1>10. ScheduledOnce'
  BY <1>1, <1>2, <1>8 DEF ScheduledOnce
<1> QED BY <1>3, <1>4, <1>5, <1>6, <1>7, <1>8, <1>9, <1>10 DEF AInv, Stages, Sums

\* Every step keeps the invariant.
LEMMA AsyncStep == AInv /\ [Next]_vars => AInv'
<1> SUFFICES ASSUME AInv, [Next]_vars PROVE AInv'
  OBVIOUS
<1>1. CASE UNCHANGED vars
  BY <1>1, AsyncStutters
<1>2. ASSUME NEW CONSTANT c \in Clients,
             \/ Defer(c) \/ DeferObject(c) \/ Copy(c) \/ Drop(c) \/ Wait(c) \/ Launch(c)
             \/ Start(c) \/ ClientRuns(c)
      PROVE  AInv'
  <2>1. CASE Defer(c) \/ DeferObject(c) \/ Copy(c)
    BY <2>1, MoreFuturesStep
  <2>2. CASE Drop(c)
    BY <2>2, DropStep
  <2>3. CASE Wait(c) \/ Start(c)
    BY <2>3, BeginStep
  <2>4. CASE Launch(c)
    BY <2>4, StartStep
  <2>5. CASE StartLock(c) \/ StartUnlock(c) \/ LinkLock(c)
    BY <2>5, LockStep
  <2>6. CASE StartPrepare(c)
    BY <2>6, StartStep
  <2>7. CASE LinkFinished(c)
    BY <2>7, LinkFinishedStep
  <2>8. CASE LinkAppend(c)
    BY <2>8, LinkAppendStep
  <2>9. CASE Submit(c)
    BY <2>9, SubmitStep
  <2> QED BY <1>2, <2>1, <2>2, <2>3, <2>4, <2>5, <2>6, <2>7, <2>8, <2>9 DEF ClientRuns
<1>3. ASSUME NEW CONSTANT w \in Workers, WorkerRuns(w) PROVE AInv'
  <2>1. CASE Take(w)
    BY <2>1, TakeStep
  <2>2. CASE Finish(w)
    BY <2>2, FinishStep
  <2>3. CASE NotifyAll(w)
    BY <2>3, NotifyAllStep
  <2>4. CASE ReachSuccessor(w)
    BY <2>4, ReachSuccessorStep
  <2>5. CASE ReleaseExecution(w)
    BY <2>5, ReleaseExecutionStep
  <2> QED BY <1>3, <2>1, <2>2, <2>3, <2>4, <2>5 DEF WorkerRuns
<1>4. ASSUME NEW CONSTANT x \in Threads, Destroys(x) PROVE AInv'
  BY <1>4, DestroyStep, ReleasePredecessorStep DEF Destroys
<1> QED BY <1>1, <1>2, <1>3, <1>4 DEF Next

\* AInv is an invariant of the asynchronous tasks.
LEMMA AsyncInvariant == Spec => []AInv
BY AsyncInit, AsyncStep, PTL DEF Spec

\* No task is freed while a future, a thread, a queue or another task can still
\* reach it (_destroy_async and the use count of topology.hpp).
THEOREM NobodyUsesFreedTasks == Spec => []NoUseAfterFree
<1>1. AInv => NoUseAfterFree
  BY RefersToLive
<1> QED BY <1>1, AsyncInvariant, PTL

\* The use count of a task is exact, and a task without references is being
\* destroyed by exactly one thread.
THEOREM UseCountsAreExact == Spec => []RefsExact
<1>1. AInv => RefsExact
  BY CountsAreExact
<1> QED BY <1>1, AsyncInvariant, PTL

\* The join counter of a started task is exact, and a task that expects nothing
\* more is in one queue, in one cache or running.
THEOREM JoinCountersAreExact == Spec => []ArrivalsExact
<1>1. AInv => ArrivalsExact
  BY CountsAreExact
<1> QED BY <1>1, AsyncInvariant, PTL

\* Nobody sleeps through the end of the task that he waits for.
THEOREM WaitersAreNotified == Spec => []WaiterNotified
<1>1. AInv => WaiterNotified
  BY DEF AInv
<1> QED BY <1>1, AsyncInvariant, PTL

-----------------------------------------------------------------------------
(* Tasks run once, after all they depend on.                               *)

Bodies == [t \in Tasks |-> InBody(t)]

\* A task that expects nothing more depends on finished tasks only.
LEMMA ReadyAfterNeeds ==
  ASSUME AInv, NEW CONSTANT t \in Tasks, queue[t] + Cached(t) >= 1
  PROVE  /\ status[t] = "Running" /\ InBody(t) = 0
         /\ \A d \in needs[t] : status[d] = "Finished"
<1>1. /\ TypeOK /\ TaskStages /\ Linked
      /\ queue[t] \in Nat /\ Cached(t) \in Nat /\ InBody(t) \in Nat
  BY Scheduled DEF AInv, Stages
<1>2. queue[t] + Cached(t) + InBody(t) >= 1
  BY <1>1
<1>3. /\ queue[t] + Cached(t) + InBody(t) = 1 /\ status[t] = "Running" /\ join[t] = 0
      /\ \A x \in Threads : ~Starting(at[x], t)
  BY <1>2, Scheduled
<1>4. InBody(t) = 0
  BY <1>1, <1>3
<1>5. ASSUME NEW d \in needs[t] PROVE status[d] = "Finished"
  <2>1. d \in Tasks /\ status[d] # "Idle" /\ status[d] \in {"Idle", "Running", "Finished"}
    BY <1>1 DEF TypeOK, TaskStages
  <2>2. status[d] = "Finished" \/ Count(Successors(d), t) >= 1
    BY <1>1, <1>3 DEF Linked
  <2>3. ASSUME status[d] = "Running" PROVE FALSE
    <3>1. Count(Promised(d), t) >= 1
      BY <2>2, <2>3 DEF Promised
    <3>2. join[t] >= 1
      BY <2>1, <3>1, Awaited
    <3> QED BY <1>3, <3>2
  <2> QED BY <2>1, <2>3
<1> QED BY <1>3, <1>4, <1>5

\* A step of one thread that is not in a body, before or after.
LEMMA NoBodyStep ==
  ASSUME AInv, NEW CONSTANT x \in Threads, Others(x), at[x].pc # "body", at'[x].pc # "body"
  PROVE  Bodies' = Bodies
<1>1. ASSUME NEW CONSTANT s \in Tasks PROVE InBody(s)' = InBody(s)
  <2>1. InBody(s)' = InBody(s) - Runs(at[x], s) + Runs(at'[x], s)
    BY ScheduleBalance
  <2>2. InBody(s) \in Nat /\ Runs(at[x], s) = 0 /\ Runs(at'[x], s) = 0
    BY Scheduled DEF Runs
  <2> QED BY <2>1, <2>2
<1>2. \A s \in Tasks : InBody(s)' = InBody(s)
  BY <1>1
<1>3. Bodies' = [s \in Tasks |-> InBody(s)']
  BY DEF Bodies
<1> QED BY <1>2, <1>3 DEF Bodies

\* A thread enters the body of a task.
LEMMA BodyBegins ==
  ASSUME AInv, NEW CONSTANT x \in Threads, NEW CONSTANT t \in Tasks, Others(x), at[x].pc # "body",
         at'[x].pc = "body", at'[x].task = t, queue[t] + Cached(t) >= 1, UNCHANGED <<status, needs>>
  PROVE  Dependent!Begin(t)
<1>1. /\ status[t] = "Running" /\ InBody(t) = 0
      /\ \A d \in needs[t] : status[d] = "Finished"
  BY ReadyAfterNeeds
<1>2. ASSUME NEW CONSTANT s \in Tasks PROVE InBody(s)' = IF s = t THEN 1 ELSE InBody(s)
  <2>1. InBody(s)' = InBody(s) - Runs(at[x], s) + Runs(at'[x], s)
    BY ScheduleBalance
  <2>2. InBody(s) \in Nat /\ Runs(at[x], s) = 0 /\ Runs(at'[x], s) = IF s = t THEN 1 ELSE 0
    BY Scheduled DEF Runs
  <2> QED BY <1>1, <2>1, <2>2
<1>3. Bodies' = [s \in Tasks |-> InBody(s)'] /\ Bodies[t] = 0
  BY <1>1 DEF Bodies
<1>4. \A s \in Tasks : InBody(s)' = IF s = t THEN 1 ELSE InBody(s)
  BY <1>2
<1>5. Bodies' = [Bodies EXCEPT ![t] = 1]
  BY <1>3, <1>4 DEF Bodies
<1> QED BY <1>1, <1>3, <1>5 DEF Dependent!Begin, Bodies

\* A thread returns from a tear-down to the task in its cache, or goes on.
LEMMA DestroyingBegins ==
  ASSUME AInv, NEW CONSTANT x \in Threads, NEW todo \in Seq(Tasks), NEW pending \in Seq(Tasks),
         Destroying(x, todo, pending), at[x].pc # "body", UNCHANGED <<status, needs>>
  PROVE  (\E t \in Tasks : Dependent!Begin(t)) \/ Bodies' = Bodies
<1>1. /\ Others(x) /\ Shape(at'[x])
      /\ \A t \in Tasks : Caches(at'[x], t) + Runs(at'[x], t) = Caches(at[x], t)
  BY DestroyingDoes
<1>2. CASE at'[x].pc = "body"
  <2>1. SUFFICES ASSUME NEW CONSTANT t \in Tasks, t = at'[x].task
                 PROVE  \E s \in Tasks : Dependent!Begin(s)
    BY <1>1, <1>2 DEF Shape
  <2>2. Caches(at[x], t) >= 1
    <3>1. Runs(at'[x], t) = 1 /\ Caches(at'[x], t) \in Nat
      BY <1>2, <2>1 DEF Runs, Caches
    <3> QED BY <1>1, <3>1
  <2>3. at[x].cache = t
    BY <2>2 DEF Caches
  <2>4. queue[t] + Cached(t) >= 1
    <3>1. Cached(t) >= 1 /\ Cached(t) \in Nat /\ queue[t] \in Nat
      BY <2>3, Scheduled
    <3> QED BY <3>1
  <2>5. Dependent!Begin(t)
    BY <1>1, <1>2, <2>1, <2>4, BodyBegins
  <2> QED BY <2>5
<1>3. CASE at'[x].pc # "body"
  BY <1>1, <1>3, NoBodyStep
<1> QED BY <1>2, <1>3

\* A client starts a task.
LEMMA StartSimulates ==
  ASSUME AInv, NEW CONSTANT c \in Clients, NEW CONSTANT t \in Tasks, NEW CONSTANT D \in Seq(Tasks),
         StartedBy(c, t, D)
  PROVE  Dependent!Start(t)
<1>1. /\ status[t] = "Idle" /\ Others(c) /\ at[c].pc \in {"idle", "prepare"}
      /\ at'[c].pc \in {"unlock", "link"}
      /\ Range(D) \subseteq handles[c] \ {t} /\ \A d \in Range(D) : status[d] # "Idle"
      /\ status' = [status EXCEPT ![t] = "Running"] /\ needs' = [needs EXCEPT ![t] = Range(D)]
  BY DEF StartedBy
<1>2. Bodies' = Bodies
  <2>1. c \in Threads
    BY DEF Threads
  <2> QED BY <1>1, <2>1, NoBodyStep
<1>3. Range(D) \in SUBSET (Tasks \ {t})
  BY <1>1, RangeOfSeq
<1> QED BY <1>1, <1>2, <1>3 DEF Dependent!Start, Bodies

\* A step of a client.
LEMMA ClientSimulates ==
  ASSUME AInv, AInv', NEW CONSTANT c \in Clients,
         \/ Defer(c) \/ DeferObject(c) \/ Copy(c) \/ Drop(c) \/ Wait(c) \/ Launch(c)
         \/ Start(c) \/ ClientRuns(c)
  PROVE  Dependent!DTNext \/ UNCHANGED Dependent!dtVars
<1>1. /\ TypeOK /\ c \in Threads /\ at[c].pc # "body" /\ at'[c].pc # "body"
      /\ at \in [Threads -> ThreadStates]
  BY DEF AInv, Stages, Shapes, Threads, TypeOK
<1>2. CASE StartPrepare(c) \/ Launch(c)
  <2>1. \E t \in Tasks : \E D \in Seq(Tasks) : StartedBy(c, t, D)
    BY <1>2, PreparesStart, LaunchesStart
  <2>2. SUFFICES ASSUME NEW CONSTANT t \in Tasks, NEW CONSTANT D \in Seq(Tasks), StartedBy(c, t, D)
                 PROVE  Dependent!DTNext
    BY <2>1
  <2>3. Dependent!Start(t)
    BY <2>2, StartSimulates
  <2> QED BY <2>3 DEF Dependent!DTNext
<1>3. CASE ~(StartPrepare(c) \/ Launch(c))
  <2>1. UNCHANGED <<status, needs>>
    BY <1>3 DEF Defer, DeferObject, GetDeferred, Copy, Drop, Wait, Start, ClientRuns, StartLock,
                StartUnlock, LinkFinished, LinkLock, LinkAppend, Submit, control
  <2>2. Others(c)
    <3>1. CASE Defer(c) \/ DeferObject(c) \/ Copy(c)
      BY <3>1 DEF Defer, DeferObject, GetDeferred, Copy, Others
    <3>2. CASE Drop(c)
      BY <1>1, <3>2 DEF Drop, Release, Destroying, Others, TypeOK
    <3>3. CASE Wait(c) \/ Start(c)
      BY <1>1, <3>3 DEF Wait, Start, Others, TypeOK
    <3>4. CASE StartLock(c) \/ StartUnlock(c) \/ LinkLock(c)
      BY <1>1, <3>4 DEF StartLock, StartUnlock, LinkLock, Goto, Others, TypeOK
    <3>5. CASE LinkFinished(c) \/ LinkAppend(c)
      BY <1>1, <3>5 DEF LinkFinished, LinkAppend, NextPredecessor, Others, TypeOK
    <3>6. CASE Submit(c)
      BY <1>1, <3>6 DEF Submit, Others, TypeOK
    <3> QED BY <1>3, <3>1, <3>2, <3>3, <3>4, <3>5, <3>6 DEF ClientRuns
  <2>3. Bodies' = Bodies
    BY <1>1, <2>2, NoBodyStep
  <2> QED BY <2>1, <2>3 DEF Dependent!dtVars, Bodies
<1> QED BY <1>2, <1>3

\* A step of a worker.
LEMMA WorkerSimulates ==
  ASSUME AInv, NEW CONSTANT w \in Workers, WorkerRuns(w)
  PROVE  Dependent!DTNext \/ UNCHANGED Dependent!dtVars
<1>1. /\ TypeOK /\ Shapes /\ w \in Threads /\ at \in [Threads -> ThreadStates]
      /\ at[w] \in ThreadStates /\ w \notin Clients /\ Clients \subseteq Threads
  BY AsyncAssumption DEF AInv, Stages, Threads, TypeOK
<1>2. CASE Take(w)
  <2>1. /\ UNCHANGED <<status, needs>> /\ at[w].pc = "idle"
        /\ \E t \in Tasks : queue[t] > 0 /\ at' = [at EXCEPT ![w] = Resumed(t)]
    BY <1>2 DEF Take, control
  <2>2. SUFFICES ASSUME NEW CONSTANT t \in Tasks, queue[t] > 0, at' = [at EXCEPT ![w] = Resumed(t)]
                 PROVE  Dependent!DTNext
    BY <2>1
  <2>3. Resumed(t).pc = "body" /\ Resumed(t).task = t
    BY <2>2, AsyncAssumption DEF Resumed, Idle
  <2>4. at'[w].pc = "body" /\ at'[w].task = t /\ Others(w)
    BY <1>1, <2>2, <2>3 DEF Others
  <2>5. queue[t] + Cached(t) >= 1
    <3>1. queue[t] \in Nat /\ Cached(t) \in Nat
      BY Scheduled
    <3> QED BY <2>2, <3>1
  <2>6. Dependent!Begin(t)
    BY <1>1, <2>1, <2>4, <2>5, BodyBegins
  <2> QED BY <2>6 DEF Dependent!DTNext
<1>3. CASE Finish(w)
  <2>1. SUFFICES ASSUME NEW CONSTANT t \in Tasks, t = at[w].task PROVE Dependent!DTNext
    BY <1>1, <1>3 DEF Finish, Goto, Shapes, Shape
  <2>2. /\ at[w].pc = "body" /\ at' = [at EXCEPT ![w].pc = "notify"]
        /\ status' = [status EXCEPT ![t] = "Finished"] /\ UNCHANGED needs
    BY <1>3, <2>1 DEF Finish, Goto
  <2>3. at'[w].pc = "notify" /\ Others(w)
    BY <1>1, <2>2 DEF Others, ThreadStates
  <2>4. status[t] = "Running" /\ InBody(t) = 1
    <3>1. /\ queue[t] \in Nat /\ Cached(t) \in Nat /\ InBody(t) \in Nat /\ InBody(t) >= 1
      BY <1>1, <2>1, <2>2, Scheduled
    <3>2. queue[t] + Cached(t) + InBody(t) >= 1
      BY <3>1
    <3>3. queue[t] + Cached(t) + InBody(t) = 1 /\ status[t] = "Running"
      BY <3>2, Scheduled
    <3> QED BY <3>1, <3>3
  <2>5. ASSUME NEW CONSTANT s \in Tasks PROVE InBody(s)' = IF s = t THEN 0 ELSE InBody(s)
    <3>1. InBody(s)' = InBody(s) - Runs(at[w], s) + Runs(at'[w], s)
      BY <1>1, <2>3, ScheduleBalance
    <3>2. InBody(s) \in Nat /\ Runs(at'[w], s) = 0 /\ Runs(at[w], s) = IF s = t THEN 1 ELSE 0
      BY <2>1, <2>2, <2>3, Scheduled DEF Runs
    <3> QED BY <2>4, <3>1, <3>2
  <2>6. Bodies' = [Bodies EXCEPT ![t] = 0] /\ Bodies[t] = 1
    <3>1. Bodies' = [s \in Tasks |-> InBody(s)'] /\ Bodies[t] = 1
      BY <2>4 DEF Bodies
    <3>2. \A s \in Tasks : InBody(s)' = IF s = t THEN 0 ELSE InBody(s)
      BY <2>5
    <3> QED BY <3>1, <3>2 DEF Bodies
  <2>7. Dependent!End(t)
    BY <2>2, <2>4, <2>6 DEF Dependent!End, Bodies
  <2> QED BY <2>7 DEF Dependent!DTNext
<1>4. CASE NotifyAll(w)
  <2>1. /\ UNCHANGED <<status, needs>> /\ at[w].pc = "notify"
        /\ at' = [x \in Threads |->
                    IF x = w THEN [at[w] EXCEPT !.pc = "successors", !.next = 1]
                    ELSE IF x \in {c \in Clients : at[c].pc = "blocked" /\ at[c].task = at[w].task}
                         THEN Idle ELSE at[x]]
    BY <1>4 DEF NotifyAll, control
  <2>2. ASSUME NEW CONSTANT s \in Tasks, NEW x \in Threads PROVE Runs(at'[x], s) = Runs(at[x], s)
    <3>1. CASE x = w
      <4>1. at'[w].pc = "successors"
        BY <1>1, <2>1 DEF ThreadStates
      <4> QED BY <2>1, <3>1, <4>1 DEF Runs
    <3>2. CASE x # w
      BY <2>1, <3>2 DEF Runs, Idle
    <3> QED BY <3>1, <3>2
  <2>3. ASSUME NEW CONSTANT s \in Tasks PROVE InBody(s)' = InBody(s)
    <3> DEFINE f == BodyOf(s)
               h == BodyOf(s)'
    <3>1. \A x \in Threads : h[x] = f[x]
      BY <2>2 DEF BodyOf
    <3>2. InBody(s) = Cardinality(Units(f, Threads)) /\ InBody(s)' = Cardinality(Units(h, Threads))
      BY DEF InBody, Total, BodyOf, Runs, Units
    <3> HIDE DEF f, h
    <3> QED BY <3>1, <3>2, UnitsSame
  <2>4. Bodies' = Bodies
    <3>1. \A s \in Tasks : InBody(s)' = InBody(s)
      BY <2>3
    <3>2. Bodies' = [s \in Tasks |-> InBody(s)']
      BY DEF Bodies
    <3> QED BY <3>1, <3>2 DEF Bodies
  <2> QED BY <2>1, <2>4 DEF Dependent!dtVars, Bodies
<1>5. CASE ReachSuccessor(w)
  <2>1. /\ UNCHANGED <<status, needs>> /\ at[w].pc = "successors"
    BY <1>5 DEF ReachSuccessor, control
  <2>2. at'[w].pc = "successors" /\ Others(w)
    BY <1>1, <1>5, <2>1 DEF ReachSuccessor, Others, ThreadStates
  <2>3. Bodies' = Bodies
    BY <1>1, <2>1, <2>2, NoBodyStep
  <2> QED BY <2>1, <2>3 DEF Dependent!dtVars, Bodies
<1>6. CASE ReleaseExecution(w)
  <2>1. SUFFICES ASSUME NEW CONSTANT t \in Tasks, t = at[w].task
                 PROVE  Dependent!DTNext \/ UNCHANGED Dependent!dtVars
    BY <1>1, <1>6 DEF ReleaseExecution, Shapes, Shape
  <2> DEFINE pending == IF refs[t] = 1 THEN <<t>> ELSE <<>>
  <2>2. /\ UNCHANGED <<status, needs>> /\ at[w].pc = "successors"
        /\ Destroying(w, <<>>, pending) /\ pending \in Seq(Tasks) /\ <<>> \in Seq(Tasks)
    BY <1>6, <2>1, EmptySeq DEF ReleaseExecution, Release
  <2>3. (\E s \in Tasks : Dependent!Begin(s)) \/ Bodies' = Bodies
    <3> HIDE DEF pending
    <3> QED BY <1>1, <2>2, DestroyingBegins
  <2> QED BY <2>2, <2>3 DEF Dependent!DTNext, Dependent!dtVars, Bodies
<1> QED BY <1>2, <1>3, <1>4, <1>5, <1>6 DEF WorkerRuns

\* A step of a thread that destroys tasks.
LEMMA DestroyerSimulates ==
  ASSUME AInv, NEW CONSTANT x \in Threads, Destroys(x)
  PROVE  Dependent!DTNext \/ UNCHANGED Dependent!dtVars
<1>1. /\ TypeOK /\ Shapes /\ EndsOnce /\ Shape(at[x])
      /\ at[x].todo \in Seq(Tasks) /\ at[x].pending \in Seq(Tasks)
  BY DEF AInv, Stages, Shapes, TypeOK, ThreadStates
<1>2. \E todo \in Seq(Tasks) : \E pending \in Seq(Tasks) : Destroying(x, todo, pending)
  <2>1. CASE Destroy(x)
    <3>1. at[x].pending # <<>>
      BY <1>1, <2>1 DEF Destroy, Shape
    <3>2. Head(at[x].pending) \in Tasks /\ Tail(at[x].pending) \in Seq(Tasks)
      BY <1>1, <3>1, HeadTailProperties
    <3>3. Predecessors(Head(at[x].pending)) \in Seq(Tasks)
      BY <1>1, <3>2, EdgesType
    <3> QED BY <2>1, <3>2, <3>3 DEF Destroy
  <2>2. CASE ReleasePredecessor(x)
    <3>1. at[x].todo # <<>>
      BY <1>1, <2>2 DEF ReleasePredecessor, Shape
    <3>2. Front(at[x].todo) \in Seq(Tasks) /\ Last(at[x].todo) \in Tasks
      <4>1. /\ Front(at[x].todo) = SubSeq(at[x].todo, 1, Len(at[x].todo) - 1)
            /\ Last(at[x].todo) = at[x].todo[Len(at[x].todo)]
        BY DEF Front, Last
      <4> QED BY <1>1, <3>1, <4>1, IndicesOfFront
    <3>3. <<Last(at[x].todo)>> \o at[x].pending \in Seq(Tasks)
      BY <1>1, <3>2, RangeOfCons
    <3> DEFINE pending == IF refs[Last(at[x].todo)] = 1 THEN <<Last(at[x].todo)>> \o at[x].pending
                          ELSE at[x].pending
    <3>4. pending \in Seq(Tasks) /\ Destroying(x, Front(at[x].todo), pending)
      BY <1>1, <2>2, <3>3 DEF ReleasePredecessor
    <3> HIDE DEF pending
    <3> QED BY <3>2, <3>4
  <2> QED BY <2>1, <2>2 DEF Destroys
<1>3. UNCHANGED <<status, needs>> /\ at[x].pc # "body"
  BY DEF Destroys, Destroy, ReleasePredecessor, control
<1>4. (\E s \in Tasks : Dependent!Begin(s)) \/ Bodies' = Bodies
  BY <1>2, <1>3, DestroyingBegins
<1> QED BY <1>3, <1>4 DEF Dependent!DTNext, Dependent!dtVars, Bodies

\* Whether a predecessor finishes before, during or after the registration, a
\* task is started once and runs once, after all it depends on (AsyncTask::start,
\* _link_predecessors, _tear_down_async_task).
THEOREM TasksImplementDependentTasks == Spec => ImplementsDependentTasks
<1>1. Init => Dependent!DTInit
  <2> SUFFICES ASSUME Init PROVE Dependent!DTInit
    OBVIOUS
  <2>1. \A t \in Tasks : InBody(t) = 0
    <3> SUFFICES ASSUME NEW CONSTANT t \in Tasks PROVE InBody(t) = 0
      OBVIOUS
    <3> DEFINE f == BodyOf(t)
    <3>1. \A x \in Threads : f[x] = 0
      BY DEF BodyOf, Runs, Init, Idle
    <3>2. InBody(t) = Cardinality(Units(f, Threads))
      BY DEF InBody, Total, BodyOf, Runs
    <3> HIDE DEF f
    <3> QED BY <3>1, <3>2, UnitsEmpty
  <2> QED BY <2>1 DEF Init, Dependent!DTInit
<1>2. AInv /\ AInv' /\ [Next]_vars => [Dependent!DTNext]_(Dependent!dtVars)
  <2> SUFFICES ASSUME AInv, AInv', [Next]_vars
               PROVE  Dependent!DTNext \/ UNCHANGED Dependent!dtVars
    OBVIOUS
  <2>1. CASE UNCHANGED vars
    <3>1. UNCHANGED <<status, needs>> /\ at' = at
      BY <2>1 DEF vars, control
    <3>2. Bodies' = Bodies
      BY <3>1 DEF Bodies, InBody
    <3> QED BY <3>1, <3>2 DEF Dependent!dtVars, Bodies
  <2>2. ASSUME NEW CONSTANT c \in Clients,
               \/ Defer(c) \/ DeferObject(c) \/ Copy(c) \/ Drop(c) \/ Wait(c) \/ Launch(c)
               \/ Start(c) \/ ClientRuns(c)
        PROVE  Dependent!DTNext \/ UNCHANGED Dependent!dtVars
    BY <2>2, ClientSimulates
  <2> QED BY <2>1, <2>2, WorkerSimulates, DestroyerSimulates DEF Next
<1> QED BY <1>1, <1>2, AsyncInvariant, PTL DEF Spec, ImplementsDependentTasks, Dependent!DTSpec
===============================================================================
