------------------------------ MODULE Semaphores ------------------------------
(***************************************************************************)
(* Semaphores: the acquisition of several under all their locks, the       *)
(* chains of waiting Works, the release and rescheduling, reset            *)
(* (src/taskflowlite/core/semaphore.hpp, work.hpp, executor.hpp, and the   *)
(* macros of work_invokers.hpp that invoke uses).                          *)
(*                                                                         *)
(* A semaphore is its address; addresses give the order of locking.  The   *)
(* requests of a Work are a function from the semaphores it names to the   *)
(* quota it wants.  A chain through m_next is a sequence.  That a Work in  *)
(* the executor's queues is taken by some worker is what Scheduler shows.  *)
(***************************************************************************)
EXTENDS Counting, FiniteSetsExt, SequencesExt

CONSTANTS
  Semaphores,   \* a set of integers
  Works,
  Workers,
  Nil,
  Settings,     \* [max, value, acquires, releases] to begin with
  Capacities,   \* what reset may be given
  MaxRounds     \* bound: rounds of the graph

\* A Work has one request of a semaphore, or none: one of zero is ignored.
AreRequests(r) ==
  /\ DOMAIN r = Works
  /\ \A t \in Works : DOMAIN r[t] \subseteq Semaphores /\ r[t] \in [DOMAIN r[t] -> Nat]

ASSUME SemaphoreAssumption ==
  /\ Semaphores \subseteq Int
  /\ Nil \notin Semaphores /\ Nil \notin Works /\ Nil \notin Workers
  /\ \A s \in Settings :
       /\ {s.max, s.value} \subseteq [Semaphores -> Nat]
       /\ AreRequests(s.acquires) /\ AreRequests(s.releases)
  /\ Capacities \subseteq Nat /\ MaxRounds \in Nat

VARIABLES
  acquires, releases,     \* the requests of each Work
  m_max_value, m_value,
  granted,                \* history: m_value when it was last set
  m_lock,                 \* the worker that holds each semaphore's lock
  waiters,                \* m_waiter_head ... m_waiter_tail
  queue,                  \* how often a Work is in the executor's queues
  stopped,                \* the stop request
  active,                 \* Works that have not ended
  rounds,                 \* rounds begun
  at                      \* what each worker does

requests == <<acquires, releases>>
quota == <<m_max_value, m_value, granted>>
progress == <<active, rounds>>
vars == <<requests, quota, m_lock, waiters, queue, stopped, progress, at>>

Idle == [pc |-> "idle", work |-> Nil, sems |-> {}, blocker |-> Nil, chain |-> <<>>]

\* With an initial value the smaller of it and the maximum counts.
Init ==
  /\ \E s \in Settings :
       /\ acquires = s.acquires
       /\ releases = s.releases
       /\ m_max_value = s.max
       /\ m_value = [sem \in Semaphores |-> Min({s.value[sem], s.max[sem]})]
       /\ granted = m_value
  /\ m_lock = [sem \in Semaphores |-> Nil]
  /\ waiters = [sem \in Semaphores |-> <<>>]
  /\ queue = [t \in Works |-> 0]
  /\ stopped = FALSE
  /\ active = {}
  /\ rounds = 0
  /\ at = [w \in Workers |-> Idle]

Asked(t) == DOMAIN acquires[t]

\* Every Work returns what it took.
Balanced == releases = acquires

-----------------------------------------------------------------------------
(* The program.                                                            *)

\* A round of a graph: all Works are ready at once.
Launch ==
  /\ active = {} /\ ~stopped /\ rounds < MaxRounds
  /\ active' = Works
  /\ rounds' = rounds + 1
  /\ queue' = [t \in Works |-> 1]
  /\ UNCHANGED <<requests, quota, m_lock, waiters, stopped, at>>

RequestStop ==
  /\ stopped' = TRUE
  /\ UNCHANGED <<requests, quota, m_lock, waiters, queue, progress, at>>

\* Quota that the Work of each worker has taken and has not yet begun to return.
Taken(sem) ==
  [w \in Workers |->
     IF /\ at[w].work # Nil /\ sem \in Asked(at[w].work)
        /\ \/ at[w].pc = "unlock" /\ at[w].blocker = Nil
           \/ at[w].pc = "body"
           \/ at[w].pc = "release" /\ sem \in at[w].sems
     THEN acquires[at[w].work][sem] ELSE 0]

InUse(sem) == Total(Taken(sem), Workers)

\* reset(max): not while a Work waits.  The caller sees to it that nobody has
\* quota, or is to give some.
Reset(sem) ==
  /\ Balanced /\ InUse(sem) = 0
  /\ m_lock[sem] = Nil /\ waiters[sem] = <<>>
  /\ \E max \in Capacities :
       /\ m_max_value' = [m_max_value EXCEPT ![sem] = max]
       /\ m_value' = [m_value EXCEPT ![sem] = max]
       /\ granted' = [granted EXCEPT ![sem] = max]
  /\ UNCHANGED <<requests, m_lock, waiters, queue, stopped, progress, at>>

-----------------------------------------------------------------------------
(* A Work is invoked.                                                      *)

\* After a stop request it ends before it asks for anything.
Skip(w) ==
  /\ at[w].pc = "idle" /\ stopped
  /\ \E t \in Works :
       /\ queue[t] > 0
       /\ queue' = [queue EXCEPT ![t] = @ - 1]
       /\ active' = active \ {t}
  /\ UNCHANGED <<requests, quota, m_lock, waiters, stopped, rounds, at>>

Take(w) ==
  /\ at[w].pc = "idle" /\ ~stopped
  /\ \E t \in Works :
       /\ queue[t] > 0
       /\ queue' = [queue EXCEPT ![t] = @ - 1]
       /\ at' = [at EXCEPT ![w].pc = IF Asked(t) = {} THEN "body" ELSE "lock", ![w].work = t]
  /\ UNCHANGED <<requests, quota, m_lock, waiters, stopped, progress>>

\* Mutant: the locks are taken in the order of the calls, not of the addresses.
LockAny(w) ==
  /\ at[w].pc = "lock"
  /\ \E sem \in Asked(at[w].work) \ at[w].sems :
       /\ m_lock[sem] = Nil
       /\ m_lock' = [m_lock EXCEPT ![sem] = w]
       /\ at' = [at EXCEPT ![w].sems = @ \cup {sem}]
  /\ UNCHANGED <<requests, quota, waiters, queue, stopped, progress>>

\* SemaphoreLock: lock all semaphores asked of, by ascending address.
LockNext(w) ==
  LET left == Asked(at[w].work) \ at[w].sems IN
  /\ at[w].pc = "lock"
  /\ \E sem \in left :
       /\ \A s \in left : sem <= s
       /\ m_lock[sem] = Nil
       /\ m_lock' = [m_lock EXCEPT ![sem] = w]
       /\ at' = [at EXCEPT ![w].sems = @ \cup {sem}]
  /\ UNCHANGED <<requests, quota, waiters, queue, stopped, progress>>

\* Semaphores that have less than the Work asks for.
Short(t) == {sem \in Asked(t) : m_value[sem] < acquires[t][sem]}

\* The Work joins the chain of the first semaphore that is short.
WaitAt(w, t) ==
  \E sem \in Short(t) :
    /\ \A s \in Short(t) : sem <= s
    /\ waiters' = [waiters EXCEPT ![sem] = Append(@, t)]
    /\ at' = [at EXCEPT ![w].pc = "unlock", ![w].blocker = sem]

\* Mutant: what there is is taken before the first that is short.
TryAcquirePartly(w) ==
  LET t == at[w].work IN
  /\ at[w].pc = "lock" /\ at[w].sems = Asked(t)
  /\ m_value' = [sem \in Semaphores |->
                   IF sem \in Asked(t) /\ \A s \in Short(t) : sem < s
                   THEN m_value[sem] - acquires[t][sem] ELSE m_value[sem]]
  /\ \/ /\ Short(t) = {}
        /\ at' = [at EXCEPT ![w].pc = "unlock"]
        /\ UNCHANGED waiters
     \/ WaitAt(w, t)
  /\ UNCHANGED <<requests, m_max_value, granted, m_lock, queue, stopped, progress>>

\* _try_acquire_semaphores: with all of them locked take everything, or
\* nothing and wait.
TryAcquire(w) ==
  LET t == at[w].work IN
  /\ at[w].pc = "lock" /\ at[w].sems = Asked(t)
  /\ \/ /\ Short(t) = {}
        /\ m_value' = [sem \in Semaphores |->
                         IF sem \in Asked(t) THEN m_value[sem] - acquires[t][sem] ELSE m_value[sem]]
        /\ at' = [at EXCEPT ![w].pc = "unlock"]
        /\ UNCHANGED waiters
     \/ /\ WaitAt(w, t)
        /\ UNCHANGED m_value
  /\ UNCHANGED <<requests, m_max_value, granted, m_lock, queue, stopped, progress>>

\* Mutant: the locks are released in reverse order, whichever is the blocker.
UnlocksReverse(w, sem) ==
  sem \in at[w].sems /\ \A s \in at[w].sems : s <= sem

\* The locks are released in reverse order, the one of the semaphore at which
\* the Work waits last: until then nobody else can run it.
Unlocks(w, sem) ==
  LET others == at[w].sems \ {at[w].blocker} IN
  \/ sem \in others /\ \A s \in others : s <= sem
  \/ others = {} /\ sem = at[w].blocker

\* A Work that waits keeps its slot: invoke returns without a tear-down.
Unlock(w) ==
  /\ at[w].pc = "unlock"
  /\ \E sem \in Semaphores :
       /\ Unlocks(w, sem)
       /\ m_lock' = [m_lock EXCEPT ![sem] = Nil]
       /\ at' = [at EXCEPT ![w] =
                   IF at[w].sems # {sem} THEN [at[w] EXCEPT !.sems = @ \ {sem}]
                   ELSE IF at[w].blocker = Nil THEN [Idle EXCEPT !.pc = "body", !.work = at[w].work]
                   ELSE Idle]
  /\ UNCHANGED <<requests, quota, waiters, queue, stopped, progress>>

\* The body has returned or thrown.
EndBody(w) ==
  /\ at[w].pc = "body"
  /\ at' = [at EXCEPT ![w].pc = "release", ![w].sems = DOMAIN releases[at[w].work]]
  /\ UNCHANGED <<requests, quota, m_lock, waiters, queue, stopped, progress>>

\* Mutant: one waiter is let go for each release.
LetGoFirst(chain) == SubSeq(chain, 1, Min({1, Len(chain)}))

\* Of a chain all waiters are let go.
LetGo(chain) == chain

\* Semaphore::_release: return quota and take the waiters over.
Release(w) ==
  /\ at[w].pc = "release"
  /\ \E sem \in at[w].sems :
       /\ m_lock[sem] = Nil
       /\ m_value' = [m_value EXCEPT ![sem] = @ + releases[at[w].work][sem]]
       /\ waiters' = [waiters EXCEPT ![sem] = SubSeq(@, Len(LetGo(@)) + 1, Len(@))]
       /\ at' = [at EXCEPT ![w].sems = @ \ {sem},
                           ![w].chain = @ \o LetGo(waiters[sem])]
  /\ UNCHANGED <<requests, m_max_value, granted, m_lock, queue, stopped, progress>>

\* _schedule_from_semaphore: they have to ask again for all they want.
Reschedule(w) ==
  /\ at[w].pc = "release" /\ at[w].sems = {} /\ at[w].chain # <<>>
  /\ queue' = [queue EXCEPT ![Head(at[w].chain)] = @ + 1]
  /\ at' = [at EXCEPT ![w].chain = Tail(@)]
  /\ UNCHANGED <<requests, quota, m_lock, waiters, stopped, progress>>

Finish(w) ==
  /\ at[w].pc = "release" /\ at[w].sems = {} /\ at[w].chain = <<>>
  /\ active' = active \ {at[w].work}
  /\ at' = [at EXCEPT ![w] = Idle]
  /\ UNCHANGED <<requests, quota, m_lock, waiters, queue, stopped, rounds>>

-----------------------------------------------------------------------------
Runs(w) ==
  \/ Skip(w) \/ Take(w) \/ LockNext(w) \/ TryAcquire(w) \/ Unlock(w)
  \/ EndBody(w) \/ Release(w) \/ Reschedule(w) \/ Finish(w)

Next ==
  \/ Launch
  \/ RequestStop
  \/ \E sem \in Semaphores : Reset(sem)
  \/ \E w \in Workers : Runs(w)

Spec == Init /\ [][Next]_vars

\* A worker that has something to do does it, and bodies return.
FairSpec == Spec /\ \A w \in Workers : WF_vars(Runs(w))

-----------------------------------------------------------------------------
(* Properties.                                                             *)

TypeOK ==
  /\ m_max_value \in [Semaphores -> Nat] /\ m_value \in [Semaphores -> Nat]
  /\ m_lock \in [Semaphores -> Workers \cup {Nil}]
  /\ waiters \in [Semaphores -> Seq(Works)]
  /\ queue \in [Works -> Nat]
  /\ stopped \in BOOLEAN
  /\ active \subseteq Works
  /\ rounds \in 0..MaxRounds
  /\ at \in [Workers -> [pc : {"idle", "lock", "unlock", "body", "release"},
                         work : Works \cup {Nil}, sems : SUBSET Semaphores,
                         blocker : Semaphores \cup {Nil}, chain : Seq(Works)]]

\* A Work waits at a semaphore only while that has less than it asks for: no
\* release, and no reset, leaves behind one that could try again.
WaiterIsShort ==
  \A sem \in Semaphores : \A t \in Range(waiters[sem]) :
    sem \in Asked(t) /\ m_value[sem] < acquires[t][sem]

\* The workers that have t in hand, those that are only unlocking after a
\* failed attempt apart.
InHand(t) == {w \in Workers : at[w].work = t /\ ~(at[w].pc = "unlock" /\ at[w].blocker # Nil)}

Chains == [w \in Workers |-> at[w].chain]

\* While a worker still reads the requests of a Work to unlock them, the Work
\* stays in the chain it has joined.
StaysInChain ==
  \A w \in Workers : at[w].pc = "unlock" /\ at[w].blocker # Nil =>
    at[w].work \in Range(waiters[at[w].blocker])

\* An active Work is in exactly one place: a queue, the chain of a semaphore,
\* the list of a worker that let it go, or the hands of a worker.  None is lost
\* and none runs twice at a time, or while its requests are still read.
OnePlace ==
  /\ \A t \in Works :
       queue[t] + Cardinality(InHand(t))
         + Occurrences(waiters, Semaphores, t) + Occurrences(Chains, Workers, t)
       = (IF t \in active THEN 1 ELSE 0)
  /\ StaysInChain

\* The types; and all or nothing: where every Work returns what it takes, what
\* a semaphore lacks is exactly what the Works that run have taken, and it
\* never has more than its maximum.  One that waits holds nothing of any
\* semaphore.
QuotaConserved ==
  /\ TypeOK
  /\ Balanced =>
       \A sem \in Semaphores : /\ m_value[sem] + InUse(sem) = granted[sem]
                               /\ m_value[sem] <= m_max_value[sem]

\* Every Work ends, however the requests overlap.  Where
\* one Work returns what another takes, a stop request breaks this: the Work
\* that would have returned quota is skipped, and the other waits for ever.
WorkEnds ==
  \A t \in Works : t \in active ~> (t \notin active \/ (stopped /\ ~Balanced))

===============================================================================
