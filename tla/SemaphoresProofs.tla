--------------------------- MODULE SemaphoresProofs ---------------------------
(***************************************************************************)
(* No Work waits at a semaphore that has what it asks for, a Work whose    *)
(* requests are still read stays in its chain, every active Work is in one *)
(* place, and quota is conserved: for any semaphores, Works, requests and  *)
(* workers.                                                                *)
(***************************************************************************)
EXTENDS Semaphores, SequenceFacts, TLAPS

-----------------------------------------------------------------------------
(* The inductive invariant.  That a waiter is short is inductive once the  *)
(* types are; that it stays in its chain rests on the locks: whoever is    *)
(* between the attempt and the last unlock holds the blocker's lock, and   *)
(* nobody takes a chain without it.                                        *)

Pcs == {"idle", "lock", "unlock", "body", "release"}

WorkerStates ==
  [pc : Pcs, work : Works \cup {Nil}, sems : SUBSET Semaphores,
   blocker : Semaphores \cup {Nil}, chain : Seq(Works)]

AtTypes == at \in [Workers -> WorkerStates]

Types ==
  /\ AreRequests(acquires) /\ AreRequests(releases)
  /\ m_value \in [Semaphores -> Int]
  /\ m_lock \in [Semaphores -> Workers \cup {Nil}]
  /\ waiters \in [Semaphores -> Seq(Works)]
  /\ AtTypes

\* A worker that is not idle has a Work, one that is has no semaphore; what is
\* still to be returned is among that Work's releases.
WorkInHand ==
  \A w \in Workers :
    /\ at[w].pc # "idle" => at[w].work \in Works
    /\ at[w].pc = "idle" => at[w].sems = {} /\ at[w].blocker = Nil
    /\ at[w].pc = "release" => at[w].sems \subseteq DOMAIN releases[at[w].work]

\* A worker holds the locks it says, the blocker's to the last.
LocksHeld ==
  \A w \in Workers : at[w].pc \in {"lock", "unlock"} =>
    /\ \A sem \in at[w].sems : m_lock[sem] = w
    /\ at[w].blocker # Nil => at[w].pc = "unlock" /\ at[w].blocker \in at[w].sems

IInv == Types /\ WorkInHand /\ LocksHeld /\ WaiterIsShort /\ StaysInChain

-----------------------------------------------------------------------------
\* The invariant holds initially.
LEMMA InitHolds == Init => IInv
<1> SUFFICES ASSUME Init PROVE IInv
  OBVIOUS
<1>1. PICK s \in Settings : /\ acquires = s.acquires
                            /\ releases = s.releases
                            /\ m_max_value = s.max
                            /\ m_value = [sem \in Semaphores |-> Min({s.value[sem], s.max[sem]})]
  BY DEF Init
<1>2. AreRequests(acquires) /\ AreRequests(releases)
  BY <1>1, SemaphoreAssumption
<1>3. ASSUME NEW a \in Nat, NEW b \in Nat PROVE Min({a, b}) \in Int
  <2>1. CASE a <= b
    <3>1. a \in {a, b} /\ \A y \in {a, b} : a <= y
      BY <2>1
    <3> QED BY <3>1 DEF Min
  <2>2. CASE b <= a
    <3>1. b \in {a, b} /\ \A y \in {a, b} : b <= y
      BY <2>2
    <3> QED BY <3>1 DEF Min
  <2> QED BY <2>1, <2>2
<1>4. m_value \in [Semaphores -> Int]
  <2>1. s.max \in [Semaphores -> Nat] /\ s.value \in [Semaphores -> Nat]
    BY SemaphoreAssumption
  <2>2. \A sem \in Semaphores : Min({s.value[sem], s.max[sem]}) \in Int
    BY <2>1, <1>3
  <2> QED BY <1>1, <2>2
<1>5. Types
  <2>1. <<>> \in Seq(Works)
    OBVIOUS
  <2>2. AtTypes
    BY <2>1 DEF AtTypes, WorkerStates, Pcs, Init, Idle
  <2> QED BY <1>2, <1>4, <2>1, <2>2 DEF Types, Init
<1>6. WorkInHand /\ LocksHeld /\ StaysInChain
  BY DEF Init, Idle, WorkInHand, LocksHeld, StaysInChain
<1>7. WaiterIsShort
  BY RangeOfEmpty DEF Init, WaiterIsShort
<1> QED BY <1>5, <1>6, <1>7 DEF IInv

-----------------------------------------------------------------------------
\* Joining a chain.
LEMMA Joined ==
  ASSUME NEW S, NEW T, NEW f \in [S -> Seq(T)], NEW x \in S, NEW t \in T
  PROVE  LET g == [f EXCEPT ![x] = Append(@, t)] IN
         /\ g \in [S -> Seq(T)]
         /\ Range(g[x]) = Range(f[x]) \cup {t}
         /\ \A y \in S \ {x} : g[y] = f[y]
<1>1. f[x] \in Seq(T)
  OBVIOUS
<1>2. Append(f[x], t) \in Seq(T) /\ Range(Append(f[x], t)) = Range(f[x]) \cup {t}
  BY <1>1, RangeOfAppend
<1> QED BY <1>1, <1>2

-----------------------------------------------------------------------------
\* What is left of a chain that is let go whole.
LEMMA RangeOfRest ==
  ASSUME NEW S, NEW T, NEW f \in [S -> Seq(T)], NEW x \in S
  PROVE  Range([f EXCEPT ![x] = SubSeq(@, Len(@) + 1, Len(@))][x]) = {}
<1>1. f[x] \in Seq(T) /\ Len(f[x]) \in Nat
  BY LenProperties
<1>2. SubSeq(f[x], Len(f[x]) + 1, Len(f[x])) = <<>>
  BY <1>1
<1> QED BY <1>1, <1>2, RangeOfEmpty

\* The ways in which a step changes what a worker does.
LEMMA WorkerMoves ==
  ASSUME AtTypes, NEW w \in Workers
  PROVE  /\ \A q \in SUBSET Semaphores : [at EXCEPT ![w].sems = q] \in [Workers -> WorkerStates]
         /\ \A c \in Seq(Works) : [at EXCEPT ![w].chain = c] \in [Workers -> WorkerStates]
         /\ \A p \in Pcs : [at EXCEPT ![w].pc = p] \in [Workers -> WorkerStates]
         /\ \A p \in Pcs, t \in Works :
              [at EXCEPT ![w].pc = p, ![w].work = t] \in [Workers -> WorkerStates]
         /\ \A p \in Pcs, q \in SUBSET Semaphores :
              [at EXCEPT ![w].pc = p, ![w].sems = q] \in [Workers -> WorkerStates]
         /\ \A p \in Pcs, b \in Semaphores :
              [at EXCEPT ![w].pc = p, ![w].blocker = b] \in [Workers -> WorkerStates]
         /\ \A q \in SUBSET Semaphores, c \in Seq(Works) :
              [at EXCEPT ![w].sems = q, ![w].chain = c] \in [Workers -> WorkerStates]
<1>1. \A r \in WorkerStates : [at EXCEPT ![w] = r] \in [Workers -> WorkerStates]
  BY DEF AtTypes
<1>2. ASSUME NEW q \in SUBSET Semaphores
      PROVE  [at EXCEPT ![w].sems = q] \in [Workers -> WorkerStates]
  <2>1. [at[w] EXCEPT !.sems = q] \in WorkerStates
    BY DEF AtTypes, WorkerStates
  <2> QED BY <1>1, <2>1 DEF AtTypes
<1>3. ASSUME NEW c \in Seq(Works)
      PROVE  [at EXCEPT ![w].chain = c] \in [Workers -> WorkerStates]
  <2>1. [at[w] EXCEPT !.chain = c] \in WorkerStates
    BY DEF AtTypes, WorkerStates
  <2> QED BY <1>1, <2>1 DEF AtTypes
<1>4. ASSUME NEW p \in Pcs
      PROVE  [at EXCEPT ![w].pc = p] \in [Workers -> WorkerStates]
  <2>1. [at[w] EXCEPT !.pc = p] \in WorkerStates
    BY DEF AtTypes, WorkerStates
  <2> QED BY <1>1, <2>1 DEF AtTypes
<1>5. ASSUME NEW p \in Pcs, NEW t \in Works
      PROVE  [at EXCEPT ![w].pc = p, ![w].work = t] \in [Workers -> WorkerStates]
  <2>1. [at[w] EXCEPT !.pc = p, !.work = t] \in WorkerStates
    BY DEF AtTypes, WorkerStates
  <2> QED BY <1>1, <2>1 DEF AtTypes
<1>6. ASSUME NEW p \in Pcs, NEW q \in SUBSET Semaphores
      PROVE  [at EXCEPT ![w].pc = p, ![w].sems = q] \in [Workers -> WorkerStates]
  <2>1. [at[w] EXCEPT !.pc = p, !.sems = q] \in WorkerStates
    BY DEF AtTypes, WorkerStates
  <2> QED BY <1>1, <2>1 DEF AtTypes
<1>7. ASSUME NEW p \in Pcs, NEW b \in Semaphores
      PROVE  [at EXCEPT ![w].pc = p, ![w].blocker = b] \in [Workers -> WorkerStates]
  <2>1. [at[w] EXCEPT !.pc = p, !.blocker = b] \in WorkerStates
    BY DEF AtTypes, WorkerStates
  <2> QED BY <1>1, <2>1 DEF AtTypes
<1>8. ASSUME NEW q \in SUBSET Semaphores, NEW c \in Seq(Works)
      PROVE  [at EXCEPT ![w].sems = q, ![w].chain = c] \in [Workers -> WorkerStates]
  <2>1. [at[w] EXCEPT !.sems = q, !.chain = c] \in WorkerStates
    BY DEF AtTypes, WorkerStates
  <2> QED BY <1>1, <2>1 DEF AtTypes
<1> QED BY <1>2, <1>3, <1>4, <1>5, <1>6, <1>7, <1>8

\* Every step keeps the types.
LEMMA TypesKept == ASSUME IInv, [Next]_vars PROVE Types'
<1>1. Types /\ WorkInHand
  BY DEF IInv
<1>2. AreRequests(acquires) /\ AreRequests(releases) /\ AtTypes
  BY <1>1 DEF Types
<1>3. CASE Launch
  BY <1>1, <1>3 DEF Types, AtTypes, AreRequests, Launch, requests, quota
<1>4. CASE RequestStop
  BY <1>1, <1>4 DEF Types, AtTypes, AreRequests, RequestStop, requests, quota, progress
<1>5. ASSUME NEW sem \in Semaphores, Reset(sem) PROVE Types'
  <2>1. m_value' \in [Semaphores -> Int]
    BY <1>1, <1>5, SemaphoreAssumption DEF Types, Reset
  <2> QED BY <1>1, <1>5, <2>1 DEF Types, AtTypes, AreRequests, Reset, requests, progress
<1>6. ASSUME NEW w \in Workers, Skip(w) PROVE Types'
  BY <1>1, <1>6 DEF Types, AtTypes, AreRequests, Skip, requests, quota
<1>7. ASSUME NEW w \in Workers, Take(w) PROVE Types'
  <2>1. PICK t \in Works, p \in Pcs : at' = [at EXCEPT ![w].pc = p, ![w].work = t]
    BY <1>7 DEF Take, Pcs
  <2>2. AtTypes'
    BY <1>2, <2>1, WorkerMoves DEF AtTypes
  <2> QED BY <1>1, <1>7, <2>2 DEF Types, AreRequests, Take, requests, quota, progress
<1>8. ASSUME NEW w \in Workers, LockNext(w) PROVE Types'
  <2>1. Asked(at[w].work) \subseteq Semaphores
    BY <1>1, <1>2, <1>8 DEF WorkInHand, LockNext, AreRequests, Asked
  <2>2. PICK sem \in Semaphores : /\ m_lock' = [m_lock EXCEPT ![sem] = w]
                                  /\ at' = [at EXCEPT ![w].sems = @ \cup {sem}]
    BY <1>8, <2>1 DEF LockNext
  <2>3. m_lock' \in [Semaphores -> Workers \cup {Nil}]
    BY <1>1, <2>2 DEF Types
  <2>4. at[w].sems \cup {sem} \in SUBSET Semaphores /\ at' = [at EXCEPT ![w].sems = at[w].sems \cup {sem}]
    BY <1>2, <2>2 DEF AtTypes, WorkerStates
  <2>5. AtTypes'
    BY <1>2, <2>4, WorkerMoves DEF AtTypes
  <2> QED BY <1>1, <1>8, <2>3, <2>5 DEF Types, AreRequests, LockNext, requests, quota, progress
<1>9. ASSUME NEW w \in Workers, TryAcquire(w) PROVE Types'
  <2> DEFINE t == at[w].work
  <2>1. t \in Works /\ Asked(t) \subseteq Semaphores
    BY <1>1, <1>2, <1>9 DEF WorkInHand, TryAcquire, AreRequests, Asked
  <2>2. \A sem \in Asked(t) : acquires[t][sem] \in Nat
    BY <1>2, <2>1 DEF AreRequests, Asked
  <2>3. CASE Short(t) = {}
    <3>1. /\ m_value' = [sem \in Semaphores |->
                           IF sem \in Asked(t) THEN m_value[sem] - acquires[t][sem] ELSE m_value[sem]]
          /\ at' = [at EXCEPT ![w].pc = "unlock"]
          /\ waiters' = waiters
      BY <1>9, <2>3 DEF TryAcquire, WaitAt
    <3>2. m_value' \in [Semaphores -> Int]
      <4>1. \A sem \in Semaphores : m_value[sem] \in Int
        BY <1>1 DEF Types
      <4>2. \A sem \in Semaphores :
              (IF sem \in Asked(t) THEN m_value[sem] - acquires[t][sem] ELSE m_value[sem]) \in Int
        BY <2>2, <4>1
      <4> QED BY <3>1, <4>2
    <3>3. AtTypes'
      BY <1>2, <3>1, WorkerMoves DEF AtTypes, Pcs
    <3> QED BY <1>1, <1>9, <3>1, <3>2, <3>3 DEF Types, AreRequests, TryAcquire, requests
  <2>4. CASE Short(t) # {}
    <3>1. PICK sem \in Short(t) : /\ waiters' = [waiters EXCEPT ![sem] = Append(@, t)]
                                  /\ at' = [at EXCEPT ![w].pc = "unlock", ![w].blocker = sem]
                                  /\ m_value' = m_value
      BY <1>9, <2>4 DEF TryAcquire, WaitAt
    <3>2. sem \in Semaphores
      BY <2>1, <3>1 DEF Short
    <3>3. waiters' \in [Semaphores -> Seq(Works)]
      BY <1>1, <2>1, <3>1, <3>2, Joined DEF Types
    <3>4. AtTypes'
      BY <1>2, <3>1, <3>2, WorkerMoves DEF AtTypes, Pcs
    <3> QED BY <1>1, <1>9, <3>1, <3>3, <3>4 DEF Types, AreRequests, TryAcquire, requests
  <2> QED BY <2>3, <2>4
<1>10. ASSUME NEW w \in Workers, Unlock(w) PROVE Types'
  <2>1. at[w].work \in Works
    BY <1>1, <1>10 DEF WorkInHand, Unlock
  <2>2. AtTypes' /\ m_lock' \in [Semaphores -> Workers \cup {Nil}]
    <3>1. PICK sem \in Semaphores :
            /\ m_lock' = [m_lock EXCEPT ![sem] = Nil]
            /\ at' = [at EXCEPT ![w] =
                        IF at[w].sems # {sem} THEN [at[w] EXCEPT !.sems = @ \ {sem}]
                        ELSE IF at[w].blocker = Nil
                             THEN [Idle EXCEPT !.pc = "body", !.work = at[w].work]
                             ELSE Idle]
      BY <1>10 DEF Unlock
    <3>2. [at[w] EXCEPT !.sems = @ \ {sem}] \in WorkerStates
      BY <1>2 DEF AtTypes, WorkerStates
    <3>3. Idle \in WorkerStates
      <4>1. <<>> \in Seq(Works)
        OBVIOUS
      <4> QED BY <4>1 DEF WorkerStates, Pcs, Idle
    <3>4. [Idle EXCEPT !.pc = "body", !.work = at[w].work] \in WorkerStates
      BY <2>1, <3>3 DEF WorkerStates, Pcs
    <3> QED BY <1>1, <1>2, <3>1, <3>2, <3>3, <3>4 DEF Types, AtTypes
  <2> QED BY <1>1, <1>10, <2>2 DEF Types, AreRequests, Unlock, requests, quota, progress
<1>11. ASSUME NEW w \in Workers, EndBody(w) PROVE Types'
  <2>1. DOMAIN releases[at[w].work] \subseteq Semaphores
    BY <1>1, <1>2, <1>11 DEF WorkInHand, EndBody, AreRequests
  <2>2. AtTypes'
    BY <1>2, <1>11, <2>1, WorkerMoves DEF AtTypes, Pcs, EndBody
  <2> QED BY <1>1, <1>11, <2>2 DEF Types, AreRequests, EndBody, requests, quota, progress
<1>12. ASSUME NEW w \in Workers, Release(w) PROVE Types'
  <2>1. PICK sem \in at[w].sems :
          /\ m_value' = [m_value EXCEPT ![sem] = @ + releases[at[w].work][sem]]
          /\ waiters' = [waiters EXCEPT ![sem] = SubSeq(@, Len(LetGo(@)) + 1, Len(@))]
          /\ at' = [at EXCEPT ![w].sems = @ \ {sem}, ![w].chain = @ \o LetGo(waiters[sem])]
    BY <1>12 DEF Release
  <2>2. sem \in Semaphores /\ at[w].work \in Works /\ sem \in DOMAIN releases[at[w].work]
    BY <1>1, <1>2, <1>12, <2>1 DEF AtTypes, WorkerStates, WorkInHand, Release
  <2>3. releases[at[w].work][sem] \in Nat
    BY <1>2, <2>2 DEF AreRequests
  <2>4. waiters[sem] \in Seq(Works) /\ at[w].chain \in Seq(Works)
    BY <1>1, <2>2 DEF Types, AtTypes, WorkerStates
  <2>5. at[w].chain \o waiters[sem] \in Seq(Works)
    BY <2>4, ConcatProperties
  <2>6. AtTypes'
    <3>1. at[w].sems \ {sem} \in SUBSET Semaphores
      BY <1>2 DEF AtTypes, WorkerStates
    <3>2. at' = [at EXCEPT ![w].sems = at[w].sems \ {sem}, ![w].chain = at[w].chain \o waiters[sem]]
      BY <1>2, <2>1 DEF AtTypes, WorkerStates, LetGo
    <3> QED BY <1>2, <2>5, <3>1, <3>2, WorkerMoves DEF AtTypes
  <2>7. SubSeq(waiters[sem], Len(waiters[sem]) + 1, Len(waiters[sem])) \in Seq(Works)
    BY <2>4, LenProperties, RangeOfCut
  <2>8. m_value' \in [Semaphores -> Int] /\ waiters' \in [Semaphores -> Seq(Works)]
    BY <1>1, <2>1, <2>2, <2>3, <2>7 DEF Types, LetGo
  <2> QED BY <1>1, <1>12, <2>6, <2>8 DEF Types, AreRequests, Release, requests
<1>13. ASSUME NEW w \in Workers, Reschedule(w) PROVE Types'
  <2>1. at[w].chain \in Seq(Works) /\ at[w].chain # <<>>
    BY <1>2, <1>13 DEF AtTypes, WorkerStates, Reschedule
  <2>2. Tail(at[w].chain) \in Seq(Works)
    BY <2>1, HeadTailProperties
  <2>3. AtTypes'
    <3>1. at' = [at EXCEPT ![w].chain = Tail(at[w].chain)]
      BY <1>2, <1>13 DEF AtTypes, WorkerStates, Reschedule
    <3> QED BY <1>2, <2>2, <3>1, WorkerMoves DEF AtTypes
  <2> QED BY <1>1, <1>13, <2>3 DEF Types, AreRequests, Reschedule, requests, quota, progress
<1>14. ASSUME NEW w \in Workers, Finish(w) PROVE Types'
  <2>1. <<>> \in Seq(Works)
    OBVIOUS
  <2>2. AtTypes'
    <3>1. Idle \in WorkerStates
      BY <2>1 DEF WorkerStates, Pcs, Idle
    <3> QED BY <1>2, <1>14, <3>1 DEF AtTypes, Finish
  <2> QED BY <1>1, <1>14, <2>2 DEF Types, AreRequests, Finish, requests, quota
<1>15. CASE UNCHANGED vars
  BY <1>1, <1>15 DEF Types, AtTypes, AreRequests, vars, requests, quota
<1> QED BY <1>3, <1>4, <1>5, <1>6, <1>7, <1>8, <1>9, <1>10, <1>11, <1>12, <1>13, <1>14, <1>15
        DEF Next, Runs

\* What a worker that does not take part does stays as it is.
LEMMA OthersStay ==
  ASSUME AtTypes, NEW w \in Workers, NEW v \in Workers, v # w, Runs(w)
  PROVE  at'[v] = at[v]
BY DEF AtTypes, Runs, Skip, Take, LockNext, TryAcquire, WaitAt, Unlock, EndBody, Release,
       Reschedule, Finish, progress

\* A step that unlocks: another lock than the last, or the last.
LEMMA UnlockStep ==
  ASSUME AtTypes, NEW w \in Workers, Unlock(w)
  PROVE  /\ at[w].pc = "unlock"
         /\ \E sem \in Semaphores :
              /\ Unlocks(w, sem)
              /\ m_lock' = [m_lock EXCEPT ![sem] = Nil]
              /\ \/ at[w].sems # {sem} /\ at'[w] = [at[w] EXCEPT !.sems = @ \ {sem}]
                 \/ at[w].sems = {sem} /\ at'[w].pc \in {"idle", "body"}
<1>1. PICK sem \in Semaphores :
        /\ Unlocks(w, sem)
        /\ m_lock' = [m_lock EXCEPT ![sem] = Nil]
        /\ at' = [at EXCEPT ![w] =
                    IF at[w].sems # {sem} THEN [at[w] EXCEPT !.sems = @ \ {sem}]
                    ELSE IF at[w].blocker = Nil
                         THEN [Idle EXCEPT !.pc = "body", !.work = at[w].work]
                         ELSE Idle]
  BY DEF Unlock
<1>2. at'[w] = IF at[w].sems # {sem} THEN [at[w] EXCEPT !.sems = @ \ {sem}]
               ELSE IF at[w].blocker = Nil
                    THEN [Idle EXCEPT !.pc = "body", !.work = at[w].work]
                    ELSE Idle
  BY <1>1 DEF AtTypes
<1>3. Idle.pc = "idle" /\ [Idle EXCEPT !.pc = "body", !.work = at[w].work].pc = "body"
  BY DEF Idle
<1>4. at[w].sems = {sem} => at'[w].pc \in {"idle", "body"}
  BY <1>2, <1>3
<1> QED BY <1>1, <1>2, <1>4 DEF Unlock

\* Every step keeps WorkInHand.
LEMMA WorkInHandKept == ASSUME IInv, [Next]_vars PROVE WorkInHand'
<1>1. Types /\ WorkInHand /\ LocksHeld
  BY DEF IInv
<1>2. at \in [Workers -> WorkerStates] /\ Nil \notin Works
  BY <1>1, SemaphoreAssumption DEF Types, AtTypes
<1>3. CASE Launch \/ RequestStop \/ (\E sem \in Semaphores : Reset(sem)) \/ UNCHANGED vars
  BY <1>1, <1>3 DEF WorkInHand, Launch, RequestStop, Reset, vars, requests, progress
<1>4. ASSUME NEW w \in Workers, Runs(w) PROVE WorkInHand'
  <2>1. releases' = releases
    BY <1>4 DEF Runs, Skip, Take, LockNext, TryAcquire, Unlock, EndBody, Release, Reschedule,
                Finish, requests
  <2>2. /\ at'[w].pc # "idle" => at'[w].work \in Works
        /\ at'[w].pc = "idle" => at'[w].sems = {} /\ at'[w].blocker = Nil
        /\ at'[w].pc = "release" => at'[w].sems \subseteq DOMAIN releases[at'[w].work]
    <3>1. CASE Skip(w)
      BY <1>1, <3>1 DEF WorkInHand, Skip
    <3>2. CASE Take(w)
      BY <1>2, <3>2 DEF Take, WorkerStates
    <3>3. CASE LockNext(w)
      BY <1>1, <1>2, <3>3 DEF WorkInHand, LockNext, WorkerStates
    <3>4. CASE TryAcquire(w)
      BY <1>1, <1>2, <3>4 DEF WorkInHand, TryAcquire, WaitAt, WorkerStates
    <3>5. CASE Unlock(w)
      BY <1>1, <1>2, <3>5 DEF WorkInHand, Unlock, WorkerStates, Idle
    <3>6. CASE EndBody(w)
      BY <1>1, <1>2, <3>6 DEF WorkInHand, EndBody, WorkerStates
    <3>7. CASE Release(w)
      BY <1>1, <1>2, <3>7 DEF WorkInHand, Release, WorkerStates
    <3>8. CASE Reschedule(w)
      BY <1>1, <1>2, <3>8 DEF WorkInHand, Reschedule, WorkerStates
    <3>9. CASE Finish(w)
      BY <1>2, <3>9 DEF Finish, Idle
    <3> QED BY <1>4, <3>1, <3>2, <3>3, <3>4, <3>5, <3>6, <3>7, <3>8, <3>9 DEF Runs
  <2> QED BY <1>1, <1>2, <1>4, <2>1, <2>2, OthersStay DEF WorkInHand, AtTypes
<1> QED BY <1>3, <1>4 DEF Next

\* Every step keeps LocksHeld: a worker takes only free locks, and releases
\* only its own, the blocker's last.
LEMMA LocksHeldKept == ASSUME IInv, [Next]_vars PROVE LocksHeld'
<1>1. Types /\ WorkInHand /\ LocksHeld
  BY DEF IInv
<1>2. at \in [Workers -> WorkerStates] /\ m_lock \in [Semaphores -> Workers \cup {Nil}]
  BY <1>1 DEF Types, AtTypes
<1>3. Nil \notin Semaphores /\ Nil \notin Workers
  BY SemaphoreAssumption
<1>4. CASE Launch \/ RequestStop \/ (\E sem \in Semaphores : Reset(sem)) \/ UNCHANGED vars
  BY <1>1, <1>4 DEF LocksHeld, Launch, RequestStop, Reset, vars, progress
<1>5. ASSUME NEW w \in Workers, Runs(w) PROVE LocksHeld'
  <2> DEFINE Held(v) == at[v].pc \in {"lock", "unlock"} =>
                          /\ \A sem \in at[v].sems : m_lock[sem] = v
                          /\ at[v].blocker # Nil => at[v].pc = "unlock" /\ at[v].blocker \in at[v].sems
  <2>1. \A v \in Workers : Held(v)
    BY <1>1 DEF LocksHeld
  <2>2. \A v \in Workers \ {w} : at'[v] = at[v]
    BY <1>1, <1>5, OthersStay DEF Types
  <2>3. \A v \in Workers : at[v].sems \subseteq Semaphores
    BY <1>2 DEF WorkerStates
  <2>4. CASE Skip(w) \/ Take(w) \/ EndBody(w) \/ Release(w) \/ Reschedule(w) \/ Finish(w)
    <3>1. m_lock' = m_lock
      BY <2>4 DEF Skip, Take, EndBody, Release, Reschedule, Finish
    <3>2. Held(w)'
      <4>1. CASE Skip(w)
        BY <1>1, <4>1 DEF WorkInHand, Skip
      <4>2. CASE Take(w)
        BY <1>1, <1>2, <4>2 DEF WorkInHand, Take, WorkerStates
      <4>3. CASE EndBody(w) \/ Release(w) \/ Reschedule(w)
        <5>1. at'[w].pc = "release"
          BY <1>2, <4>3, ZenonT(30) DEF EndBody, Release, Reschedule, WorkerStates
        <5> QED BY <5>1
      <4>4. CASE Finish(w)
        BY <1>2, <4>4 DEF Finish, Idle
      <4> QED BY <2>4, <4>1, <4>2, <4>3, <4>4
    <3> QED BY <2>1, <2>2, <3>1, <3>2 DEF LocksHeld
  <2>5. CASE LockNext(w)
    <3>1. PICK sem \in Asked(at[w].work) : /\ m_lock[sem] = Nil
                                           /\ m_lock' = [m_lock EXCEPT ![sem] = w]
                                           /\ at' = [at EXCEPT ![w].sems = @ \cup {sem}]
      BY <2>5 DEF LockNext
    <3>2. at[w].pc = "lock" /\ sem \in Semaphores
      BY <1>1, <2>5 DEF LockNext, WorkInHand, Types, AreRequests, Asked
    <3>3. Held(w)'
      BY <1>2, <2>1, <2>3, <3>1, <3>2 DEF WorkerStates
    <3>4. ASSUME NEW v \in Workers \ {w} PROVE Held(v)'
      BY <1>2, <1>3, <2>1, <2>2, <2>3, <3>1, <3>2, <3>4
    <3> QED BY <3>3, <3>4 DEF LocksHeld
  <2>6. CASE TryAcquire(w)
    <3>1. m_lock' = m_lock
      BY <2>6 DEF TryAcquire
    <3>2. Held(w)'
      BY <1>2, <1>3, <2>1, <2>6, <3>1 DEF TryAcquire, WaitAt, Short, WorkerStates
    <3> QED BY <2>1, <2>2, <3>1, <3>2 DEF LocksHeld
  <2>7. CASE Unlock(w)
    <3>1. PICK sem \in Semaphores :
            /\ Unlocks(w, sem)
            /\ m_lock' = [m_lock EXCEPT ![sem] = Nil]
            /\ \/ at[w].sems # {sem} /\ at'[w] = [at[w] EXCEPT !.sems = @ \ {sem}]
               \/ at[w].sems = {sem} /\ at'[w].pc \in {"idle", "body"}
      BY <1>1, <2>7, UnlockStep DEF Types
    <3>2. at[w].pc = "unlock"
      BY <2>7 DEF Unlock
    <3>3. sem \in at[w].sems /\ (sem = at[w].blocker => at[w].sems = {sem})
      BY <1>3, <2>1, <3>1, <3>2 DEF Unlocks
    <3>4. Held(w)'
      BY <1>2, <2>1, <2>3, <3>1, <3>2, <3>3 DEF WorkerStates
    <3>5. ASSUME NEW v \in Workers \ {w} PROVE Held(v)'
      BY <1>2, <2>1, <2>2, <2>3, <3>1, <3>2, <3>3, <3>5
    <3> QED BY <3>4, <3>5 DEF LocksHeld
  <2> QED BY <1>5, <2>4, <2>5, <2>6, <2>7 DEF Runs
<1> QED BY <1>4, <1>5 DEF Next

\* Every step keeps WaiterIsShort: taking only makes a semaphore shorter, a
\* release lets the whole chain go, a reset is refused while a Work waits.
LEMMA WaiterIsShortKept == ASSUME IInv, [Next]_vars PROVE WaiterIsShort'
<1>1. Types /\ WorkInHand /\ WaiterIsShort
  BY DEF IInv
<1>2. /\ m_value \in [Semaphores -> Int] /\ waiters \in [Semaphores -> Seq(Works)]
      /\ AreRequests(acquires)
  BY <1>1 DEF Types
<1> DEFINE ShortAt(sem) == \A t \in Range(waiters[sem]) :
                             sem \in Asked(t) /\ m_value[sem] < acquires[t][sem]
<1>3. \A sem \in Semaphores : ShortAt(sem)
  BY <1>1 DEF WaiterIsShort
<1>4. acquires' = acquires
  BY DEF Next, Runs, Launch, RequestStop, Reset, Skip, Take, LockNext, TryAcquire, Unlock,
         EndBody, Release, Reschedule, Finish, vars, requests
<1>5. CASE waiters' = waiters /\ m_value' = m_value
  BY <1>3, <1>4, <1>5 DEF WaiterIsShort, Asked
<1>6. ASSUME NEW sem \in Semaphores, Reset(sem) PROVE WaiterIsShort'
  <2>1. waiters' = waiters /\ Range(waiters[sem]) = {}
    BY <1>6, RangeOfEmpty DEF Reset
  <2>2. \A s \in Semaphores \ {sem} : m_value'[s] = m_value[s]
    BY <1>2, <1>6 DEF Reset
  <2> QED BY <1>3, <1>4, <2>1, <2>2 DEF WaiterIsShort, Asked
<1>7. ASSUME NEW w \in Workers, TryAcquire(w) PROVE WaiterIsShort'
  <2> DEFINE t == at[w].work
  <2>1. t \in Works
    BY <1>1, <1>7 DEF WorkInHand, TryAcquire
  <2>2. \A u \in Works : \A sem \in Asked(u) : sem \in Semaphores /\ acquires[u][sem] \in Nat
    BY <1>2 DEF AreRequests, Asked
  <2>3. \A sem \in Semaphores : Range(waiters[sem]) \subseteq Works /\ m_value[sem] \in Int
    BY <1>2 DEF Range
  <2>4. CASE Short(t) = {}
    <3>1. waiters' = waiters
      BY <1>7, <2>4 DEF TryAcquire, WaitAt
    <3>2. \A sem \in Semaphores :
            m_value'[sem] = IF sem \in Asked(t) THEN m_value[sem] - acquires[t][sem] ELSE m_value[sem]
      BY <1>7, <2>4 DEF TryAcquire, WaitAt
    <3>3. \A sem \in Semaphores : m_value'[sem] \in Int /\ m_value'[sem] <= m_value[sem]
      BY <2>1, <2>2, <2>3, <3>2
    <3>4. ASSUME NEW sem \in Semaphores, NEW u \in Range(waiters[sem])
          PROVE  sem \in Asked(u) /\ m_value'[sem] < acquires[u][sem]
      BY <1>3, <2>2, <2>3, <3>3, <3>4
    <3> QED BY <1>4, <3>1, <3>4 DEF WaiterIsShort, Asked
  <2>5. CASE Short(t) # {}
    <3>1. PICK x \in Short(t) : waiters' = [waiters EXCEPT ![x] = Append(@, t)] /\ m_value' = m_value
      BY <1>7, <2>5 DEF TryAcquire, WaitAt
    <3>2. x \in Semaphores /\ x \in Asked(t) /\ m_value[x] < acquires[t][x]
      BY <2>1, <2>2 DEF Short
    <3>3. Range(waiters'[x]) = Range(waiters[x]) \cup {t}
      <4>1. waiters[x] \in Seq(Works) /\ waiters'[x] = Append(waiters[x], t)
        BY <1>2, <3>1, <3>2
      <4> QED BY <2>1, <4>1, RangeOfAppend
    <3>4. \A y \in Semaphores \ {x} : waiters'[y] = waiters[y]
      BY <1>2, <3>1
    <3>5. ASSUME NEW y \in Semaphores, NEW u \in Range(waiters'[y])
          PROVE  y \in Asked(u) /\ m_value[y] < acquires[u][y]
      BY <1>3, <3>2, <3>3, <3>4, <3>5
    <3> QED BY <1>4, <3>1, <3>5 DEF WaiterIsShort, Asked
  <2> QED BY <2>4, <2>5
<1>8. ASSUME NEW w \in Workers, Release(w) PROVE WaiterIsShort'
  <2>1. PICK sem \in at[w].sems :
          /\ m_value' = [m_value EXCEPT ![sem] = @ + releases[at[w].work][sem]]
          /\ waiters' = [waiters EXCEPT ![sem] = SubSeq(@, Len(@) + 1, Len(@))]
    BY <1>8 DEF Release, LetGo
  <2>2. sem \in Semaphores
    BY <1>1 DEF Types, AtTypes, WorkerStates
  <2>3. Range(waiters'[sem]) = {}
    BY <1>2, <2>1, <2>2, RangeOfRest
  <2>4. \A s \in Semaphores \ {sem} : m_value'[s] = m_value[s] /\ waiters'[s] = waiters[s]
    BY <1>2, <2>1, <2>2
  <2> QED BY <1>3, <1>4, <2>3, <2>4 DEF WaiterIsShort, Asked
<1> QED BY <1>5, <1>6, <1>7, <1>8
        DEF Next, Runs, Launch, RequestStop, Skip, Take, LockNext, Unlock, EndBody, Reschedule,
            Finish, vars, quota

\* Every step keeps StaysInChain: who takes a chain must have the lock of its
\* semaphore, and the Work's worker holds that.
LEMMA StaysInChainKept == ASSUME IInv, [Next]_vars PROVE StaysInChain'
<1>1. Types /\ WorkInHand /\ LocksHeld /\ StaysInChain
  BY DEF IInv
<1>2. /\ at \in [Workers -> WorkerStates] /\ waiters \in [Semaphores -> Seq(Works)]
      /\ Nil \notin Workers
  BY <1>1, SemaphoreAssumption DEF Types, AtTypes
<1> DEFINE Stays(v) == at[v].pc = "unlock" /\ at[v].blocker # Nil =>
                         at[v].work \in Range(waiters[at[v].blocker])
<1>3. \A v \in Workers : Stays(v) /\ at[v].blocker \in Semaphores \cup {Nil}
  BY <1>1, <1>2 DEF StaysInChain, WorkerStates
<1>4. CASE Launch \/ RequestStop \/ (\E sem \in Semaphores : Reset(sem)) \/ UNCHANGED vars
  BY <1>3, <1>4 DEF StaysInChain, Launch, RequestStop, Reset, vars, progress
<1>5. ASSUME NEW w \in Workers, Runs(w) PROVE StaysInChain'
  <2>1. \A v \in Workers \ {w} : at'[v] = at[v]
    BY <1>1, <1>5, OthersStay DEF Types
  <2>2. CASE TryAcquire(w)
    <3> DEFINE t == at[w].work
    <3>1. t \in Works
      BY <1>1, <2>2 DEF WorkInHand, TryAcquire
    <3>2. CASE Short(t) = {}
      <4>1. waiters' = waiters /\ at'[w].blocker = at[w].blocker /\ at[w].pc = "lock"
        BY <1>2, <2>2, <3>2 DEF TryAcquire, WaitAt, WorkerStates
      <4>2. at[w].blocker = Nil
        BY <1>1, <4>1 DEF LocksHeld
      <4> QED BY <1>3, <2>1, <4>1, <4>2 DEF StaysInChain
    <3>3. CASE Short(t) # {}
      <4>1. PICK x \in Short(t) : /\ waiters' = [waiters EXCEPT ![x] = Append(@, t)]
                                  /\ at' = [at EXCEPT ![w].pc = "unlock", ![w].blocker = x]
        BY <2>2, <3>3 DEF TryAcquire, WaitAt
      <4>2. x \in Semaphores
        BY <1>1, <3>1 DEF Short, Asked, Types, AreRequests
      <4>3. /\ Range(waiters'[x]) = Range(waiters[x]) \cup {t}
            /\ \A y \in Semaphores \ {x} : waiters'[y] = waiters[y]
        <5>1. /\ waiters[x] \in Seq(Works) /\ waiters'[x] = Append(waiters[x], t)
              /\ \A y \in Semaphores \ {x} : waiters'[y] = waiters[y]
          BY <1>2, <4>1, <4>2
        <5> QED BY <3>1, <5>1, RangeOfAppend
      <4>4. at'[w].work = t /\ at'[w].blocker = x
        BY <1>2, <4>1 DEF WorkerStates
      <4>5. ASSUME NEW v \in Workers \ {w} PROVE Stays(v)'
        BY <1>3, <2>1, <4>3, <4>5
      <4>6. Stays(w)'
        BY <4>3, <4>4
      <4> QED BY <4>5, <4>6 DEF StaysInChain
    <3> QED BY <3>2, <3>3
  <2>3. CASE Release(w)
    <3>1. PICK sem \in at[w].sems :
            /\ m_lock[sem] = Nil
            /\ waiters' = [waiters EXCEPT ![sem] = SubSeq(@, Len(LetGo(@)) + 1, Len(@))]
      BY <2>3 DEF Release
    <3>2. at[w].pc = "release" /\ at'[w].pc = "release"
      BY <1>2, <2>3 DEF Release, WorkerStates
    <3>3. ASSUME NEW v \in Workers \ {w}, at[v].pc = "unlock", at[v].blocker # Nil
          PROVE  at[v].work \in Range(waiters'[at[v].blocker])
      <4>1. m_lock[at[v].blocker] = v /\ at[v].blocker \in Semaphores
        BY <1>1, <1>3, <3>3 DEF LocksHeld
      <4>2. at[v].blocker # sem
        BY <1>2, <3>1, <4>1
      <4>3. waiters'[at[v].blocker] = waiters[at[v].blocker]
        BY <1>2, <3>1, <4>1, <4>2
      <4> QED BY <1>3, <3>3, <4>3
    <3> QED BY <2>1, <3>2, <3>3 DEF StaysInChain
  <2>4. CASE Unlock(w)
    <3>1. PICK sem \in Semaphores :
            \/ at'[w] = [at[w] EXCEPT !.sems = @ \ {sem}]
            \/ at'[w].pc \in {"idle", "body"}
      BY <1>1, <2>4, UnlockStep DEF Types
    <3>2. waiters' = waiters /\ at[w].pc = "unlock"
      BY <2>4 DEF Unlock
    <3>3. Stays(w)'
      BY <1>2, <1>3, <3>1, <3>2 DEF WorkerStates
    <3> QED BY <1>3, <2>1, <3>2, <3>3 DEF StaysInChain
  <2>5. CASE Skip(w) \/ Take(w) \/ LockNext(w) \/ EndBody(w) \/ Reschedule(w) \/ Finish(w)
    <3>1. waiters' = waiters
      BY <2>5 DEF Skip, Take, LockNext, EndBody, Reschedule, Finish
    <3>2. at'[w].pc # "unlock" \/ at'[w] = at[w]
      BY <1>2, <2>5 DEF Skip, Take, LockNext, EndBody, Reschedule, Finish, Idle, WorkerStates
    <3> QED BY <1>3, <2>1, <3>1, <3>2 DEF StaysInChain
  <2> QED BY <1>5, <2>2, <2>3, <2>4, <2>5 DEF Runs
<1> QED BY <1>4, <1>5 DEF Next

-----------------------------------------------------------------------------
\* No Work waits at a semaphore that has as much as it asks for: no sequence of
\* attempts, releases and resets leaves behind a waiter that could be served.
THEOREM WaiterIsShortHolds == Spec => []WaiterIsShort
<1>1. IInv /\ [Next]_vars => IInv'
  BY TypesKept, WorkInHandKept, LocksHeldKept, WaiterIsShortKept, StaysInChainKept DEF IInv
<1>2. IInv => WaiterIsShort
  BY DEF IInv
<1> QED BY InitHolds, <1>1, <1>2, PTL DEF Spec

\* A Work that has joined a chain is not let go, and so not run or destroyed,
\* before the worker that put it there has stopped reading its requests.
THEOREM StaysInChainHolds == Spec => []StaysInChain
<1>1. IInv /\ [Next]_vars => IInv'
  BY TypesKept, WorkInHandKept, LocksHeldKept, WaiterIsShortKept, StaysInChainKept DEF IInv
<1>2. IInv => StaysInChain
  BY DEF IInv
<1> QED BY InitHolds, <1>1, <1>2, PTL DEF Spec

-----------------------------------------------------------------------------
(* The sums.  The places of a Work add up to one while it is active, and   *)
(* what a semaphore lacks to what the Works that run have taken.  Both are *)
(* sums over sets that are finite because a step adds finitely much; an    *)
(* idle worker has no Work in hand, and only a worker that releases has a  *)
(* list of Works that were let go (HandsFree).                             *)

Progress ==
  /\ m_max_value \in [Semaphores -> Nat] /\ m_value \in [Semaphores -> Nat]
  /\ granted \in [Semaphores -> Nat]
  /\ \A sem \in Semaphores : granted[sem] <= m_max_value[sem]
  /\ queue \in [Works -> Nat]
  /\ stopped \in BOOLEAN
  /\ active \subseteq Works
  /\ rounds \in 0..MaxRounds

HandsFree ==
  \A w \in Workers : /\ at[w].pc = "idle" => at[w].work = Nil
                     /\ at[w].pc # "release" => at[w].chain = <<>>

PlacesFinite ==
  \A t \in Works : /\ IsFiniteSet(InHand(t))
                   /\ IsFiniteSet(Places(waiters, Semaphores, t))
                   /\ IsFiniteSet(Places(Chains, Workers, t))

QuotaFinite == \A sem \in Semaphores : IsFiniteSet(Units(Taken(sem), Workers))

PlacesCounted ==
  \A t \in Works :
    queue[t] + Cardinality(InHand(t))
      + Occurrences(waiters, Semaphores, t) + Occurrences(Chains, Workers, t)
    = (IF t \in active THEN 1 ELSE 0)

QuotaCounted ==
  Balanced => \A sem \in Semaphores : m_value[sem] + InUse(sem) = granted[sem]

CInv ==
  /\ IInv
  /\ Progress
  /\ HandsFree
  /\ PlacesFinite /\ PlacesCounted
  /\ QuotaFinite /\ QuotaCounted

\* When one worker goes on, it may take a Work in hand or put it down.
LEMMA HandsMove ==
  ASSUME NEW CONSTANT t \in Works, NEW w \in Workers, IsFiniteSet(InHand(t)),
         \A v \in Workers \ {w} : at'[v] = at[v]
  PROVE  /\ IsFiniteSet(InHand(t)')
         /\ Cardinality(InHand(t)') = Cardinality(InHand(t))
              - (IF w \in InHand(t) THEN 1 ELSE 0) + (IF w \in InHand(t)' THEN 1 ELSE 0)
<1> DEFINE Rest == InHand(t) \ {w}
<1>1. Rest = InHand(t)' \ {w}
  BY DEF InHand
<1>2. /\ IsFiniteSet(Rest) /\ Cardinality(Rest) \in Nat
      /\ Cardinality(Rest) = Cardinality(InHand(t)) - IF w \in InHand(t) THEN 1 ELSE 0
  <2>1. /\ IsFiniteSet(Rest)
        /\ Cardinality(Rest) = IF w \in InHand(t) THEN Cardinality(InHand(t)) - 1
                               ELSE Cardinality(InHand(t))
    BY FS_RemoveElement
  <2>2. Cardinality(InHand(t)) \in Nat /\ Cardinality(Rest) \in Nat
    BY <2>1, FS_CardinalityType
  <2> HIDE DEF Rest
  <2> QED BY <2>1, <2>2
<1>3. w \notin Rest
  OBVIOUS
<1> HIDE DEF Rest
<1>4. /\ IsFiniteSet(InHand(t)')
      /\ Cardinality(InHand(t)') = Cardinality(Rest) + IF w \in InHand(t)' THEN 1 ELSE 0
  <2>1. CASE w \in InHand(t)'
    <3>1. InHand(t)' = Rest \cup {w}
      BY <1>1, <2>1
    <3> QED BY <1>2, <1>3, <2>1, <3>1, FS_AddElement
  <2>2. CASE w \notin InHand(t)'
    <3>1. InHand(t)' = Rest
      BY <1>1, <2>2
    <3> QED BY <1>2, <2>2, <3>1
  <2> QED BY <2>1, <2>2
<1>5. Cardinality(InHand(t)) \in Nat
  BY FS_CardinalityType
<1> QED BY <1>2, <1>4, <1>5

\* When one worker goes on, its list of Works that were let go may change.
LEMMA ChainsMove ==
  ASSUME NEW CONSTANT t \in Works, NEW w \in Workers, IsFiniteSet(Places(Chains, Workers, t)),
         \A v \in Workers \ {w} : at'[v] = at[v],
         at[w].chain \in Seq(Works), at'[w].chain \in Seq(Works)
  PROVE  /\ IsFiniteSet(Places(Chains, Workers, t)')
         /\ Cardinality(Places(Chains, Workers, t)') = Cardinality(Places(Chains, Workers, t))
              - Cardinality(Indices(at[w].chain, t)) + Cardinality(Indices(at'[w].chain, t))
<1>1. /\ Chains[w] = at[w].chain /\ Chains'[w] = at'[w].chain
      /\ \A v \in Workers \ {w} : Chains'[v] = Chains[v]
  BY DEF Chains
<1>2. IsFiniteSet(Indices(Chains[w], t)) /\ IsFiniteSet(Indices(Chains'[w], t))
  BY <1>1, IndicesFinite
<1> DEFINE f == Chains
           h == Chains'
<1>3. /\ \A v \in Workers \ {w} : h[v] = f[v]
      /\ IsFiniteSet(Indices(f[w], t)) /\ IsFiniteSet(Indices(h[w], t))
      /\ IsFiniteSet(Places(f, Workers, t))
  BY <1>1, <1>2
<1> HIDE DEF f, h
<1>4. /\ IsFiniteSet(Places(h, Workers, t))
      /\ Cardinality(Places(h, Workers, t)) = Cardinality(Places(f, Workers, t))
           - Cardinality(Indices(f[w], t)) + Cardinality(Indices(h[w], t))
  BY <1>3, PlacesUpdate
<1> QED BY <1>1, <1>4 DEF f, h

\* A Work that is somewhere is active, and is nowhere else.
LEMMA ActiveHolds ==
  ASSUME Progress, PlacesFinite, PlacesCounted, NEW t \in Works
  PROVE  /\ Cardinality(InHand(t)) \in Nat /\ Occurrences(waiters, Semaphores, t) \in Nat
         /\ Occurrences(Chains, Workers, t) \in Nat /\ queue[t] \in Nat
         /\ queue[t] >= 1 \/ InHand(t) # {} => t \in active
<1>1. /\ Cardinality(InHand(t)) \in Nat /\ Occurrences(waiters, Semaphores, t) \in Nat
      /\ Occurrences(Chains, Workers, t) \in Nat /\ queue[t] \in Nat
      /\ InHand(t) # {} => Cardinality(InHand(t)) # 0
  BY FS_CardinalityType, FS_EmptySet DEF PlacesFinite, Occurrences, Progress
<1>2. ASSUME queue[t] >= 1 \/ InHand(t) # {} PROVE t \in active
  <2>1. queue[t] + Cardinality(InHand(t))
          + Occurrences(waiters, Semaphores, t) + Occurrences(Chains, Workers, t) # 0
    BY <1>1, <1>2
  <2> QED BY <2>1 DEF PlacesCounted
<1> QED BY <1>1, <1>2

\* Every step keeps the types of what CInv adds; no quota is taken that is not
\* there.
LEMMA ProgressKept == ASSUME CInv, [Next]_vars PROVE Progress'
<1>1. IInv /\ Types /\ WorkInHand /\ Progress
  BY DEF CInv, IInv
<1>2. /\ m_max_value \in [Semaphores -> Nat] /\ m_value \in [Semaphores -> Nat]
      /\ granted \in [Semaphores -> Nat] /\ queue \in [Works -> Nat] /\ active \subseteq Works
      /\ \A sem \in Semaphores : granted[sem] <= m_max_value[sem]
      /\ stopped \in BOOLEAN /\ rounds \in 0..MaxRounds
      /\ AreRequests(acquires) /\ AreRequests(releases) /\ at \in [Workers -> WorkerStates]
  BY <1>1 DEF Progress, Types, AtTypes
<1>3. CASE Launch
  <2>1. rounds' \in 0..MaxRounds
    BY <1>2, <1>3, SemaphoreAssumption DEF Launch
  <2>2. queue' \in [Works -> Nat]
    BY <1>3 DEF Launch
  <2> QED BY <1>2, <1>3, <2>1, <2>2 DEF Launch, Progress, quota
<1>4. CASE RequestStop
  BY <1>2, <1>4 DEF RequestStop, Progress, quota, progress
<1>5. ASSUME NEW sem \in Semaphores, Reset(sem) PROVE Progress'
  <2>1. PICK max \in Capacities : /\ m_max_value' = [m_max_value EXCEPT ![sem] = max]
                                  /\ m_value' = [m_value EXCEPT ![sem] = max]
                                  /\ granted' = [granted EXCEPT ![sem] = max]
    BY <1>5 DEF Reset
  <2>2. max \in Nat
    BY SemaphoreAssumption
  <2>3. /\ m_max_value' \in [Semaphores -> Nat] /\ m_value' \in [Semaphores -> Nat]
        /\ granted' \in [Semaphores -> Nat]
        /\ \A s \in Semaphores : granted'[s] <= m_max_value'[s]
    BY <1>2, <2>1, <2>2
  <2> QED BY <1>2, <1>5, <2>3 DEF Reset, Progress, progress
<1>6. ASSUME NEW w \in Workers, Skip(w) PROVE Progress'
  <2>1. queue' \in [Works -> Nat] /\ active' \subseteq Works
    BY <1>2, <1>6 DEF Skip
  <2> QED BY <1>2, <1>6, <2>1 DEF Skip, Progress, quota
<1>7. ASSUME NEW w \in Workers, Take(w) PROVE Progress'
  <2>1. queue' \in [Works -> Nat]
    BY <1>2, <1>7 DEF Take
  <2> QED BY <1>2, <1>7, <2>1 DEF Take, Progress, quota, progress
<1>8. ASSUME NEW w \in Workers, LockNext(w) \/ Unlock(w) \/ EndBody(w) PROVE Progress'
  BY <1>2, <1>8 DEF LockNext, Unlock, EndBody, Progress, quota, progress
<1>9. ASSUME NEW w \in Workers, TryAcquire(w) PROVE Progress'
  <2> DEFINE t == at[w].work
  <2>1. m_value' \in [Semaphores -> Nat]
    <3>1. CASE Short(t) = {}
      <4>1. m_value' = [sem \in Semaphores |->
                          IF sem \in Asked(t) THEN m_value[sem] - acquires[t][sem] ELSE m_value[sem]]
        BY <1>9, <3>1 DEF TryAcquire, WaitAt
      <4>2. t \in Works
        BY <1>1, <1>9 DEF WorkInHand, TryAcquire
      <4>3. \A sem \in Asked(t) : acquires[t][sem] \in Nat
        BY <1>2, <4>2 DEF AreRequests, Asked
      <4>4. \A sem \in Semaphores : sem \in Asked(t) => acquires[t][sem] <= m_value[sem]
        BY <1>2, <3>1, <4>3 DEF Short
      <4> QED BY <1>2, <4>1, <4>3, <4>4
    <3>2. CASE Short(t) # {}
      BY <1>2, <1>9, <3>2 DEF TryAcquire
    <3> QED BY <3>1, <3>2
  <2> QED BY <1>2, <1>9, <2>1 DEF TryAcquire, Progress, progress
<1>10. ASSUME NEW w \in Workers, Release(w) PROVE Progress'
  <2>1. PICK sem \in at[w].sems : m_value' = [m_value EXCEPT ![sem] = @ + releases[at[w].work][sem]]
    BY <1>10 DEF Release
  <2>2. sem \in Semaphores /\ releases[at[w].work][sem] \in Nat
    BY <1>1, <1>2, <1>10 DEF WorkerStates, WorkInHand, Release, AreRequests
  <2>3. m_value' \in [Semaphores -> Nat]
    BY <1>2, <2>1, <2>2
  <2> QED BY <1>2, <1>10, <2>3 DEF Release, Progress, progress
<1>11. ASSUME NEW w \in Workers, Reschedule(w) PROVE Progress'
  <2>1. at[w].chain \in Seq(Works) /\ at[w].chain # <<>>
    BY <1>2, <1>11 DEF Reschedule, WorkerStates
  <2>2. Head(at[w].chain) \in Works
    BY <2>1, HeadTailProperties
  <2>3. queue' \in [Works -> Nat]
    BY <1>2, <1>11, <2>2 DEF Reschedule
  <2> QED BY <1>2, <1>11, <2>3 DEF Reschedule, Progress, quota, progress
<1>12. ASSUME NEW w \in Workers, Finish(w) PROVE Progress'
  BY <1>2, <1>12 DEF Finish, Progress, quota
<1>13. CASE UNCHANGED vars
  BY <1>2, <1>13 DEF vars, Progress, quota, progress
<1> QED BY <1>3, <1>4, <1>5, <1>6, <1>7, <1>8, <1>9, <1>10, <1>11, <1>12, <1>13 DEF Next, Runs

\* Every step keeps HandsFree.
LEMMA HandsFreeKept == ASSUME CInv, [Next]_vars PROVE HandsFree'
<1>1. Types /\ WorkInHand /\ HandsFree
  BY DEF CInv, IInv
<1>2. at \in [Workers -> WorkerStates] /\ Nil \notin Works
  BY <1>1, SemaphoreAssumption DEF Types, AtTypes
<1>3. CASE Launch \/ RequestStop \/ (\E sem \in Semaphores : Reset(sem)) \/ UNCHANGED vars
  BY <1>1, <1>3 DEF HandsFree, Launch, RequestStop, Reset, vars, progress
<1>4. ASSUME NEW w \in Workers, Runs(w) PROVE HandsFree'
  <2>1. at'[w].pc = "idle" => at'[w].work = Nil
    <3>1. CASE Skip(w) \/ Take(w) \/ LockNext(w) \/ TryAcquire(w)
      BY <1>1, <1>2, <3>1
         DEF HandsFree, Skip, Take, LockNext, TryAcquire, WaitAt, WorkerStates, progress
    <3>2. CASE Unlock(w)
      BY <1>2, <3>2 DEF Unlock, WorkerStates, Idle
    <3>3. CASE EndBody(w) \/ Release(w) \/ Reschedule(w)
      <4>1. at'[w].pc = "release"
        BY <1>2, <3>3, ZenonT(30) DEF EndBody, Release, Reschedule, WorkerStates
      <4> QED BY <4>1
    <3>4. CASE Finish(w)
      BY <1>2, <3>4 DEF Finish, Idle
    <3> QED BY <1>4, <3>1, <3>2, <3>3, <3>4 DEF Runs
  <2>2. at'[w].pc # "release" => at'[w].chain = <<>>
    <3>1. CASE Skip(w) \/ Take(w) \/ LockNext(w) \/ TryAcquire(w)
      BY <1>1, <1>2, <3>1
         DEF HandsFree, Skip, Take, LockNext, TryAcquire, WaitAt, WorkerStates, progress
    <3>2. CASE Unlock(w)
      BY <1>1, <1>2, <3>2 DEF HandsFree, Unlock, WorkerStates, Idle
    <3>3. CASE EndBody(w) \/ Release(w) \/ Reschedule(w)
      BY <1>2, <3>3, ZenonT(30) DEF EndBody, Release, Reschedule, WorkerStates
    <3>4. CASE Finish(w)
      BY <1>2, <3>4 DEF Finish, Idle
    <3> QED BY <1>4, <3>1, <3>2, <3>3, <3>4 DEF Runs
  <2> QED BY <1>1, <1>4, <2>1, <2>2, OthersStay DEF HandsFree, Types
<1> QED BY <1>3, <1>4 DEF Next

\* What PlacesCounted adds up, by name.
Held(t) == Cardinality(InHand(t))
Waiting(t) == Occurrences(waiters, Semaphores, t)
LetGone(t) == Occurrences(Chains, Workers, t)
Due(t) == IF t \in active THEN 1 ELSE 0
FinitePlaces(t) ==
  /\ IsFiniteSet(InHand(t)) /\ IsFiniteSet(Places(waiters, Semaphores, t))
  /\ IsFiniteSet(Places(Chains, Workers, t))
Accounted(t) == FinitePlaces(t) /\ queue[t] + Held(t) + Waiting(t) + LetGone(t) = Due(t)

\* Numbers that add up to none are none.
LEMMA NothingLeft ==
  ASSUME NEW q \in Nat, NEW h \in Nat, NEW v \in Nat, NEW c \in Nat, q + h + v + c = 0
  PROVE  h = 0 /\ v = 0 /\ c = 0
OBVIOUS

\* A step moves a Work from one place to another, ends it, or lets all begin.
LEMMA PlacesStep == ASSUME CInv, [Next]_vars PROVE PlacesFinite' /\ PlacesCounted'
<1>1. /\ Types /\ WorkInHand /\ LocksHeld /\ HandsFree /\ Progress /\ PlacesFinite /\ PlacesCounted
  BY DEF CInv, IInv
<1>2. /\ at \in [Workers -> WorkerStates] /\ queue \in [Works -> Nat]
      /\ waiters \in [Semaphores -> Seq(Works)] /\ active \subseteq Works /\ Nil \notin Works
      /\ Nil \notin Semaphores
  BY <1>1, SemaphoreAssumption DEF Types, AtTypes, Progress
<1> DEFINE Goal == PlacesFinite' /\ PlacesCounted'
<1>3. ASSUME NEW t \in Works
      PROVE  /\ Held(t) \in Nat /\ Waiting(t) \in Nat /\ LetGone(t) \in Nat /\ queue[t] \in Nat
             /\ Accounted(t) /\ FinitePlaces(t)
             /\ queue[t] + Held(t) + Waiting(t) + LetGone(t) = Due(t)
             /\ queue[t] >= 1 \/ InHand(t) # {} => t \in active
  BY <1>1, ActiveHolds
     DEF PlacesFinite, PlacesCounted, Accounted, FinitePlaces, Held, Waiting, LetGone, Due
<1>4. (\A t \in Works : Accounted(t)') => Goal
  BY DEF PlacesFinite, PlacesCounted, Accounted, FinitePlaces, Held, Waiting, LetGone, Due
<1>5. ASSUME UNCHANGED <<at, waiters>>, NEW t \in Works
      PROVE  FinitePlaces(t)' /\ UNCHANGED <<Held(t), Waiting(t), LetGone(t)>>
  <2>1. FinitePlaces(t)
    BY <1>3
  <2> QED BY <1>5, <2>1 DEF FinitePlaces, Held, Waiting, LetGone, InHand, Chains, Occurrences
<1> HIDE DEF Goal
<1>6. CASE Launch
  <2>1. ASSUME NEW t \in Works PROVE Accounted(t)'
    <3>1. Due(t) = 0 /\ Due(t)' = 1 /\ queue'[t] = 1
      BY <1>6 DEF Launch, Due
    <3>2. FinitePlaces(t)' /\ Held(t)' = Held(t) /\ Waiting(t)' = Waiting(t) /\ LetGone(t)' = LetGone(t)
      BY <1>5, <1>6 DEF Launch
    <3>3. Held(t) \in Nat /\ Waiting(t) \in Nat /\ LetGone(t) \in Nat /\ queue[t] \in Nat
      BY <1>3
    <3>4. queue[t] + Held(t) + Waiting(t) + LetGone(t) = 0
      <4>1. queue[t] + Held(t) + Waiting(t) + LetGone(t) = Due(t)
        BY <1>3
      <4> QED BY <3>1, <4>1
    <3>5. Held(t) = 0 /\ Waiting(t) = 0 /\ LetGone(t) = 0
      BY <3>3, <3>4, NothingLeft
    <3>6. Held(t)' = 0 /\ Waiting(t)' = 0 /\ LetGone(t)' = 0
      BY <3>2, <3>5
    <3> QED BY <3>1, <3>2, <3>6 DEF Accounted
  <2> QED BY <1>4, <2>1 DEF Goal
<1>7. CASE RequestStop \/ (\E sem \in Semaphores : Reset(sem)) \/ UNCHANGED vars
  <2>1. UNCHANGED <<at, queue, waiters, active>>
    BY <1>7 DEF RequestStop, Reset, vars, progress
  <2>2. ASSUME NEW t \in Works PROVE Accounted(t)'
    <3>1. /\ FinitePlaces(t)' /\ Held(t)' = Held(t) /\ Waiting(t)' = Waiting(t) /\ LetGone(t)' = LetGone(t)
          /\ queue'[t] = queue[t] /\ Due(t)' = Due(t)
      BY <1>5, <2>1 DEF Due
    <3>2. Accounted(t)
      BY <1>3
    <3> QED BY <3>1, <3>2 DEF Accounted
  <2> QED BY <1>4, <2>2 DEF Goal
<1>8. ASSUME NEW w \in Workers, Skip(w) PROVE Goal
  <2>1. PICK u \in Works : /\ queue[u] > 0 /\ queue' = [queue EXCEPT ![u] = @ - 1]
                           /\ active' = active \ {u}
    BY <1>8 DEF Skip
  <2>2. u \in active
    BY <1>3, <2>1
  <2>3. ASSUME NEW t \in Works PROVE Accounted(t)'
    <3>1. FinitePlaces(t)' /\ Held(t)' = Held(t) /\ Waiting(t)' = Waiting(t) /\ LetGone(t)' = LetGone(t)
      BY <1>5, <1>8 DEF Skip
    <3>2. queue'[t] = queue[t] - (IF t = u THEN 1 ELSE 0) /\ Due(t)' = Due(t) - (IF t = u THEN 1 ELSE 0)
      BY <1>2, <2>1, <2>2 DEF Due
    <3> QED BY <1>3, <3>1, <3>2 DEF Accounted
  <2> QED BY <1>4, <2>3
<1>9. ASSUME NEW w \in Workers, Runs(w), NEW t \in Works
      PROVE  /\ IsFiniteSet(InHand(t)') /\ IsFiniteSet(Places(Chains, Workers, t)')
             /\ Held(t)' = Held(t) - (IF w \in InHand(t) THEN 1 ELSE 0) + (IF w \in InHand(t)' THEN 1 ELSE 0)
             /\ LetGone(t)' = LetGone(t) - Cardinality(Indices(at[w].chain, t))
                             + Cardinality(Indices(at'[w].chain, t))
             /\ Cardinality(Indices(at[w].chain, t)) \in Nat
  <2>1. \A v \in Workers \ {w} : at'[v] = at[v]
    BY <1>1, <1>9, OthersStay DEF Types
  <2>2. at[w].chain \in Seq(Works)
    BY <1>2 DEF WorkerStates
  <2>3. at'[w].chain \in Seq(Works)
    <3>1. AtTypes'
      BY <1>9, TypesKept DEF CInv, Types, Next
    <3> QED BY <3>1 DEF AtTypes, WorkerStates
  <2>4. Cardinality(Indices(at[w].chain, t)) \in Nat
    BY <2>2, IndicesFinite
  <2>5. /\ IsFiniteSet(InHand(t)')
        /\ Held(t)' = Held(t) - (IF w \in InHand(t) THEN 1 ELSE 0) + (IF w \in InHand(t)' THEN 1 ELSE 0)
    BY <1>3, <2>1, HandsMove DEF FinitePlaces, Held
  <2>6. /\ IsFiniteSet(Places(Chains, Workers, t)')
        /\ LetGone(t)' = LetGone(t) - Cardinality(Indices(at[w].chain, t)) + Cardinality(Indices(at'[w].chain, t))
    BY <1>3, <2>1, <2>2, <2>3, ChainsMove DEF FinitePlaces, LetGone, Occurrences
  <2> QED BY <2>4, <2>5, <2>6
<1>10. ASSUME NEW w \in Workers, Runs(w), UNCHANGED <<queue, waiters, active>>,
              \A t \in Works : w \in InHand(t)' <=> w \in InHand(t), at'[w].chain = at[w].chain
       PROVE  Goal
  <2>1. ASSUME NEW t \in Works PROVE Accounted(t)'
    <3>1. IsFiniteSet(InHand(t)') /\ IsFiniteSet(Places(Chains, Workers, t)') /\ Held(t)' = Held(t)
      <4>1. Held(t) \in Nat /\ (w \in InHand(t)' <=> w \in InHand(t))
        BY <1>3, <1>10
      <4>2. /\ IsFiniteSet(InHand(t)') /\ IsFiniteSet(Places(Chains, Workers, t)')
            /\ Held(t)' = Held(t) - (IF w \in InHand(t) THEN 1 ELSE 0) + (IF w \in InHand(t)' THEN 1 ELSE 0)
        BY <1>9, <1>10
      <4> QED BY <4>1, <4>2
    <3>2. LetGone(t)' = LetGone(t)
      BY <1>3, <1>9, <1>10
    <3>3. IsFiniteSet(Places(waiters, Semaphores, t)') /\ Waiting(t)' = Waiting(t)
      BY <1>3, <1>10 DEF FinitePlaces, Waiting, Occurrences
    <3>4. queue'[t] = queue[t] /\ Due(t)' = Due(t)
      BY <1>10 DEF Due
    <3> QED BY <1>3, <3>1, <3>2, <3>3, <3>4 DEF Accounted, FinitePlaces
  <2> QED BY <1>4, <2>1
<1>11. ASSUME NEW w \in Workers, LockNext(w) \/ EndBody(w) PROVE Goal
  <2>1. /\ at'[w].work = at[w].work /\ at'[w].blocker = at[w].blocker /\ at'[w].chain = at[w].chain
        /\ at[w].pc # "unlock" /\ at'[w].pc # "unlock" /\ UNCHANGED <<queue, waiters, active>>
    BY <1>2, <1>11 DEF LockNext, EndBody, WorkerStates, progress
  <2>2. \A t \in Works : w \in InHand(t)' <=> w \in InHand(t)
    BY <2>1 DEF InHand
  <2> QED BY <1>10, <1>11, <2>1, <2>2 DEF Runs
<1>12. ASSUME NEW w \in Workers, Unlock(w) PROVE Goal
  <2>1. PICK sem \in Semaphores :
          at' = [at EXCEPT ![w] =
                   IF at[w].sems # {sem} THEN [at[w] EXCEPT !.sems = @ \ {sem}]
                   ELSE IF at[w].blocker = Nil
                        THEN [Idle EXCEPT !.pc = "body", !.work = at[w].work]
                        ELSE Idle]
    BY <1>12 DEF Unlock
  <2>2. at[w].pc = "unlock" /\ at[w].chain = <<>> /\ UNCHANGED <<queue, waiters, active>>
    BY <1>1, <1>12 DEF Unlock, HandsFree, progress
  <2>3. \/ at'[w] = [at[w] EXCEPT !.sems = @ \ {sem}]
        \/ at[w].blocker = Nil /\ at'[w] = [Idle EXCEPT !.pc = "body", !.work = at[w].work]
        \/ at[w].blocker # Nil /\ at'[w] = Idle
    BY <1>2, <2>1
  <2>4. /\ at'[w].chain = at[w].chain
        /\ \/ at'[w].work = at[w].work /\ at'[w].blocker = at[w].blocker
              /\ (at'[w].pc = "unlock" \/ at[w].blocker = Nil)
           \/ at[w].blocker # Nil /\ at'[w].work = Nil
    <3>1. CASE at'[w] = [at[w] EXCEPT !.sems = @ \ {sem}]
      BY <1>2, <2>2, <3>1 DEF WorkerStates
    <3>2. CASE at[w].blocker = Nil /\ at'[w] = [Idle EXCEPT !.pc = "body", !.work = at[w].work]
      BY <2>2, <3>2 DEF Idle
    <3>3. CASE at[w].blocker # Nil /\ at'[w] = Idle
      BY <2>2, <3>3 DEF Idle
    <3> QED BY <2>3, <3>1, <3>2, <3>3
  <2>5. \A t \in Works : w \in InHand(t)' <=> w \in InHand(t)
    BY <1>2, <2>2, <2>4 DEF InHand
  <2> QED BY <1>10, <1>12, <2>2, <2>4, <2>5 DEF Runs
<1>13. ASSUME NEW w \in Workers, Take(w) PROVE Goal
  <2>1. PICK u \in Works :
          /\ queue[u] > 0 /\ queue' = [queue EXCEPT ![u] = @ - 1]
          /\ at' = [at EXCEPT ![w].pc = IF Asked(u) = {} THEN "body" ELSE "lock", ![w].work = u]
    BY <1>13 DEF Take
  <2>2. /\ at[w].work = Nil /\ at'[w].work = u /\ at'[w].pc # "unlock" /\ at'[w].chain = at[w].chain
        /\ UNCHANGED <<waiters, active>>
    BY <1>1, <1>2, <1>13, <2>1 DEF Take, HandsFree, WorkerStates, progress
  <2>3. ASSUME NEW t \in Works PROVE Accounted(t)'
    <3>1. w \notin InHand(t) /\ (w \in InHand(t)' <=> t = u)
      BY <1>2, <2>2 DEF InHand
    <3>2. /\ IsFiniteSet(InHand(t)') /\ IsFiniteSet(Places(Chains, Workers, t)')
          /\ Held(t)' = Held(t) + IF t = u THEN 1 ELSE 0
      BY <1>3, <1>9, <1>13, <3>1 DEF Runs
    <3>3. LetGone(t)' = LetGone(t)
      BY <1>3, <1>9, <1>13, <2>2 DEF Runs
    <3>4. /\ IsFiniteSet(Places(waiters, Semaphores, t)') /\ Waiting(t)' = Waiting(t) /\ Due(t)' = Due(t)
          /\ queue'[t] = queue[t] - IF t = u THEN 1 ELSE 0
      BY <1>2, <1>3, <2>1, <2>2 DEF FinitePlaces, Waiting, Occurrences, Due
    <3> QED BY <1>3, <3>1, <3>2, <3>3, <3>4 DEF Accounted, FinitePlaces
  <2> QED BY <1>4, <2>3
<1>14. ASSUME NEW w \in Workers, TryAcquire(w) PROVE Goal
  <2> DEFINE u == at[w].work
  <2>1. u \in Works /\ at[w].pc = "lock" /\ at[w].blocker = Nil /\ UNCHANGED <<queue, active>>
    BY <1>1, <1>14 DEF WorkInHand, LocksHeld, TryAcquire, progress
  <2>2. CASE Short(u) = {}
    <3>1. at' = [at EXCEPT ![w].pc = "unlock"] /\ UNCHANGED waiters
      BY <1>14, <2>2 DEF TryAcquire, WaitAt
    <3>2. /\ at'[w].work = at[w].work /\ at'[w].blocker = Nil /\ at'[w].chain = at[w].chain
      BY <1>2, <2>1, <3>1 DEF WorkerStates
    <3>3. \A t \in Works : w \in InHand(t)' <=> w \in InHand(t)
      BY <2>1, <3>2 DEF InHand
    <3> QED BY <1>10, <1>14, <2>1, <3>1, <3>2, <3>3 DEF Runs
  <2>3. CASE Short(u) # {}
    <3>1. PICK sem \in Short(u) : /\ waiters' = [waiters EXCEPT ![sem] = Append(@, u)]
                                  /\ at' = [at EXCEPT ![w].pc = "unlock", ![w].blocker = sem]
      BY <1>14, <2>3 DEF TryAcquire, WaitAt
    <3>2. sem \in Semaphores
      BY <1>1, <2>1, <3>1 DEF Short, Asked, Types, AreRequests
    <3>3. /\ at'[w].pc = "unlock" /\ at'[w].blocker = sem /\ at'[w].chain = at[w].chain
      BY <1>2, <3>1, <3>2 DEF WorkerStates
    <3>4. ASSUME NEW t \in Works PROVE Accounted(t)'
      <4>1. (w \in InHand(t) <=> t = u) /\ w \notin InHand(t)'
        BY <1>2, <2>1, <3>2, <3>3 DEF InHand
      <4>2. /\ IsFiniteSet(InHand(t)') /\ IsFiniteSet(Places(Chains, Workers, t)')
            /\ Held(t)' = Held(t) - IF t = u THEN 1 ELSE 0
        BY <1>3, <1>9, <1>14, <4>1 DEF Runs
      <4>3. LetGone(t)' = LetGone(t)
        BY <1>3, <1>9, <1>14, <3>3 DEF Runs
      <4>4. IsFiniteSet(Places(waiters, Semaphores, t)') /\ Waiting(t)' = Waiting(t) + IF t = u THEN 1 ELSE 0
        <5> DEFINE g == waiters'
        <5>1. /\ \A s \in Semaphores \ {sem} : g[s] = waiters[s]
              /\ waiters[sem] \in Seq(Works) /\ Append(waiters[sem], u) = g[sem]
          BY <1>2, <3>1, <3>2
        <5> HIDE DEF g
        <5>2. /\ IsFiniteSet(Places(g, Semaphores, t))
              /\ Cardinality(Places(g, Semaphores, t)) =
                   Cardinality(Places(waiters, Semaphores, t)) + IF u = t THEN 1 ELSE 0
          <6>1. IsFiniteSet(Places(waiters, Semaphores, t))
            BY <1>3 DEF FinitePlaces
          <6> QED BY <2>1, <3>2, <5>1, <6>1, PlacesAppend, SMTT(30)
        <5> QED BY <5>2 DEF g, Waiting, Occurrences
      <4>5. queue'[t] = queue[t] /\ Due(t)' = Due(t)
        BY <2>1 DEF Due
      <4> QED BY <1>3, <4>1, <4>2, <4>3, <4>4, <4>5 DEF Accounted, FinitePlaces
    <3> QED BY <1>4, <3>4
  <2> QED BY <2>2, <2>3
<1>15. ASSUME NEW w \in Workers, Release(w) PROVE Goal
  <2>1. PICK sem \in at[w].sems :
          /\ waiters' = [waiters EXCEPT ![sem] = SubSeq(@, Len(@) + 1, Len(@))]
          /\ at' = [at EXCEPT ![w].sems = @ \ {sem}, ![w].chain = @ \o waiters[sem]]
    BY <1>15 DEF Release, LetGo
  <2>2. /\ sem \in Semaphores /\ waiters[sem] \in Seq(Works) /\ at[w].chain \in Seq(Works)
        /\ at[w].pc = "release" /\ UNCHANGED <<queue, active>>
    BY <1>2, <1>15, <2>1 DEF WorkerStates, Release, progress
  <2>3. /\ at'[w].work = at[w].work /\ at'[w].pc = "release"
        /\ at'[w].chain = at[w].chain \o waiters[sem]
    BY <1>2, <2>1, <2>2 DEF WorkerStates
  <2>4. /\ waiters'[sem] = <<>> /\ \A s \in Semaphores \ {sem} : waiters'[s] = waiters[s]
    <3>1. waiters'[sem] = SubSeq(waiters[sem], Len(waiters[sem]) + 1, Len(waiters[sem]))
      BY <1>2, <2>1, <2>2
    <3>2. Len(waiters[sem]) \in Nat
      BY <2>2, LenProperties
    <3>3. Len(waiters[sem]) < Len(waiters[sem]) + 1
      BY <3>2
    <3> QED BY <1>2, <2>1, <2>2, <3>1, <3>2
  <2>5. ASSUME NEW t \in Works PROVE Accounted(t)'
    <3> DEFINE n == Cardinality(Indices(waiters[sem], t))
               c == Cardinality(Indices(at[w].chain, t))
    <3>1. n \in Nat /\ c \in Nat
      BY <2>2, IndicesFinite
    <3>2. Cardinality(Indices(at'[w].chain, t)) = c + n
      <4>1. Cardinality(Indices(at[w].chain \o waiters[sem], t)) = c + n
        BY <2>2, IndicesOfConcat
      <4> QED BY <2>3, <4>1
    <3>3. IsFiniteSet(Places(waiters, Semaphores, t)') /\ Waiting(t)' = Waiting(t) - n
      <4> DEFINE g == waiters'
      <4>1. /\ \A s \in Semaphores \ {sem} : g[s] = waiters[s]
            /\ IsFiniteSet(Indices(waiters[sem], t))
        BY <2>2, <2>4, IndicesFinite
      <4>2. IsFiniteSet(Indices(g[sem], t)) /\ Cardinality(Indices(g[sem], t)) = 0
        <5>1. Indices(g[sem], t) = {}
          BY <2>4, IndicesOfEmpty
        <5> QED BY <5>1, FS_EmptySet
      <4> HIDE DEF g, n
      <4>3. /\ IsFiniteSet(Places(g, Semaphores, t))
            /\ Cardinality(Places(g, Semaphores, t)) = Cardinality(Places(waiters, Semaphores, t))
                 - Cardinality(Indices(waiters[sem], t)) + Cardinality(Indices(g[sem], t))
        <5>1. IsFiniteSet(Places(waiters, Semaphores, t))
          BY <1>3 DEF FinitePlaces
        <5> QED BY <2>2, <4>1, <4>2, <5>1, PlacesUpdate
      <4>4. Cardinality(Places(g, Semaphores, t)) = Waiting(t) - n + 0
        BY <4>2, <4>3 DEF n, Waiting, Occurrences
      <4>5. Cardinality(Places(g, Semaphores, t)) = Waiting(t) - n
        BY <1>3, <3>1, <4>4
      <4> QED BY <4>3, <4>5 DEF g, Waiting, Occurrences
    <3>4. w \in InHand(t)' <=> w \in InHand(t)
      BY <2>2, <2>3 DEF InHand
    <3>5. /\ IsFiniteSet(InHand(t)') /\ IsFiniteSet(Places(Chains, Workers, t)')
          /\ Held(t)' = Held(t)
      BY <1>3, <1>9, <1>15, <3>4 DEF Runs
    <3> HIDE DEF n
    <3>6. LetGone(t)' = LetGone(t) + n
      <4>1. LetGone(t)' = LetGone(t) - c + Cardinality(Indices(at'[w].chain, t))
        BY <1>9, <1>15 DEF Runs
      <4> HIDE DEF c
      <4> QED BY <1>3, <3>1, <3>2, <4>1
    <3>7. queue'[t] = queue[t] /\ Due(t)' = Due(t)
      BY <2>2 DEF Due
    <3> QED BY <1>3, <3>1, <3>3, <3>5, <3>6, <3>7 DEF Accounted, FinitePlaces
  <2> QED BY <1>4, <2>5
<1>16. ASSUME NEW w \in Workers, Reschedule(w) PROVE Goal
  <2> DEFINE u == Head(at[w].chain)
  <2>1. /\ at[w].chain \in Seq(Works) /\ at[w].chain # <<>> /\ at[w].pc = "release"
        /\ at' = [at EXCEPT ![w].chain = Tail(@)] /\ queue' = [queue EXCEPT ![u] = @ + 1]
        /\ UNCHANGED <<waiters, active>>
    BY <1>2, <1>16 DEF WorkerStates, Reschedule, progress
  <2>2. u \in Works
    BY <2>1, HeadTailProperties
  <2>3. at'[w].work = at[w].work /\ at'[w].pc = "release" /\ at'[w].chain = Tail(at[w].chain)
    BY <1>2, <2>1 DEF WorkerStates
  <2>4. ASSUME NEW t \in Works PROVE Accounted(t)'
    <3> DEFINE c == Cardinality(Indices(at[w].chain, t))
    <3>1. c \in Nat
      BY <2>1, IndicesFinite
    <3>2. Cardinality(Indices(at'[w].chain, t)) = c - IF u = t THEN 1 ELSE 0
      <4>1. Cardinality(Indices(Tail(at[w].chain), t)) = c - IF u = t THEN 1 ELSE 0
        BY <2>1, IndicesOfTail
      <4> QED BY <2>3, <4>1
    <3>3. w \in InHand(t)' <=> w \in InHand(t)
      BY <2>1, <2>3 DEF InHand
    <3>4. /\ IsFiniteSet(InHand(t)') /\ IsFiniteSet(Places(Chains, Workers, t)')
          /\ Held(t)' = Held(t)
      BY <1>3, <1>9, <1>16, <3>3 DEF Runs
    <3>5. LetGone(t)' = LetGone(t) - IF u = t THEN 1 ELSE 0
      <4>1. LetGone(t)' = LetGone(t) - c + Cardinality(Indices(at'[w].chain, t))
        BY <1>9, <1>16 DEF Runs
      <4> HIDE DEF c, u
      <4> QED BY <1>3, <3>1, <3>2, <4>1
    <3>6. IsFiniteSet(Places(waiters, Semaphores, t)') /\ Waiting(t)' = Waiting(t) /\ Due(t)' = Due(t)
      BY <1>3, <2>1 DEF FinitePlaces, Waiting, Occurrences, Due
    <3>7. queue'[t] = queue[t] + IF u = t THEN 1 ELSE 0
      BY <1>2, <2>1, <2>2
    <3> HIDE DEF u
    <3> QED BY <1>3, <3>4, <3>5, <3>6, <3>7 DEF Accounted, FinitePlaces
  <2> QED BY <1>4, <2>4
<1>17. ASSUME NEW w \in Workers, Finish(w) PROVE Goal
  <2> DEFINE u == at[w].work
  <2>1. /\ at[w].pc = "release" /\ at[w].chain = <<>> /\ at'[w] = Idle /\ active' = active \ {u}
        /\ UNCHANGED <<queue, waiters>> /\ u \in Works
    BY <1>1, <1>2, <1>17 DEF Finish, WorkInHand
  <2>2. at'[w].work = Nil /\ at'[w].chain = at[w].chain
    BY <2>1 DEF Idle
  <2>3. \A t \in Works : (w \in InHand(t) <=> t = u) /\ w \notin InHand(t)'
    BY <1>2, <2>1, <2>2 DEF InHand
  <2>4. u \in active
    BY <1>3, <2>1, <2>3
  <2>5. ASSUME NEW t \in Works PROVE Accounted(t)'
    <3>1. /\ IsFiniteSet(InHand(t)') /\ IsFiniteSet(Places(Chains, Workers, t)')
          /\ Held(t)' = Held(t) - IF t = u THEN 1 ELSE 0
      BY <1>3, <1>9, <1>17, <2>3 DEF Runs
    <3>2. LetGone(t)' = LetGone(t)
      BY <1>3, <1>9, <1>17, <2>2 DEF Runs
    <3>3. /\ IsFiniteSet(Places(waiters, Semaphores, t)') /\ Waiting(t)' = Waiting(t) /\ queue'[t] = queue[t]
          /\ Due(t)' = Due(t) - IF t = u THEN 1 ELSE 0
      BY <1>3, <2>1, <2>4 DEF FinitePlaces, Waiting, Occurrences, Due
    <3> HIDE DEF u
    <3> QED BY <1>3, <3>1, <3>2, <3>3 DEF Accounted, FinitePlaces
  <2> QED BY <1>4, <2>5
<1>18. ASSUME NEW w \in Workers, Runs(w) PROVE Goal
  BY <1>8, <1>11, <1>12, <1>13, <1>14, <1>15, <1>16, <1>17, <1>18 DEF Runs
<1>19. Goal
  BY <1>6, <1>7, <1>18 DEF Next, Goal
<1> QED BY <1>19 DEF Goal

\* What the Work of a worker has of a semaphore is a number.
LEMMA TakenIsNat ==
  ASSUME Types, NEW CONSTANT sem \in Semaphores, NEW w \in Workers
  PROVE  Taken(sem)[w] \in Nat
<1>1. at[w].work \in Works \cup {Nil} /\ AreRequests(acquires)
  BY DEF Types, AtTypes, WorkerStates
<1>2. at[w].work # Nil /\ sem \in Asked(at[w].work) => acquires[at[w].work][sem] \in Nat
  BY <1>1 DEF AreRequests, Asked
<1> QED BY <1>2 DEF Taken

\* When one worker goes on, what is in use changes by what its Work has.
LEMMA QuotaMove ==
  ASSUME Types, Types', QuotaFinite, NEW CONSTANT sem \in Semaphores, NEW w \in Workers,
         UNCHANGED requests, \A v \in Workers \ {w} : at'[v] = at[v]
  PROVE  /\ IsFiniteSet(Units(Taken(sem), Workers))'
         /\ InUse(sem)' = InUse(sem) - Taken(sem)[w] + Taken(sem)'[w]
<1>1. Taken(sem)[w] \in Nat /\ Taken(sem)'[w] \in Nat
  <2>1. Taken(sem)[w] \in Nat
    BY TakenIsNat
  <2>2. at'[w].work \in Works \cup {Nil} /\ AreRequests(acquires')
    BY DEF Types, AtTypes, WorkerStates
  <2>3. at'[w].work # Nil /\ sem \in DOMAIN acquires'[at'[w].work]
          => acquires'[at'[w].work][sem] \in Nat
    BY <2>2 DEF AreRequests
  <2> QED BY <2>1, <2>3 DEF Taken, Asked
<1>2. \A v \in Workers \ {w} : Taken(sem)'[v] = Taken(sem)[v]
  BY DEF Taken, Asked, requests
<1>3. IsFiniteSet(Units(Taken(sem), Workers))
  BY DEF QuotaFinite
<1> DEFINE f == Taken(sem)
           h == Taken(sem)'
<1> HIDE DEF f, h
<1>4. /\ IsFiniteSet(Units(h, Workers))
      /\ Cardinality(Units(h, Workers)) = Cardinality(Units(f, Workers)) - f[w] + h[w]
  <2>1. /\ \A v \in Workers \ {w} : h[v] = f[v]
        /\ f[w] \in Nat /\ h[w] \in Nat /\ IsFiniteSet(Units(f, Workers))
    BY <1>1, <1>2, <1>3 DEF f, h
  <2> QED BY <2>1, UnitsUpdate
<1> QED BY <1>4 DEF f, h, InUse, Total

\* What one gives and another gets leaves the sum as it was.
LEMMA SumKept ==
  ASSUME NEW v \in Nat, NEW u \in Nat, NEW a \in Nat, NEW b \in Nat, NEW vv \in Nat, NEW uu,
         uu = u - a + b, vv + b = v + a
  PROVE  vv + uu = v + u
OBVIOUS

\* Quota is taken when all of it is there, and what is returned was taken.
LEMMA QuotaStep == ASSUME CInv, [Next]_vars PROVE QuotaFinite' /\ QuotaCounted'
<1>1. /\ Types /\ WorkInHand /\ LocksHeld /\ HandsFree /\ Progress /\ QuotaFinite /\ QuotaCounted
      /\ Types'
  BY TypesKept DEF CInv, IInv
<1>2. /\ at \in [Workers -> WorkerStates] /\ m_value \in [Semaphores -> Nat]
      /\ granted \in [Semaphores -> Nat] /\ Nil \notin Works /\ Nil \notin Semaphores
      /\ AreRequests(acquires) /\ AreRequests(releases)
  BY <1>1, SemaphoreAssumption DEF Types, AtTypes, Progress
<1>3. UNCHANGED requests
  BY DEF Next, Runs, Launch, RequestStop, Reset, Skip, Take, LockNext, TryAcquire, Unlock,
         EndBody, Release, Reschedule, Finish, vars
<1>4. ASSUME NEW CONSTANT sem \in Semaphores
      PROVE  /\ InUse(sem) \in Nat /\ m_value[sem] \in Nat /\ granted[sem] \in Nat
             /\ Balanced => m_value[sem] + InUse(sem) = granted[sem]
  BY <1>1, <1>2, FS_CardinalityType DEF QuotaFinite, QuotaCounted, InUse, Total
<1>5. ASSUME UNCHANGED at PROVE QuotaFinite' /\ \A sem \in Semaphores : InUse(sem)' = InUse(sem)
  <2>1. \A sem \in Semaphores : Taken(sem)' = Taken(sem)
    BY <1>3, <1>5 DEF Taken, Asked, requests
  <2> QED BY <1>1, <2>1 DEF QuotaFinite, InUse
<1>6. CASE UNCHANGED <<at, quota>>
  BY <1>1, <1>3, <1>5, <1>6 DEF QuotaCounted, Balanced, quota, requests
<1>7. ASSUME NEW sem \in Semaphores, Reset(sem) PROVE QuotaFinite' /\ QuotaCounted'
  <2>1. PICK max \in Capacities : /\ m_value' = [m_value EXCEPT ![sem] = max]
                                  /\ granted' = [granted EXCEPT ![sem] = max]
    BY <1>7 DEF Reset
  <2>2. InUse(sem) = 0 /\ max \in Nat /\ UNCHANGED at
    BY <1>7, SemaphoreAssumption DEF Reset
  <2>3. ASSUME Balanced, NEW s \in Semaphores PROVE m_value'[s] + InUse(s)' = granted'[s]
    <3>1. InUse(s)' = InUse(s)
      BY <1>5, <2>2
    <3>2. CASE s = sem
      BY <1>2, <2>1, <2>2, <3>1, <3>2
    <3>3. CASE s # sem
      BY <1>2, <1>4, <2>1, <2>3, <3>1, <3>3
    <3> QED BY <3>2, <3>3
  <2> QED BY <1>3, <1>5, <2>2, <2>3 DEF QuotaCounted, Balanced, requests
<1>8. ASSUME NEW w \in Workers, Runs(w) PROVE QuotaFinite' /\ QuotaCounted'
  <2>1. \A v \in Workers \ {w} : at'[v] = at[v]
    BY <1>1, <1>8, OthersStay DEF Types
  <2>2. ASSUME NEW CONSTANT sem \in Semaphores
        PROVE  /\ IsFiniteSet(Units(Taken(sem), Workers))'
               /\ InUse(sem)' = InUse(sem) - Taken(sem)[w] + Taken(sem)'[w]
    BY <1>1, <1>3, <2>1, QuotaMove
  <2>3. QuotaFinite'
    BY <2>2 DEF QuotaFinite
  <2>4. ASSUME Balanced, NEW CONSTANT sem \in Semaphores
        PROVE  /\ m_value'[sem] + Taken(sem)'[w] = m_value[sem] + Taken(sem)[w]
               /\ granted'[sem] = granted[sem] /\ m_value'[sem] \in Nat
               /\ Taken(sem)'[w] \in Nat
    <3> DEFINE t == at[w].work
    <3>1. acquires' = acquires /\ releases = acquires /\ granted' = granted
      BY <1>3, <1>8, <2>4 DEF requests, Balanced, quota, Runs, Skip, Take, LockNext,
                       TryAcquire, Unlock, EndBody, Release, Reschedule, Finish
    <3>2. Taken(sem)[w] \in Nat /\ m_value[sem] \in Nat
      BY <1>1, <1>2, TakenIsNat
    <3>3. CASE m_value' = m_value /\ Taken(sem)'[w] = Taken(sem)[w]
      BY <3>1, <3>2, <3>3
    <3>4. CASE Skip(w)
      BY <3>1, <3>3, <3>4 DEF Skip, quota, Taken, Asked
    <3>5. CASE Take(w)
      <4>1. PICK u \in Works :
              at' = [at EXCEPT ![w].pc = IF Asked(u) = {} THEN "body" ELSE "lock", ![w].work = u]
        BY <3>5 DEF Take
      <4>2. at[w].work = Nil /\ m_value' = m_value
        BY <1>1, <3>5 DEF Take, HandsFree, quota
      <4>3. at'[w].work = u /\ at'[w].pc = IF Asked(u) = {} THEN "body" ELSE "lock"
        BY <1>2, <4>1 DEF WorkerStates
      <4>4. Taken(sem)[w] = 0 /\ Taken(sem)'[w] = 0
        BY <3>1, <4>2, <4>3 DEF Taken, Asked
      <4> QED BY <3>3, <4>2, <4>4
    <3>6. CASE LockNext(w)
      <4>1. at[w].pc = "lock" /\ at'[w].pc = "lock" /\ m_value' = m_value
        BY <1>2, <3>6 DEF LockNext, quota, WorkerStates
      <4> QED BY <3>3, <4>1 DEF Taken, Asked
    <3>7. CASE TryAcquire(w)
      <4>1. at[w].pc = "lock" /\ at[w].blocker = Nil /\ Taken(sem)[w] = 0 /\ t \in Works
        BY <1>1, <3>7 DEF TryAcquire, LocksHeld, Taken, WorkInHand
      <4>2. CASE Short(t) = {}
        <5>1. /\ at' = [at EXCEPT ![w].pc = "unlock"]
              /\ m_value' = [s \in Semaphores |->
                               IF s \in Asked(t) THEN m_value[s] - acquires[t][s] ELSE m_value[s]]
          BY <3>7, <4>2 DEF TryAcquire, WaitAt
        <5>2. at'[w].pc = "unlock" /\ at'[w].blocker = Nil /\ at'[w].work = t
          BY <1>2, <4>1, <5>1 DEF WorkerStates
        <5>3. Taken(sem)'[w] = IF sem \in Asked(t) THEN acquires[t][sem] ELSE 0
          BY <1>2, <3>1, <4>1, <5>2 DEF Taken, Asked
        <5>4. sem \in Asked(t) => acquires[t][sem] \in Nat /\ acquires[t][sem] <= m_value[sem]
          <6>1. sem \in Asked(t) => acquires[t][sem] \in Nat
            BY <1>2, <4>1 DEF AreRequests, Asked
          <6> QED BY <3>2, <4>2, <6>1 DEF Short
        <5> QED BY <3>1, <3>2, <4>1, <5>1, <5>3, <5>4
      <4>3. CASE Short(t) # {}
        <5>1. PICK x \in Short(t) : at' = [at EXCEPT ![w].pc = "unlock", ![w].blocker = x]
          BY <3>7, <4>3 DEF TryAcquire, WaitAt
        <5>2. x \in Semaphores
          BY <1>1, <4>1 DEF Short, Asked, Types, AreRequests
        <5>3. at'[w].pc = "unlock" /\ at'[w].blocker # Nil /\ m_value' = m_value
          BY <1>2, <3>7, <4>3, <5>1, <5>2 DEF TryAcquire, WorkerStates
        <5> QED BY <3>3, <4>1, <5>3 DEF Taken, Asked
      <4> QED BY <4>2, <4>3
    <3>8. CASE Unlock(w)
      <4>1. PICK x \in Semaphores :
              \/ at'[w] = [at[w] EXCEPT !.sems = @ \ {x}]
              \/ at[w].blocker = Nil /\ at'[w] = [Idle EXCEPT !.pc = "body", !.work = at[w].work]
              \/ at[w].blocker # Nil /\ at'[w] = Idle
        BY <1>2, <3>8 DEF Unlock
      <4>2. at[w].pc = "unlock" /\ m_value' = m_value
        BY <3>8 DEF Unlock, quota
      <4>3. CASE at'[w] = [at[w] EXCEPT !.sems = @ \ {x}]
        <5>1. at'[w].pc = "unlock" /\ at'[w].work = t /\ at'[w].blocker = at[w].blocker
          BY <1>2, <4>2, <4>3 DEF WorkerStates
        <5> QED BY <3>1, <3>3, <4>2, <5>1 DEF Taken, Asked
      <4>4. CASE at[w].blocker = Nil /\ at'[w] = [Idle EXCEPT !.pc = "body", !.work = at[w].work]
        <5>1. at'[w].pc = "body" /\ at'[w].work = t
          BY <4>4 DEF Idle
        <5> QED BY <3>1, <3>3, <4>2, <4>4, <5>1 DEF Taken, Asked
      <4>5. CASE at[w].blocker # Nil /\ at'[w] = Idle
        <5>1. at'[w].work = Nil
          BY <4>5 DEF Idle
        <5> QED BY <3>3, <4>2, <4>5, <5>1 DEF Taken, Asked
      <4> QED BY <4>1, <4>3, <4>4, <4>5
    <3>9. CASE EndBody(w)
      <4>1. /\ at[w].pc = "body" /\ at'[w].pc = "release" /\ at'[w].work = t
            /\ at'[w].sems = DOMAIN releases[t] /\ m_value' = m_value
        BY <1>2, <3>9 DEF EndBody, quota, WorkerStates
      <4>2. at'[w].sems = Asked(t)
        BY <3>1, <4>1 DEF Asked
      <4> QED BY <3>1, <3>3, <4>1, <4>2 DEF Taken, Asked
    <3>10. CASE Release(w)
      <4>1. PICK x \in at[w].sems :
              /\ m_value' = [m_value EXCEPT ![x] = @ + releases[t][x]]
              /\ at' = [at EXCEPT ![w].sems = @ \ {x}, ![w].chain = @ \o LetGo(waiters[x])]
        BY <3>10 DEF Release
      <4>2. /\ at[w].pc = "release" /\ t \in Works /\ at[w].sems \subseteq Asked(t)
            /\ x \in Semaphores
        BY <1>1, <1>2, <3>1, <3>10, <4>1 DEF Release, WorkInHand, WorkerStates, Asked
      <4>3. at'[w].pc = "release" /\ at'[w].work = t /\ at'[w].sems = at[w].sems \ {x}
        BY <1>2, <4>1, <4>2 DEF WorkerStates
      <4>4. CASE sem = x
        <5>1. Taken(sem)[w] = acquires[t][x] /\ Taken(sem)'[w] = 0
          BY <1>2, <3>1, <4>1, <4>2, <4>3, <4>4 DEF Taken, Asked
        <5>2. m_value'[sem] = m_value[sem] + acquires[t][x]
          BY <1>2, <3>1, <4>1, <4>2, <4>4
        <5> QED BY <3>1, <3>2, <5>1, <5>2
      <4>5. CASE sem # x
        <5>1. Taken(sem)'[w] = Taken(sem)[w]
          BY <3>1, <4>2, <4>3, <4>5 DEF Taken, Asked
        <5>2. m_value'[sem] = m_value[sem]
          BY <1>2, <4>1, <4>5
        <5> QED BY <3>1, <3>2, <5>1, <5>2
      <4> QED BY <4>4, <4>5
    <3>11. CASE Reschedule(w)
      <4>1. /\ at[w].pc = "release" /\ at[w].sems = {} /\ at'[w].pc = "release" /\ at'[w].sems = {}
            /\ m_value' = m_value
        BY <1>2, <3>11 DEF Reschedule, quota, WorkerStates
      <4> QED BY <3>3, <4>1 DEF Taken, Asked
    <3>12. CASE Finish(w)
      <4>1. at[w].pc = "release" /\ at[w].sems = {} /\ at'[w].work = Nil /\ m_value' = m_value
        BY <1>2, <3>12 DEF Finish, quota, Idle
      <4> QED BY <3>3, <4>1 DEF Taken, Asked
    <3> QED BY <1>8, <3>4, <3>5, <3>6, <3>7, <3>8, <3>9, <3>10, <3>11, <3>12 DEF Runs
  <2>5. ASSUME Balanced, NEW CONSTANT sem \in Semaphores
        PROVE  m_value'[sem] + InUse(sem)' = granted'[sem]
    <3>1. Taken(sem)[w] \in Nat
      BY <1>1, TakenIsNat
    <3>2. m_value'[sem] + InUse(sem)' = m_value[sem] + InUse(sem)
      BY <1>4, <2>2, <2>4, <2>5, <3>1, SumKept
    <3> QED BY <1>4, <2>4, <2>5, <3>2
  <2> QED BY <1>3, <2>3, <2>5 DEF QuotaCounted, Balanced, requests
<1> QED BY <1>6, <1>7, <1>8 DEF Next, Launch, RequestStop, vars

\* The counting invariant holds initially: no quota is in use.
LEMMA InitCInv == Init => CInv
<1> SUFFICES ASSUME Init PROVE CInv
  OBVIOUS
<1>1. PICK s \in Settings :
        /\ m_max_value = s.max
        /\ m_value = [sem \in Semaphores |-> Min({s.value[sem], s.max[sem]})]
        /\ granted = m_value
  BY DEF Init
<1>2. s.max \in [Semaphores -> Nat] /\ s.value \in [Semaphores -> Nat]
  BY SemaphoreAssumption
<1>3. ASSUME NEW a \in Nat, NEW b \in Nat PROVE Min({a, b}) \in Nat /\ Min({a, b}) <= b
  <2>1. \E x \in {a, b} : \A y \in {a, b} : x <= y
    <3>1. CASE a <= b
      BY <3>1
    <3>2. CASE b <= a
      BY <3>2
    <3> QED BY <3>1, <3>2
  <2>2. Min({a, b}) \in {a, b} /\ \A y \in {a, b} : Min({a, b}) <= y
    BY <2>1 DEF Min
  <2> QED BY <2>2
<1>4. \A sem \in Semaphores : /\ Min({s.value[sem], s.max[sem]}) \in Nat
                              /\ Min({s.value[sem], s.max[sem]}) <= s.max[sem]
  BY <1>2, <1>3
<1>5. Progress
  <2>1. m_value \in [Semaphores -> Nat] /\ \A sem \in Semaphores : m_value[sem] <= m_max_value[sem]
    BY <1>1, <1>4
  <2>2. queue \in [Works -> Nat] /\ rounds \in 0..MaxRounds
    BY SemaphoreAssumption DEF Init
  <2>3. m_max_value \in [Semaphores -> Nat] /\ granted = m_value
    BY <1>1, <1>2
  <2> QED BY <2>1, <2>2, <2>3 DEF Progress, Init
<1>6. at = [w \in Workers |-> Idle]
  BY DEF Init
<1>7. HandsFree
  BY <1>6 DEF HandsFree, Idle
<1>8. ASSUME NEW t \in Works
      PROVE  /\ IsFiniteSet(InHand(t)) /\ Cardinality(InHand(t)) = 0
             /\ IsFiniteSet(Places(waiters, Semaphores, t)) /\ Occurrences(waiters, Semaphores, t) = 0
             /\ IsFiniteSet(Places(Chains, Workers, t)) /\ Occurrences(Chains, Workers, t) = 0
  <2>1. InHand(t) = {}
    BY <1>6, SemaphoreAssumption DEF InHand, Idle
  <2>2. \A w \in Workers : Chains[w] = <<>>
    BY <1>6 DEF Chains, Idle
  <2>3. \A sem \in Semaphores : waiters[sem] = <<>>
    BY DEF Init
  <2>4. IsFiniteSet(Places(waiters, Semaphores, t)) /\ Occurrences(waiters, Semaphores, t) = 0
    BY <2>3, PlacesEmpty DEF Occurrences
  <2>5. IsFiniteSet(Places(Chains, Workers, t)) /\ Occurrences(Chains, Workers, t) = 0
    BY <2>2, PlacesEmpty DEF Occurrences
  <2> QED BY <2>1, <2>4, <2>5, FS_EmptySet
<1>9. PlacesFinite /\ PlacesCounted
  BY <1>8 DEF PlacesFinite, PlacesCounted, Init
<1>10. ASSUME NEW sem \in Semaphores
       PROVE  IsFiniteSet(Units(Taken(sem), Workers)) /\ InUse(sem) = 0
  <2>1. \A w \in Workers : Taken(sem)[w] = 0
    BY <1>6 DEF Taken, Idle
  <2> QED BY <2>1, UnitsEmpty DEF InUse, Total
<1>11. QuotaFinite /\ QuotaCounted
  <2>1. \A sem \in Semaphores : m_value[sem] \in Nat
    BY <1>5 DEF Progress
  <2> QED BY <1>1, <1>10, <2>1 DEF QuotaFinite, QuotaCounted
<1> QED BY InitHolds, <1>5, <1>7, <1>9, <1>11 DEF CInv

\* Every step keeps the counting invariant.
LEMMA CInvKept == CInv /\ [Next]_vars => CInv'
<1> SUFFICES ASSUME CInv, [Next]_vars PROVE CInv'
  OBVIOUS
<1>1. IInv
  BY DEF CInv
<1>2. IInv'
  BY <1>1, TypesKept, WorkInHandKept, LocksHeldKept, WaiterIsShortKept, StaysInChainKept DEF IInv
<1> QED BY <1>2, ProgressKept, HandsFreeKept, PlacesStep, QuotaStep DEF CInv

\* At any time an active Work is in exactly one place, a queue, a chain, the
\* list of a worker that let it go, or the hands of a worker: the attempts, the
\* unlocking and the releases lose no Work and run none twice at a time.
THEOREM OnePlaceHolds == Spec => []OnePlace
<1>1. CInv => OnePlace
  BY DEF CInv, IInv, OnePlace, PlacesCounted
<1> QED BY InitCInv, CInvKept, <1>1, PTL DEF Spec

\* Where every Work returns what it takes, what a semaphore lacks is exactly
\* what the Works that run have taken, and it never has more than its maximum:
\* one that waits has taken nothing, and nothing is returned twice.
THEOREM QuotaConservedHolds == Spec => []QuotaConserved
<1>1. ASSUME CInv PROVE QuotaConserved
  <2>1. TypeOK
    BY <1>1 DEF CInv, IInv, Types, AtTypes, WorkerStates, Pcs, Progress, TypeOK
  <2>2. ASSUME Balanced, NEW sem \in Semaphores
        PROVE  m_value[sem] + InUse(sem) = granted[sem] /\ m_value[sem] <= m_max_value[sem]
    <3>1. /\ m_value[sem] + InUse(sem) = granted[sem] /\ InUse(sem) \in Nat
          /\ m_value[sem] \in Nat /\ m_max_value[sem] \in Nat /\ granted[sem] \in Nat
          /\ granted[sem] <= m_max_value[sem]
      BY <1>1, <2>2, FS_CardinalityType
         DEF CInv, QuotaFinite, QuotaCounted, Progress, InUse, Total
    <3> QED BY <3>1
  <2> QED BY <2>1, <2>2 DEF QuotaConserved
<1> QED BY InitCInv, CInvKept, <1>1, PTL DEF Spec

===============================================================================
