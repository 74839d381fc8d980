--------------------------- MODULE SharedWorkStack ---------------------------
(***************************************************************************)
(* The overflow stack of src/taskflowlite/core/shared_work_stack.hpp: any  *)
(* thread publishes Works, one thief at a time consumes them.              *)
(*                                                                         *)
(* m_state holds a LOCKED bit and a size.  A push first counts its Works,  *)
(* then splices its chain on m_incoming; between the two the size runs     *)
(* ahead of the chains.  The thief that sets LOCKED owns m_head; when it   *)
(* is empty it takes the whole of m_incoming over.  A chain threaded       *)
(* through Work::m_next is a sequence.  A Work that was stolen may be      *)
(* pushed again by whoever ran it.                                         *)
(*                                                                         *)
(* The load of m_incoming and the successful compare-exchange of a push    *)
(* are one action (only the private tail is written between them), and so  *)
(* are the lock owner's reads and writes of m_head and m_next, which       *)
(* nobody else touches.                                                    *)
(***************************************************************************)
EXTENDS Integers, FiniteSets, Sequences, Functions

CONSTANTS
  Works,
  Producers,
  Consumers,
  NullWork,
  MaxBatch    \* bound: Works in one push

ASSUME StackAssumption ==
  /\ IsFiniteSet(Works)
  /\ NullWork \notin Works
  /\ MaxBatch \in Nat

VARIABLES
  m_state,     \* [locked, size]
  m_incoming,
  m_head,
  chain,       \* the chain each producer has counted and not yet published
  place,       \* where each thief is
  hand         \* the Work a thief has taken and not yet returned

stackVars == <<m_state, m_incoming, m_head, chain, place, hand>>


\* The chains a push may be given: distinct Works, at least one.
Batches(S) ==
  UNION {Injection(1..n, S) : n \in 1..MaxBatch}

\* Works that some stack structure holds.
Counted == UNION {Range(chain[p]) : p \in Producers}
Published == Range(m_incoming) \cup Range(m_head)
InHand == {hand[t] : t \in Consumers} \ {NullWork}
Inside == Counted \cup Published \cup InHand
Outside == Works \ Inside

StackInit ==
  /\ m_state = [locked |-> FALSE, size |-> 0]
  /\ m_incoming = <<>>
  /\ m_head = <<>>
  /\ chain = [p \in Producers |-> <<>>]
  /\ place = [t \in Consumers |-> "idle"]
  /\ hand = [t \in Consumers |-> NullWork]

-----------------------------------------------------------------------------
(* push: count, then publish.                                              *)

\* Mutant: a chain counts as one Work.
PushCountsOne(p) ==
  /\ chain[p] = <<>>
  /\ \E c \in Batches(Outside) :
       /\ chain' = [chain EXCEPT ![p] = c]
       /\ m_state' = [m_state EXCEPT !.size = @ + 1]
  /\ UNCHANGED <<m_incoming, m_head, place, hand>>

PushCount(p) ==
  /\ chain[p] = <<>>
  /\ \E c \in Batches(Outside) :
       /\ chain' = [chain EXCEPT ![p] = c]
       /\ m_state' = [m_state EXCEPT !.size = @ + Len(c)]
  /\ UNCHANGED <<m_incoming, m_head, place, hand>>

PushPublish(p) ==
  /\ chain[p] # <<>>
  /\ m_incoming' = chain[p] \o m_incoming
  /\ chain' = [chain EXCEPT ![p] = <<>>]
  /\ UNCHANGED <<m_state, m_head, place, hand>>

-----------------------------------------------------------------------------
(* steal: one attempt, nullptr when the stack looks empty or is locked.    *)

MoveTo(t, from, to) ==
  /\ place[t] = from
  /\ place' = [place EXCEPT ![t] = to]

\* The read-only check that spares the atomic or.  A thief that fails it
\* returns without a trace.
StealCheck(t) ==
  /\ MoveTo(t, "idle", "lock")
  /\ ~m_state.locked /\ m_state.size # 0
  /\ UNCHANGED <<m_state, m_incoming, m_head, chain, hand>>

\* fetch_or returns the word before: locked by another, or empty by now.
StealLock(t) ==
  /\ MoveTo(t, "lock", IF m_state.locked THEN "idle"
                     ELSE IF m_state.size = 0 THEN "unlock" ELSE "take")
  /\ m_state' = [m_state EXCEPT !.locked = TRUE]
  /\ UNCHANGED <<m_incoming, m_head, chain, hand>>

\* Mutant: m_incoming is read, not exchanged for an empty chain.
StealTakeCopies(t) ==
  /\ IF m_head = <<>> /\ m_incoming = <<>>
     THEN MoveTo(t, "take", "unlock") /\ UNCHANGED <<m_head, hand>>
     ELSE LET source == IF m_head # <<>> THEN m_head ELSE m_incoming
          IN  /\ MoveTo(t, "take", "done")
              /\ hand' = [hand EXCEPT ![t] = Head(source)]
              /\ m_head' = Tail(source)
  /\ UNCHANGED <<m_state, m_incoming, chain>>

\* Mutant: newly published Works go first.
StealTakeNewest(t) ==
  /\ IF m_head = <<>> /\ m_incoming = <<>>
     THEN MoveTo(t, "take", "unlock") /\ UNCHANGED <<m_incoming, m_head, hand>>
     ELSE LET source == m_incoming \o m_head
          IN  /\ MoveTo(t, "take", "done")
              /\ hand' = [hand EXCEPT ![t] = Head(source)]
              /\ m_head' = Tail(source)
              /\ m_incoming' = <<>>
  /\ UNCHANGED <<m_state, chain>>

StealTake(t) ==
  /\ IF m_head = <<>> /\ m_incoming = <<>>
     THEN MoveTo(t, "take", "unlock") /\ UNCHANGED <<m_incoming, m_head, hand>>
     ELSE LET source == IF m_head # <<>> THEN m_head ELSE m_incoming
          IN  /\ MoveTo(t, "take", "done")
              /\ hand' = [hand EXCEPT ![t] = Head(source)]
              /\ m_head' = Tail(source)
              /\ m_incoming' = IF m_head # <<>> THEN m_incoming ELSE <<>>
  /\ UNCHANGED <<m_state, chain>>

\* fetch_and(SIZE_MASK): nothing was there to take.
StealUnlock(t) ==
  /\ MoveTo(t, "unlock", "idle")
  /\ m_state' = [m_state EXCEPT !.locked = FALSE]
  /\ UNCHANGED <<m_incoming, m_head, chain, hand>>

\* fetch_sub(LOCKED + 1), and the Work is returned.
StealDone(t) ==
  /\ MoveTo(t, "done", "idle")
  /\ m_state' = [locked |-> FALSE, size |-> m_state.size - 1]
  /\ hand' = [hand EXCEPT ![t] = NullWork]
  /\ UNCHANGED <<m_incoming, m_head, chain>>

-----------------------------------------------------------------------------
StealStep(t) == StealCheck(t) \/ StealLock(t) \/ StealTake(t) \/ StealUnlock(t) \/ StealDone(t)

StackNext ==
  \/ \E p \in Producers : PushCount(p) \/ PushPublish(p)
  \/ \E t \in Consumers : StealStep(t)

StackSpec == StackInit /\ [][StackNext]_stackVars

\* A push that has begun ends, and idle workers keep trying a stack that is
\* not empty (Executor::_wait_for_work never sleeps over one).
FairStackSpec ==
  /\ StackSpec
  /\ \A p \in Producers : WF_stackVars(PushPublish(p))
  /\ \A t \in Consumers : WF_stackVars(StealStep(t))

-----------------------------------------------------------------------------
(* Properties.                                                             *)

StackTypeOK ==
  /\ m_state \in [locked : BOOLEAN, size : 0..Cardinality(Works)]
  /\ m_incoming \in Seq(Works)
  /\ m_head \in Seq(Works)
  /\ chain \in [Producers -> Seq(Works)]
  /\ place \in [Consumers -> {"idle", "lock", "take", "unlock", "done"}]
  /\ hand \in [Consumers -> Works \cup {NullWork}]

Owners == {t \in Consumers : place[t] \in {"take", "unlock", "done"}}

\* The LOCKED bit is a lock: it is set exactly while one thief owns m_head,
\* and only that thief holds a Work it has not returned.
ExclusiveConsumer ==
  /\ m_state.locked <=> Owners # {}
  /\ \A t, u \in Owners : t = u
  /\ \A t \in Consumers : hand[t] # NullWork <=> place[t] = "done"

\* A Work is in one place: no push, takeover or retry loses or repeats a node
\* of a chain.
OnePlace ==
  /\ IsInjective(m_incoming) /\ IsInjective(m_head)
  /\ \A p \in Producers : IsInjective(chain[p])
  /\ Range(m_incoming) \cap Range(m_head) = {}
  /\ Counted \cap Published = {}
  /\ InHand \cap (Counted \cup Published) = {}
  /\ \A p, q \in Producers : p # q => Range(chain[p]) \cap Range(chain[q]) = {}

\* The size counts what was announced and not yet returned, so it never
\* underflows and never says less than the chains hold.
SizeCounts == m_state.size = Cardinality(Inside)

\* empty() is honest: a worker that reads size 0 before it sleeps overlooks no
\* published Work.
EmptyMeansEmpty == m_state.size = 0 => m_incoming = <<>> /\ m_head = <<>>

\* Both: size and empty() can be relied on in every state.
SizeIsHonest == SizeCounts /\ EmptyMeansEmpty

\* Every published Work is stolen: a chain taken over is used up before the
\* next one is, so later pushes cannot bury it forever.
PublishedIsStolen == \A w \in Works : w \in Published ~> w \notin Published
=============================================================================
