---------------------------- MODULE BoundedQueue ----------------------------
(***************************************************************************)
(* The work-stealing ring buffer of                                        *)
(* src/taskflowlite/core/bounded_queue.hpp: one owner pushes and pops at   *)
(* m_bottom, any number of thieves steal at m_top.                         *)
(*                                                                         *)
(* The owner's plain stores go through a store buffer that drains in       *)
(* order, as on the machines where pop's seq_cst fence costs something:    *)
(* the fence is what drains it.  Because the owner's stores are invisible  *)
(* until they drain, the load of m_top and the stores of a push are one    *)
(* action; the drains are the steps other threads see.                     *)
(*                                                                         *)
(* Tasks are numbered in the order the owner offers them.                  *)
(***************************************************************************)
EXTENDS Integers, Sequences, Functions

CONSTANTS
  Thieves,
  Cap,        \* capacity, a power of two
  MaxTasks,   \* bound: tasks the owner offers
  MaxPops,    \* bound: pop calls
  MaxSteals   \* bound: steal calls of one thief

ASSUME QueueAssumption ==
  /\ Cap \in Nat /\ \E k \in 1..Cap : Cap = 2^k
  /\ MaxTasks \in Nat /\ MaxPops \in Nat /\ MaxSteals \in Nat

Tasks == 1..MaxTasks
Null == 0

VARIABLES
  m_buf,      \* [0..Cap-1 -> task or Null]
  m_top,
  m_bottom,
  stores,     \* the owner's store buffer, oldest first
  bottom,     \* m_bottom as the owner last wrote it
  opc,        \* where the owner is
  offered,    \* tasks offered so far
  overflowed, \* tasks handed to on_failure
  taken,      \* how often each task was returned
  pops,
  tpc, ttop, tval,   \* each thief: where it is, the top and the task it read
  steals

ownerVars == <<stores, bottom, opc, offered, overflowed, pops>>
thiefVars == <<tpc, ttop, tval, steals>>
queueVars == <<m_buf, m_top, m_bottom, taken, ownerVars, thiefVars>>

Slot(i) == i % Cap

\* A buffered store is to m_bottom or to the slot of an index.
BottomCell == -1

StoreSlot(i, v) == [at |-> i, val |-> v]
StoreBottom(b) == [at |-> BottomCell, val |-> b]

Take(v) == taken' = [taken EXCEPT ![v] = @ + 1]

QueueInit ==
  /\ m_buf = [i \in 0..(Cap - 1) |-> Null]
  /\ m_top = 0 /\ m_bottom = 0 /\ bottom = 0
  /\ stores = <<>> /\ opc = "idle"
  /\ offered = 0 /\ overflowed = {} /\ pops = 0
  /\ taken = [v \in Tasks |-> 0]
  /\ tpc = [t \in Thieves |-> "idle"]
  /\ ttop = [t \in Thieves |-> 0]
  /\ tval = [t \in Thieves |-> Null]
  /\ steals = [t \in Thieves |-> 0]

-----------------------------------------------------------------------------
(* Owner.                                                                  *)

\* The room a push sees: top may move on at any time, which only adds room.
Available == Cap - (bottom - m_top)

\* push(first, n): store the prefix that fits, publish it with one store of
\* m_bottom, hand the rest to on_failure.  push(val) is the case n = 1.
PushTasks(n) ==
  LET count == IF n < Available THEN n ELSE Available
      slots == [i \in 1..count |-> StoreSlot(bottom + i - 1, offered + i)]
  IN  /\ opc = "idle"
      /\ offered + n <= MaxTasks
      /\ offered' = offered + n
      /\ overflowed' = overflowed \cup (offered + count + 1)..(offered + n)
      /\ bottom' = bottom + count
      /\ stores' = IF count = 0 THEN stores
                   ELSE stores \o slots \o <<StoreBottom(bottom + count)>>
      /\ UNCHANGED <<m_buf, m_top, m_bottom, taken, opc, pops, thiefVars>>

\* pop: claim the last slot ...
PopClaim ==
  /\ opc = "idle" /\ pops < MaxPops
  /\ opc' = "popFence"
  /\ pops' = pops + 1
  /\ bottom' = bottom - 1
  /\ stores' = Append(stores, StoreBottom(bottom - 1))
  /\ UNCHANGED <<m_buf, m_top, m_bottom, taken, offered, overflowed, thiefVars>>

\* pop gives the claim back.
Restore ==
  /\ bottom' = bottom + 1
  /\ stores' = Append(stores, StoreBottom(bottom + 1))

\* Mutant: no fence between the claim and the load of m_top.
PopWithoutFence ==
  /\ opc = "popFence"
  /\ \/ /\ m_top < bottom
        /\ Take(m_buf[Slot(bottom)])
        /\ opc' = "idle" /\ UNCHANGED <<bottom, stores>>
     \/ /\ m_top = bottom
        /\ opc' = "popCas" /\ UNCHANGED <<bottom, stores, taken>>
     \/ /\ m_top > bottom
        /\ Restore
        /\ opc' = "idle" /\ UNCHANGED taken
  /\ UNCHANGED <<m_buf, m_top, m_bottom, offered, overflowed, pops, thiefVars>>

\* Mutant: the last task is given up instead of raced for.
PopGivesUpLast ==
  /\ opc = "popFence"
  /\ stores = <<>>
  /\ \/ /\ m_top < bottom
        /\ Take(m_buf[Slot(bottom)])
        /\ UNCHANGED <<bottom, stores>>
     \/ /\ m_top >= bottom
        /\ Restore
        /\ UNCHANGED taken
  /\ opc' = "idle"
  /\ UNCHANGED <<m_buf, m_top, m_bottom, offered, overflowed, pops, thiefVars>>

\* ... and compare with m_top once the fence has made the claim visible.
PopFence ==
  /\ opc = "popFence"
  /\ stores = <<>>
  /\ \/ /\ m_top < bottom
        /\ Take(m_buf[Slot(bottom)])
        /\ opc' = "idle" /\ UNCHANGED <<bottom, stores>>
     \/ /\ m_top = bottom
        /\ opc' = "popCas" /\ UNCHANGED <<bottom, stores, taken>>
     \/ /\ m_top > bottom
        /\ Restore
        /\ opc' = "idle" /\ UNCHANGED taken
  /\ UNCHANGED <<m_buf, m_top, m_bottom, offered, overflowed, pops, thiefVars>>

\* The last task: race the thieves for it.
PopCas ==
  /\ opc = "popCas"
  /\ IF m_top = bottom
     THEN m_top' = m_top + 1 /\ Take(m_buf[Slot(bottom)])
     ELSE UNCHANGED <<m_top, taken>>
  /\ Restore
  /\ opc' = "idle"
  /\ UNCHANGED <<m_buf, m_bottom, offered, overflowed, pops, thiefVars>>

\* The oldest buffered store reaches memory.
Drain ==
  /\ stores # <<>>
  /\ LET s == Head(stores) IN
       IF s.at = BottomCell
       THEN m_bottom' = s.val /\ UNCHANGED m_buf
       ELSE m_buf' = [m_buf EXCEPT ![Slot(s.at)] = s.val] /\ UNCHANGED m_bottom
  /\ stores' = Tail(stores)
  /\ UNCHANGED <<m_top, taken, bottom, opc, offered, overflowed, pops, thiefVars>>

-----------------------------------------------------------------------------
(* Thieves: top, then bottom, then the slot, then one CAS on top.          *)

StealTop(t) ==
  /\ tpc[t] = "idle" /\ steals[t] < MaxSteals
  /\ tpc' = [tpc EXCEPT ![t] = "bottom"]
  /\ ttop' = [ttop EXCEPT ![t] = m_top]
  /\ steals' = [steals EXCEPT ![t] = @ + 1]
  /\ UNCHANGED <<m_buf, m_top, m_bottom, taken, tval, ownerVars>>

StealBottom(t) ==
  /\ tpc[t] = "bottom"
  /\ tpc' = [tpc EXCEPT ![t] = IF ttop[t] < m_bottom THEN "read" ELSE "idle"]
  /\ UNCHANGED <<m_buf, m_top, m_bottom, taken, ttop, tval, steals, ownerVars>>

StealRead(t) ==
  /\ tpc[t] = "read"
  /\ tpc' = [tpc EXCEPT ![t] = "cas"]
  /\ tval' = [tval EXCEPT ![t] = m_buf[Slot(ttop[t])]]
  /\ UNCHANGED <<m_buf, m_top, m_bottom, taken, ttop, steals, ownerVars>>

StealCas(t) ==
  /\ tpc[t] = "cas"
  /\ tpc' = [tpc EXCEPT ![t] = "idle"]
  /\ IF m_top = ttop[t]
     THEN m_top' = m_top + 1 /\ Take(tval[t])
     ELSE UNCHANGED <<m_top, taken>>
  /\ UNCHANGED <<m_buf, m_bottom, ttop, tval, steals, ownerVars>>

-----------------------------------------------------------------------------
QueueNext ==
  \/ PushTasks(1) \/ PushTasks(2)
  \/ PopClaim \/ PopFence \/ PopCas \/ Drain
  \/ \E t \in Thieves : StealTop(t) \/ StealBottom(t) \/ StealRead(t) \/ StealCas(t)

QueueSpec == QueueInit /\ [][QueueNext]_queueVars

-----------------------------------------------------------------------------
(* Properties.                                                             *)

QueueTypeOK ==
  /\ m_buf \in [0..(Cap - 1) -> Tasks \cup {Null}]
  /\ m_top \in 0..MaxTasks /\ m_bottom \in -1..MaxTasks /\ bottom \in -1..MaxTasks
  /\ opc \in {"idle", "popFence", "popCas"}
  /\ offered \in 0..MaxTasks /\ overflowed \subseteq Tasks
  /\ pops \in 0..MaxPops
  /\ taken \in [Tasks -> 0..1]
  /\ tpc \in [Thieves -> {"idle", "bottom", "read", "cas"}]
  /\ ttop \in [Thieves -> 0..MaxTasks]
  /\ tval \in [Thieves -> Tasks \cup {Null}]
  /\ steals \in [Thieves -> 0..MaxSteals]

\* The slot of index i as the owner sees it, with buf in memory and the
\* stores st still buffered.
Pending(st, i) == {s \in Range(st) : s.at = i}
OneOf(S) == CHOOSE s \in S : TRUE
Seen(buf, st, i) ==
  IF Pending(st, i) = {} THEN buf[Slot(i)] ELSE OneOf(Pending(st, i)).val

\* A claimed task stays in the queue until the claim succeeds.
End == IF opc = "idle" THEN bottom ELSE bottom + 1

\* The tasks from index top up to, and without, index end.
Between(buf, st, top, end) == [k \in 1..(end - top) |-> Seen(buf, st, top + k - 1)]

Content == Between(m_buf, stores, m_top, End)

\* The ring buffer is a deque: pushes append, pop takes the newest task,
\* steal the oldest, and each task comes out exactly once, whatever the
\* delay between the owner's stores and the thieves' reads; and the types hold.
Deque == INSTANCE WorkDeque WITH content <- Content

ImplementsDeque == []QueueTypeOK /\ Deque!DequeSpec

\* pop returns nullptr only when the queue has nothing: a worker that stops
\* draining its own queue leaves no task of its own behind.
PopFailsOnlyWhenEmpty ==
  [][opc # "idle" /\ opc' = "idle" /\ taken' = taken => Content' = <<>>]_queueVars
=============================================================================
