------------------------------ MODULE Notifier ------------------------------
(***************************************************************************)
(* The event count of src/taskflowlite/core/notifier.hpp, one action per   *)
(* access to shared memory that another thread can observe.  A load and    *)
(* the compare-exchange that expects the loaded word, with no other shared *)
(* access between them, are one action: the iterations that fail or spin   *)
(* change nothing.                                                         *)
(*                                                                         *)
(* m_state is the 64-bit word [epoch | prewaiter | stack top].  A waiter   *)
(* draws a ticket (prepare_wait), rechecks its predicate, then either      *)
(* cancels or commits; it settles its ticket when the epoch reaches it.    *)
(* A committed waiter pushes itself on the intrusive stack threaded        *)
(* through next, and parks.  Notifiers consume tickets first, then pop     *)
(* sleepers and unpark them.                                               *)
(*                                                                         *)
(* The epoch is EpochModulus wide and starts at StartEpoch, a value a      *)
(* quiescent notifier reaches after that many settled tickets, so that the *)
(* counter wraps around within the bounds.  A compare-exchange whose       *)
(* expected word is EpochModulus tickets old would succeed wrongly; the    *)
(* bounds on rounds keep a behaviour shorter than that, as 2^32 does.      *)
(***************************************************************************)
EXTENDS Integers, FiniteSets, Sequences, Counting

CONSTANTS
  Waiters,        \* indices of m_waiters, one per worker
  Notifiers,      \* threads that call notify_one / notify_all / notify_n
  Nil,            \* nullptr, and the empty-stack sentinel FFFF
  EpochModulus,   \* 2^32 in the code
  StartEpoch,
  Budgets         \* bound: how often each thread may call prepare_wait or a
                  \* notify function; a behaviour begins with one of these

ASSUME NotifierAssumption ==
  /\ IsFiniteSet(Waiters) /\ Waiters # {}
  /\ Nil \notin Waiters
  /\ Waiters \cap Notifiers = {}
  /\ EpochModulus \in Nat /\ EpochModulus > 1
  /\ StartEpoch \in 0..(EpochModulus - 1)
  /\ Budgets \subseteq [Waiters \cup Notifiers -> Nat]
  /\ \A b \in Budgets : 2 * Total(b, Waiters) < EpochModulus

VARIABLES
  m_state,    \* [epoch, pre, top]
  next,       \* Waiter::next
  wstate,     \* Waiter::state
  snap,       \* Waiter::epoch: the word prepare_wait's fetch_add returned
  pc,         \* where each thread is
  reg,        \* the local variable "state" of each thread
  quota,      \* notify_n's remaining n
  cur,        \* the waiter a notifier is popping or unparking
  nxt,        \* its successor as the notifier read it
  rounds,     \* prepare_wait calls left
  calls       \* notify calls left

vars == <<m_state, next, wstate, snap, pc, reg, quota, cur, nxt, rounds, calls>>

Threads == Waiters \cup Notifiers
Size == Cardinality(Waiters)
Word == [epoch : 0..(EpochModulus - 1), pre : 0..Size, top : Waiters \cup {Nil}]

\* The initial word; also the value of a variable whose content is dead.
Blank == [epoch |-> StartEpoch, pre |-> 0, top |-> Nil]

\* Epochs are compared by the sign of their difference (RFC 1982).
Distance(a, b) ==
  LET d == (a - b) % EpochModulus
  IN  IF 2 * d < EpochModulus THEN d ELSE d - EpochModulus

Advance(word, k) == [word EXCEPT !.epoch = (@ + k) % EpochModulus, !.pre = @ - k]

\* A settled ticket is not read again before prepare_wait overwrites it.
Settled(w) == snap' = [snap EXCEPT ![w] = Blank]

\* Mutant: the tickets drawn earlier are not counted.
TargetIgnoresQueue(w) == snap[w].epoch

\* target = snapshot.epoch + snapshot.prewaiter
Target(w) == (snap[w].epoch + snap[w].pre) % EpochModulus

\* How far the word is from the waiter's turn: negative, not yet.
Turn(w) == Distance(m_state.epoch, Target(w))

Goto(t, from, to) ==
  /\ pc[t] = from
  /\ pc' = [pc EXCEPT ![t] = to]

Load(t) == reg' = [reg EXCEPT ![t] = m_state]

\* The local variable goes out of scope.
Leave(t) == reg' = [reg EXCEPT ![t] = Blank]

Init ==
  /\ m_state = Blank
  /\ next = [w \in Waiters |-> Nil]
  /\ wstate = [w \in Waiters |-> "NotSignaled"]
  /\ snap = [w \in Waiters |-> Blank]
  /\ pc = [t \in Threads |-> IF t \in Waiters THEN "out" ELSE "idle"]
  /\ reg = [t \in Threads |-> Blank]
  /\ quota = [n \in Notifiers |-> 0]
  /\ cur = [n \in Notifiers |-> Nil]
  /\ nxt = [n \in Notifiers |-> Nil]
  /\ \E b \in Budgets : /\ rounds = [w \in Waiters |-> b[w]]
                         /\ calls = [n \in Notifiers |-> b[n]]

-----------------------------------------------------------------------------
(* Waiters.                                                                *)

notifierVars == <<quota, cur, nxt, calls>>

PrepareWait(w) ==
  /\ rounds[w] > 0
  /\ Goto(w, "out", "prepared")
  /\ snap' = [snap EXCEPT ![w] = m_state]
  /\ m_state' = [m_state EXCEPT !.pre = @ + 1]
  /\ rounds' = [rounds EXCEPT ![w] = @ - 1]
  /\ UNCHANGED <<next, wstate, reg, notifierVars>>

\* The predicate was true on the recheck: withdraw.
CancelWait(w) ==
  /\ Goto(w, "prepared", "cancelTry")
  /\ UNCHANGED <<m_state, next, wstate, snap, reg, rounds, notifierVars>>

\* Mutant: the ticket is withdrawn without a turn for the next holder.
CancelSettleKeepsEpoch(w) ==
  /\ Turn(w) = 0
  /\ Goto(w, "cancelTry", "out")
  /\ m_state' = [m_state EXCEPT !.pre = @ - 1]
  /\ Settled(w)
  /\ UNCHANGED <<next, wstate, reg, rounds, notifierVars>>

\* The waiter's turn: count the ticket out and let the next holder in.
CancelSettle(w) ==
  /\ Turn(w) = 0
  /\ Goto(w, "cancelTry", "out")
  /\ m_state' = Advance(m_state, 1)
  /\ Settled(w)
  /\ UNCHANGED <<next, wstate, reg, rounds, notifierVars>>

\* The predicate was still false: wait.
CommitWait(w) ==
  /\ Goto(w, "prepared", "commitTry")
  /\ wstate' = [wstate EXCEPT ![w] = "NotSignaled"]
  /\ UNCHANGED <<m_state, next, snap, reg, rounds, notifierVars>>

\* A notification has consumed the ticket: nothing to undo, no sleep.
PassedOver(w) ==
  /\ Turn(w) > 0
  /\ pc[w] \in {"cancelTry", "commitTry"}
  /\ Goto(w, pc[w], "out")
  /\ Settled(w)
  /\ UNCHANGED <<m_state, next, wstate, reg, rounds, notifierVars>>

CommitLink(w) ==
  /\ Turn(w) = 0
  /\ Goto(w, "commitTry", "commitCas")
  /\ Load(w)
  /\ next' = [next EXCEPT ![w] = m_state.top]
  /\ UNCHANGED <<m_state, wstate, snap, rounds, notifierVars>>

CommitPush(w) ==
  /\ IF m_state = reg[w]
     THEN /\ m_state' = [Advance(m_state, 1) EXCEPT !.top = w]
          /\ Goto(w, "commitCas", "parkCas")
          /\ Settled(w)
     ELSE Goto(w, "commitCas", "commitTry") /\ UNCHANGED <<m_state, snap>>
  /\ Leave(w)
  /\ UNCHANGED <<next, wstate, rounds, notifierVars>>

\* _park: skip the system call when the signal came first.
ParkCas(w) ==
  /\ IF wstate[w] = "NotSignaled"
     THEN /\ wstate' = [wstate EXCEPT ![w] = "Waiting"]
          /\ Goto(w, "parkCas", "parkWait")
     ELSE Goto(w, "parkCas", "out") /\ UNCHANGED wstate
  /\ UNCHANGED <<m_state, next, snap, reg, rounds, notifierVars>>

\* std::atomic::wait: block while the value is kWaiting; a wake-up rechecks it.
ParkWait(w) ==
  /\ Goto(w, "parkWait", IF wstate[w] = "Waiting" THEN "blocked" ELSE "out")
  /\ UNCHANGED <<m_state, next, wstate, snap, reg, rounds, notifierVars>>

-----------------------------------------------------------------------------
(* Notifiers.                                                              *)

waiterVars == <<snap, rounds>>

NotifyCall(n, at, k) ==
  /\ calls[n] > 0
  /\ Goto(n, "idle", at)
  /\ quota' = [quota EXCEPT ![n] = k]
  /\ calls' = [calls EXCEPT ![n] = @ - 1]
  /\ UNCHANGED <<m_state, next, wstate, reg, cur, nxt, waiterVars>>

NotifyOne(n) == NotifyCall(n, "popTry", 1)
NotifyAll(n) == NotifyCall(n, "allTry", 0)

\* notify_n(0) returns at once; notify_n(k) with k >= size is notify_all.
NotifyN(n) == \E k \in 2..(Size - 1) : NotifyCall(n, "popTry", k)

NotifyNobody(n) ==
  /\ pc[n] \in {"popTry", "allTry"}
  /\ m_state.top = Nil /\ m_state.pre = 0
  /\ Goto(n, pc[n], "idle")
  /\ quota' = [quota EXCEPT ![n] = 0]
  /\ UNCHANGED <<m_state, next, wstate, reg, cur, nxt, calls, waiterVars>>

\* Where a loop of notify_n goes when k of the quota are left.
Again(k) == IF k = 0 THEN "idle" ELSE "popTry"

\* Tickets first: one CAS releases min(quota, pre) of them.
ReleaseTickets(n) ==
  LET consumed == IF quota[n] < m_state.pre THEN quota[n] ELSE m_state.pre
  IN  /\ m_state.pre > 0
      /\ Goto(n, "popTry", Again(quota[n] - consumed))
      /\ m_state' = Advance(m_state, consumed)
      /\ quota' = [quota EXCEPT ![n] = @ - consumed]
      /\ UNCHANGED <<next, wstate, reg, cur, nxt, calls, waiterVars>>

\* The word is loaded, then the next of the waiter on top.
PopLoad(n) ==
  /\ m_state.pre = 0 /\ m_state.top # Nil
  /\ Goto(n, "popTry", "popRead")
  /\ Load(n)
  /\ UNCHANGED <<m_state, next, wstate, quota, cur, nxt, calls, waiterVars>>

PopRead(n) ==
  /\ Goto(n, "popRead", "popCas")
  /\ nxt' = [nxt EXCEPT ![n] = next[reg[n].top]]
  /\ UNCHANGED <<m_state, next, wstate, reg, quota, cur, calls, waiterVars>>

\* Mutant: a failed compare-exchange refreshes the word but not the successor.
PopCasKeepsSuccessor(n) ==
  /\ IF m_state = reg[n]
     THEN /\ m_state' = [m_state EXCEPT !.top = nxt[n]]
          /\ Goto(n, "popCas", "unlink")
          /\ cur' = [cur EXCEPT ![n] = reg[n].top]
          /\ quota' = [quota EXCEPT ![n] = @ - 1]
          /\ nxt' = [nxt EXCEPT ![n] = Nil]
          /\ Leave(n)
     ELSE /\ m_state.top # Nil /\ m_state.pre = 0
          /\ Goto(n, "popCas", "popCas") /\ Load(n)
          /\ UNCHANGED <<m_state, cur, quota, nxt>>
  /\ UNCHANGED <<next, wstate, calls, waiterVars>>

PopCas(n) ==
  /\ IF m_state = reg[n]
     THEN /\ m_state' = [m_state EXCEPT !.top = nxt[n]]
          /\ Goto(n, "popCas", "unlink")
          /\ cur' = [cur EXCEPT ![n] = reg[n].top]
          /\ quota' = [quota EXCEPT ![n] = @ - 1]
     ELSE Goto(n, "popCas", "popTry") /\ UNCHANGED <<m_state, cur, quota>>
  /\ Leave(n)
  /\ nxt' = [nxt EXCEPT ![n] = Nil]
  /\ UNCHANGED <<next, wstate, calls, waiterVars>>

\* w->next.store(nullptr, relaxed)
Unlink(n) ==
  /\ Goto(n, "unlink", "unpark")
  /\ next' = [next EXCEPT ![cur[n]] = Nil]
  /\ UNCHANGED <<m_state, wstate, reg, quota, cur, nxt, calls, waiterVars>>

\* notify_all: consume every ticket and take the whole stack.
TakeAll(n) ==
  /\ m_state.pre > 0 \/ m_state.top # Nil
  /\ Goto(n, "allTry", IF m_state.top = Nil THEN "idle" ELSE "unpark")
  /\ m_state' = [Advance(m_state, m_state.pre) EXCEPT !.top = Nil]
  /\ cur' = [cur EXCEPT ![n] = m_state.top]
  /\ UNCHANGED <<next, wstate, reg, quota, nxt, calls, waiterVars>>

\* _unpark: read next before the exchange that lets the waiter go.
UnparkRead(n) ==
  /\ Goto(n, "unpark", "signal")
  /\ nxt' = [nxt EXCEPT ![n] = next[cur[n]]]
  /\ UNCHANGED <<m_state, next, wstate, reg, quota, cur, calls, waiterVars>>

\* The step of _unpark's loop from one waiter to the next.
AfterUnpark(n) == IF nxt[n] = Nil THEN Again(quota[n]) ELSE "unpark"

NextInChain(n) ==
  /\ cur' = [cur EXCEPT ![n] = nxt[n]]
  /\ nxt' = [nxt EXCEPT ![n] = Nil]

\* Mutant: the state is set and a thread that already blocks is not woken.
UnparkSignalOnly(n) ==
  /\ pc[n] = "signal"
  /\ wstate' = [wstate EXCEPT ![cur[n]] = "Signaled"]
  /\ Goto(n, "signal", AfterUnpark(n)) /\ NextInChain(n)
  /\ UNCHANGED <<m_state, next, reg, quota, calls, waiterVars>>

UnparkSignal(n) ==
  /\ pc[n] = "signal"
  /\ wstate' = [wstate EXCEPT ![cur[n]] = "Signaled"]
  /\ IF wstate[cur[n]] = "Waiting"
     THEN Goto(n, "signal", "wake") /\ UNCHANGED <<cur, nxt>>
     ELSE Goto(n, "signal", AfterUnpark(n)) /\ NextInChain(n)
  /\ UNCHANGED <<m_state, next, reg, quota, calls, waiterVars>>

\* atomic::notify_one: a thread blocked on the value rechecks it.
UnparkWake(n) ==
  /\ pc[n] = "wake"
  /\ NextInChain(n)
  /\ pc' = [t \in Threads |->
              CASE t = n -> AfterUnpark(n)
                [] t = cur[n] /\ pc[t] = "blocked" -> "parkWait"
                [] OTHER -> pc[t]]
  /\ UNCHANGED <<m_state, next, wstate, reg, quota, calls, waiterVars>>

-----------------------------------------------------------------------------
WaiterRuns(w) ==
  \/ CancelWait(w) \/ CancelSettle(w) \/ PassedOver(w)
  \/ CommitWait(w) \/ CommitLink(w) \/ CommitPush(w)
  \/ ParkCas(w) \/ ParkWait(w)

NotifierRuns(n) ==
  \/ NotifyNobody(n) \/ ReleaseTickets(n) \/ PopLoad(n) \/ PopRead(n) \/ PopCas(n)
  \/ Unlink(n) \/ TakeAll(n) \/ UnparkRead(n) \/ UnparkSignal(n) \/ UnparkWake(n)

Next ==
  \/ \E w \in Waiters : PrepareWait(w) \/ WaiterRuns(w)
  \/ \E n \in Notifiers :
       NotifyOne(n) \/ NotifyAll(n) \/ NotifyN(n) \/ NotifierRuns(n)

Spec == Init /\ [][Next]_vars

\* A running thread keeps running; nobody is obliged to start a call.
FairSpec ==
  /\ Spec
  /\ \A w \in Waiters : WF_vars(WaiterRuns(w))
  /\ \A n \in Notifiers : WF_vars(NotifierRuns(n))

-----------------------------------------------------------------------------
(* Derived state.                                                          *)

\* The waiters reached from a waiter through next, in that order.
Chain(links, first) ==
  LET at[k \in 1..(Size + 1)] ==
        IF k = 1 THEN first ELSE IF at[k - 1] = Nil THEN Nil ELSE links[at[k - 1]]
      len == Cardinality({k \in 1..Size : at[k] # Nil})
  IN  [k \in 1..len |-> at[k]]

ChainFrom(first) == Chain(next, first)

Stack == ChainFrom(m_state.top)

ChainSet(first) ==
  LET chain == ChainFrom(first) IN {chain[k] : k \in DOMAIN chain}

Parking == {"parkCas", "parkWait", "blocked"}

\* Committed to sleep and not signalled.
Asleep(w) == pc[w] \in Parking /\ wstate[w] # "Signaled"

\* A ticket is live from prepare_wait until the epoch passes it.
HoldsTicket(w) ==
  /\ pc[w] \in {"prepared", "cancelTry", "commitTry", "commitCas"}
  /\ Distance(m_state.epoch, Target(w)) <= 0

\* The holders of the k-th turn from now: one, by TicketsConsecutive.
TurnAfter(k) == {w \in Waiters : HoldsTicket(w) /\ Distance(Target(w), m_state.epoch) = k - 1}

Tickets ==
  [k \in 1..m_state.pre |->
     IF TurnAfter(k) = {} THEN Nil ELSE CHOOSE w \in TurnAfter(k) : TRUE]

\* The sleepers a notifier has taken off the stack and still has to signal.
OwedBy(n) ==
  CASE pc[n] = "unlink" -> {cur[n]}
    [] pc[n] = "unpark" -> ChainSet(cur[n])
    [] pc[n] = "signal" -> {cur[n]} \cup ChainSet(nxt[n])
    [] pc[n] = "wake" -> ChainSet(nxt[n])
    [] OTHER -> {}

-----------------------------------------------------------------------------
(* Properties.                                                             *)

TypeOK ==
  /\ m_state \in Word
  /\ next \in [Waiters -> Waiters \cup {Nil}]
  /\ wstate \in [Waiters -> {"NotSignaled", "Waiting", "Signaled"}]
  /\ snap \in [Waiters -> Word]
  /\ pc \in [Threads -> {"out", "prepared", "cancelTry", "commitTry", "commitCas",
                         "parkCas", "parkWait", "blocked",
                         "idle", "popTry", "allTry", "popRead", "popCas", "unlink", "unpark",
                         "signal", "wake"}]
  /\ reg \in [Threads -> Word]
  /\ quota \in [Notifiers -> 0..Size]
  /\ cur \in [Notifiers -> Waiters \cup {Nil}]
  /\ nxt \in [Notifiers -> Waiters \cup {Nil}]
  /\ rounds \in [Waiters -> Nat]
  /\ calls \in [Notifiers -> Nat]

\* No lost sleeper: a thread asleep in commit_wait is on the stack, where the
\* next notification finds it, or some notifier still has to signal it.
NoneStranded ==
  \A w \in Waiters :
    Asleep(w) => w \in ChainSet(m_state.top) \cup UNION {OwedBy(n) : n \in Notifiers}

\* A sleeper is claimed by one notifier at a time, and whoever is on the
\* stack or owed a signal is still asleep: no thread has left commit_wait and
\* begun to reuse its Waiter while a traversal still depends on it.
ClaimedOnce ==
  /\ \A n \in Notifiers : OwedBy(n) \cap ChainSet(m_state.top) = {}
  /\ \A n1, n2 \in Notifiers : n1 # n2 => OwedBy(n1) \cap OwedBy(n2) = {}
  /\ \A w \in ChainSet(m_state.top) \cup UNION {OwedBy(n) : n \in Notifiers} : Asleep(w)

\* The types; and the sleepers are exactly those on the stack and those a
\* notifier still has to signal, each in one place.
SleepersAccounted == TypeOK /\ NoneStranded /\ ClaimedOnce

\* The live tickets are exactly epoch, ..., epoch + prewaiter - 1, one waiter
\* each: the ticket machine neither skips nor repeats a turn, so the waiter
\* whose turn it is finds prewaiter # 0, as commit_wait and cancel_wait assert.
TicketsConsecutive ==
  LET live == {w \in Waiters : HoldsTicket(w)}
  IN  /\ Cardinality(live) = m_state.pre
      /\ {Distance(Target(w), m_state.epoch) : w \in live} = 0..(m_state.pre - 1)

\* Every change of the state word is a step of the event count: tickets settle
\* oldest first, notifications take tickets before sleepers and sleepers last
\* in first out, and nothing else changes who waits.
EC == INSTANCE EventCount WITH tickets <- Tickets, sleepers <- Stack

ImplementsEventCount == EC!ECSpec

\* Nobody waits forever in the notifier's hands: whoever draws a ticket gets
\* its turn or is passed over, because every earlier holder settles too, and a
\* sleeper that a notification has taken off the stack leaves commit_wait.
\* Only a sleeper still on the stack may stay, until a notification comes.
WaitersMove ==
  \A w \in Waiters :
    []<>(pc[w] = "out" \/ w \in ChainSet(m_state.top))
=============================================================================
