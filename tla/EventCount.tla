----------------------------- MODULE EventCount -----------------------------
(***************************************************************************)
(* What the Notifier (src/taskflowlite/core/notifier.hpp) promises its     *)
(* callers, at the level of its linearisation points: every change of the  *)
(* 64-bit state word is one step here.                                     *)
(*                                                                         *)
(* A thread that called prepare_wait holds a ticket.  Tickets settle in    *)
(* the order they were drawn: by the owner's commit_wait (it then sleeps), *)
(* by the owner's cancel_wait, or by a notification, which releases ticket *)
(* holders before it releases sleepers.  Sleepers are released last in,    *)
(* first out.                                                              *)
(***************************************************************************)
EXTENDS Naturals, Sequences, Functions

CONSTANT Waiters

VARIABLES
  tickets,    \* unsettled tickets, oldest first
  sleepers    \* committed waiters that no notification has claimed, newest first

ecVars == <<tickets, sleepers>>

ECTypeOK ==
  /\ tickets \in Seq(Waiters)
  /\ sleepers \in Seq(Waiters)

ECInit ==
  /\ tickets = <<>>
  /\ sleepers = <<>>

\* The waiter neither holds a ticket nor sleeps.
Free(w) == w \notin Range(tickets) \cup Range(sleepers)

AnyWaiter == tickets # <<>> \/ sleepers # <<>>

Prepare(w) ==
  /\ Free(w)
  /\ tickets' = Append(tickets, w)
  /\ UNCHANGED sleepers

\* A ticket settles only when it is the oldest one.
Cancel(w) ==
  /\ tickets # <<>> /\ Head(tickets) = w
  /\ tickets' = Tail(tickets)
  /\ UNCHANGED sleepers

Commit(w) ==
  /\ tickets # <<>> /\ Head(tickets) = w
  /\ tickets' = Tail(tickets)
  /\ sleepers' = <<w>> \o sleepers

\* A notification for k waiters releases up to k ticket holders in one step.
ReleaseTickets(k) ==
  /\ tickets # <<>>
  /\ tickets' = SubSeq(tickets, (IF k < Len(tickets) THEN k ELSE Len(tickets)) + 1, Len(tickets))
  /\ UNCHANGED sleepers

\* With no ticket left, it claims the newest sleeper.
ReleaseSleeper ==
  /\ tickets = <<>> /\ sleepers # <<>>
  /\ sleepers' = Tail(sleepers)
  /\ UNCHANGED tickets

ReleaseAll ==
  /\ AnyWaiter
  /\ tickets' = <<>>
  /\ sleepers' = <<>>

ECNext ==
  \/ \E w \in Waiters : Prepare(w) \/ Cancel(w) \/ Commit(w)
  \/ \E k \in 1..Len(tickets) : ReleaseTickets(k)
  \/ ReleaseSleeper
  \/ ReleaseAll

ECSpec == ECInit /\ [][ECNext]_ecVars
=============================================================================
