------------------------------ MODULE WorkDeque ------------------------------
(***************************************************************************)
(* What BoundedQueue (src/taskflowlite/core/bounded_queue.hpp) promises:   *)
(* a bounded deque.  The owner appends a prefix of what it offers and      *)
(* takes from the back; thieves take from the front; every task comes out  *)
(* once.                                                                   *)
(***************************************************************************)
EXTENDS Naturals, Sequences, SequencesExt

CONSTANTS Tasks, Cap

VARIABLES
  content,    \* oldest first
  taken       \* how often each task came out

DequeInit ==
  /\ content = <<>>
  /\ taken = [v \in Tasks |-> 0]

Take(v) == taken' = [taken EXCEPT ![v] = @ + 1]

PushBack ==
  /\ \E v \in Tasks : content' = Append(content, v) \/ content' = content \o <<v, v + 1>>
  /\ Len(content') <= Cap
  /\ UNCHANGED taken

PopBack ==
  /\ content # <<>>
  /\ content' = Front(content)
  /\ Take(Last(content))

StealFront ==
  /\ content # <<>>
  /\ content' = Tail(content)
  /\ Take(Head(content))

DequeNext == PushBack \/ PopBack \/ StealFront

DequeSpec == DequeInit /\ [][DequeNext]_<<content, taken>>
=============================================================================
