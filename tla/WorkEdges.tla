------------------------------ MODULE WorkEdges ------------------------------
(***************************************************************************)
(* The edges of a Work and its requests, as src/taskflowlite/core/work.hpp *)
(* keeps them.  m_edges is one array, the successors before the            *)
(* predecessors; m_acquires is sorted by address, which SemaphoreLock      *)
(* relies on.  The operators here take and return Works, or the function   *)
(* from Works to their records where both ends of an edge change.          *)
(***************************************************************************)
EXTENDS Naturals, Sequences, SequencesExt, Invokers

Nothing == "nothing"

\* A Work as a graph owns it.  A failed replacement leaves it without a type.
NoWork ==
  [graph |-> Nothing, type |-> Nothing, edges |-> <<>>, nsucc |-> 0,
   acquires |-> <<>>, releases |-> <<>>]

Created(g, k) == [NoWork EXCEPT !.graph = g, !.type = k]

Successors(x) == SubSeq(x.edges, 1, x.nsucc)
Predecessors(x) == SubSeq(x.edges, x.nsucc + 1, Len(x.edges))
IndexOf(seq, w) == CHOOSE i \in DOMAIN seq : seq[i] = w

IsJump(x) == x.type \in Kinds /\ ~Invoker[x.type].strong

-----------------------------------------------------------------------------
(* The two ends of an edge.                                                *)

\* The last successor fills the hole, the last predecessor fills its place.
EraseSuccessorAt(x, i) ==
  LET filled == [x.edges EXCEPT ![i] = x.edges[x.nsucc]]
      moved  == [filled EXCEPT ![x.nsucc] = Last(filled)]
  IN  [x EXCEPT !.edges = Front(IF x.nsucc < Len(x.edges) THEN moved ELSE filled),
                !.nsucc = @ - 1]

ErasePredecessorAt(x, i) ==
  [x EXCEPT !.edges = Front([@ EXCEPT ![x.nsucc + i] = Last(x.edges)])]

\* Appended, then exchanged with the first predecessor.
PushSuccessor(x, v) ==
  LET e == Append(x.edges, v)  n == x.nsucc + 1
  IN  [x EXCEPT !.edges = [e EXCEPT ![n] = v, ![Len(e)] = e[n]],
                !.nsucc = n]

PushPredecessor(x, u) == [x EXCEPT !.edges = Append(@, u)]

EraseSuccessor(x, v) == EraseSuccessorAt(x, IndexOf(Successors(x), v))
ErasePredecessor(x, u) == ErasePredecessorAt(x, IndexOf(Predecessors(x), u))

-----------------------------------------------------------------------------
(* Edges of the Works in f.                                                *)

\* _precede.  Either array may fail to grow; the second failure takes the
\* successor back.
Connected(f, u, v) ==
  LET g == [f EXCEPT ![u] = PushSuccessor(@, v)]
  IN  [g EXCEPT ![v] = PushPredecessor(@, u)]

\* Mutant: the successor stays.
HalfConnected(f, u, v) == {f, [f EXCEPT ![u] = PushSuccessor(@, v)]}

Unconnected(f, u, v) ==
  {f, [f EXCEPT ![u] = LET x == PushSuccessor(@, v) IN EraseSuccessorAt(x, x.nsucc)]}

RemoveSuccessor(f, u, v) ==
  IF v \notin Range(Successors(f[u])) THEN f
  ELSE LET g == [f EXCEPT ![u] = EraseSuccessor(@, v)]
       IN  [g EXCEPT ![v] = ErasePredecessor(@, u)]

\* Each predecessor is there once, so the order of the loop does not matter.  A
\* Work that jumps to itself is its own predecessor, and the array it goes
\* through shrinks; the cell behind the end still holds the last one.
ClearPredecessors(f, v) ==
  LET g == [w \in DOMAIN f |-> IF w \in Range(Predecessors(f[v]))
                              THEN EraseSuccessor(f[w], v) ELSE f[w]]
  IN  [g EXCEPT ![v].edges = Successors(g[v])]

ClearSuccessors(f, u) ==
  LET g == [w \in DOMAIN f |-> IF w \in Range(Successors(f[u]))
                              THEN ErasePredecessor(f[w], u) ELSE f[w]]
  IN  [g EXCEPT ![u].edges = Predecessors(g[u]), ![u].nsucc = 0]

-----------------------------------------------------------------------------
(* _can_precede.                                                           *)

\* What is decided without a search: "refused", "fine", or "search".
MayPrecede(f, u, v) ==
  IF f[u].graph = Nothing \/ f[u].graph # f[v].graph \/ v \in Range(Successors(f[u]))
  THEN "refused"
  ELSE IF u = v THEN (IF IsJump(f[u]) THEN "fine" ELSE "refused")
  ELSE IF IsJump(f[u]) \/ IsJump(f[v]) THEN "fine" ELSE "search"

\* Mutant: only the first new successor is followed.
ExpandFirst(f, search) ==
  LET curr == Last(search.stack)
      new  == SelectSeq(Successors(f[curr]),
                        LAMBDA v : v \notin search.visited /\ ~IsJump(f[v]))
      one  == IF new = <<>> THEN new ELSE <<new[1]>>
  IN  [search EXCEPT !.stack = Front(@) \o one, !.visited = @ \cup Range(one)]

Visit(f, s, v) ==
  IF v \in s.visited \/ IsJump(f[v]) THEN s
  ELSE [s EXCEPT !.stack = Append(@, v), !.visited = @ \cup {v}]

\* One round of the search: the Work on top of the stack is replaced by those
\* of its successors that are new and no jumps.
Expand(f, search) ==
  LET succ == Successors(f[Last(search.stack)])
      walk[i \in 0 .. Len(succ)] ==
        IF i = 0 THEN [search EXCEPT !.stack = Front(@)]
        ELSE Visit(f, walk[i - 1], succ[i])
  IN  walk[Len(succ)]

-----------------------------------------------------------------------------
(* Requests [sem, count]; semaphores are their addresses.                  *)

Asks(requests, s) == \E i \in DOMAIN requests : requests[i].sem = s

\* Mutant: it appends, as _release does.
AcquireLast(requests, s, n) ==
  IF n = 0 THEN requests ELSE Append(requests, [sem |-> s, count |-> n])

\* The first place that does not hold a smaller one (std::lower_bound).
LowerBound(requests, s) ==
  CHOOSE i \in 1 .. Len(requests) + 1 :
    /\ \A j \in 1 .. i - 1 : requests[j].sem < s
    /\ i <= Len(requests) => requests[i].sem >= s

\* _acquire puts the request where the order wants it.
Acquire(requests, s, n) ==
  IF n = 0 THEN requests
  ELSE InsertAt(requests, LowerBound(requests, s), [sem |-> s, count |-> n])

Release(requests, s, n) ==
  IF n = 0 THEN requests ELSE Append(requests, [sem |-> s, count |-> n])

RemoveAcquire(requests, s) ==
  IF ~Asks(requests, s) THEN requests ELSE RemoveAt(requests, LowerBound(requests, s))

\* The last release fills the hole.
RemoveRelease(requests, s) ==
  IF ~Asks(requests, s) THEN requests
  ELSE LET i == CHOOSE j \in DOMAIN requests : requests[j].sem = s
       IN  Front([requests EXCEPT ![i] = Last(requests)])
=============================================================================
