----------------------------- MODULE SmallVector ------------------------------
(***************************************************************************)
(* SmallVector of src/taskflowlite/core/small_vector.hpp: an array with    *)
(* room for a few elements inside the object and on the heap beyond that.  *)
(*                                                                         *)
(* The subject is what is left when one step of a call fails: an element   *)
(* that cannot be copied or moved, memory that cannot be had.  An operator *)
(* takes the memory m and returns the set of its outcomes, each a memory   *)
(* and whether the call was left by an exception.  A call belongs to one   *)
(* thread, so nothing comes between its steps.                             *)
(*                                                                         *)
(* Elements either move without failing (m.nothrow), or are copied when    *)
(* the storage changes, and then every copy and move may fail.  Byte-wise  *)
(* relocation (memcpy, realloc) is the first case.  Sizes stay far from    *)
(* max_size(), and iterators are indices.                                  *)
(***************************************************************************)
EXTENDS Integers, Sequences, SequencesExt

CONSTANTS
  N,          \* inline capacity
  HeapBlocks, \* names of heap allocations
  Default,    \* the element a default constructor makes
  Hollow,     \* an element that was moved from
  Absent         \* no element

\* A vector and another one; a temporary of a range and one of swap.
Vectors == {"this", "rhs", "range", "swap"}
Inline(x) == IF x = "range" THEN 0 ELSE N

\* Where the data pointer of a vector points to.  A pure heap vector without
\* memory has its empty inline storage instead of a null pointer.
Storages == Vectors \cup HeapBlocks
Vacant(n) == [i \in 1..n |-> Absent]

\* cells has the memory of every storage; a heap block of no cells is free.
\* sound: no element was made over another, used or destroyed where there is
\* none, and no block was freed that still has some.
NewMemory(nothrow) ==
  [data |-> [x \in Vectors |-> x], size |-> [x \in Vectors |-> 0],
   capacity |-> [x \in Vectors |-> Inline(x)],
   cells |-> [s \in Storages |-> IF s \in Vectors THEN Vacant(Inline(s)) ELSE <<>>],
   nothrow |-> nothrow, sound |-> TRUE]

At(m, x, i) == [storage |-> m.data[x], cell |-> i]
Read(m, at) ==
  IF at.cell \in DOMAIN m.cells[at.storage] THEN m.cells[at.storage][at.cell] ELSE Absent
Contents(m, x) == [i \in 1..m.size[x] |-> Read(m, At(m, x, i))]

-----------------------------------------------------------------------------
(* Outcomes: after how many steps, and whether by an exception.            *)

Done(m) == {[m |-> m, threw |-> FALSE, steps |-> 0]}
Threw(m, k) == {[m |-> m, threw |-> TRUE, steps |-> k]}

\* What follows when nothing was thrown.
Then(outcomes, next(_)) ==
  UNION {IF o.threw THEN {o} ELSE next(o.m) : o \in outcomes}

\* A handler that throws again.
Catch(outcomes, handler(_)) ==
  {IF o.threw THEN [o EXCEPT !.m = handler(o.m)] ELSE o : o \in outcomes}

\* An argument is a value or a reference to an element of some vector.
Nowhere == [storage |-> Absent, cell |-> 0]
Val(v) == [value |-> v, at |-> Nowhere, moves |-> FALSE, throws |-> TRUE]
Ref(at) == [value |-> Absent, at |-> at, moves |-> FALSE, throws |-> TRUE]
Moved(m, at) == [value |-> Absent, at |-> at, moves |-> TRUE, throws |-> ~m.nothrow]
Value(m, a) == IF a.at = Nowhere THEN a.value ELSE Read(m, a.at)

\* One element is constructed ("make") or assigned.
Put(m, do, at, a) ==
  LET v    == Value(m, a)
      from == IF a.moves THEN [m EXCEPT !.cells[a.at.storage][a.at.cell] = Hollow] ELSE m
  IN  IF /\ v # Absent
         /\ at.cell \in DOMAIN m.cells[at.storage]
         /\ (Read(m, at) = Absent) = (do = "make")
      THEN [from EXCEPT !.cells[at.storage][at.cell] = v]
      ELSE [m EXCEPT !.sound = FALSE]

Step(do, at, a) == [do |-> do, at |-> at, arg |-> a]
Apply(m, steps) == FoldLeft(LAMBDA n, s : Put(n, s.do, s.at, s.arg), m, steps)

\* All the steps, or those before one that throws.
Run(m, steps) ==
  Done(Apply(m, steps)) \cup
  UNION {Threw(Apply(m, SubSeq(steps, 1, k)), k) :
           k \in {j \in 0 .. Len(steps) - 1 : steps[j + 1].arg.throws}}

-----------------------------------------------------------------------------
(* Elements and storage.                                                   *)

\* Cells i + 1 .. i + n of a storage.
Cells(s, i, n) == [j \in 1..n |-> [storage |-> s, cell |-> i + j]]

\* _destroy_n
DestroyN(m, s, i, n) ==
  FoldLeft(LAMBDA k, at : IF Read(k, at) = Absent THEN [k EXCEPT !.sound = FALSE]
                          ELSE [k EXCEPT !.cells[at.storage][at.cell] = Absent],
           m, Cells(s, i, n))

\* What was constructed before the exception is destroyed again.
CopyConstructN(m, s, i, args) ==
  {IF o.threw THEN [o EXCEPT !.m = DestroyN(o.m, s, i, o.steps)] ELSE o :
     o \in Run(m, [j \in DOMAIN args |-> Step("make", Cells(s, i, j)[j], args[j])])}

\* What _fill_construct_n and _default_construct_n construct from.
Fill(n, a) == [j \in 1..n |-> a]
Defaults(n) == Fill(n, Val(Default))

\* move_if_noexcept
Relocated(m, at) == IF m.nothrow THEN Moved(m, at) ELSE Ref(at)

RelocateConstructN(m, s, i, from, j, n) ==
  CopyConstructN(m, s, i, [k \in 1..n |-> Relocated(m, Cells(from, j, n)[k])])

NextBlock(m) == CHOOSE h \in HeapBlocks : m.cells[h] = <<>>

AllocateRaw(m, n) ==
  Threw(m, 0) \cup Done([m EXCEPT !.cells[NextBlock(m)] = Vacant(n)])

DeallocateRaw(m, s) ==
  [m EXCEPT !.cells[s] = <<>>, !.sound = @ /\ m.cells[s] = Vacant(Len(m.cells[s]))]

IsHeap(m, x) == m.data[x] \in HeapBlocks
ReleaseHeap(m, x) == IF IsHeap(m, x) THEN DeallocateRaw(m, m.data[x]) ELSE m

Points(m, x, s, size, capacity) ==
  [m EXCEPT !.data[x] = s, !.size[x] = size, !.capacity[x] = capacity]
ResetEmpty(m, x) == Points(m, x, x, 0, Inline(x))
SetSize(m, x, n) == [m EXCEPT !.size[x] = n]

\* The last cells from i on end, and so does their part of the size.
Cut(m, x, i) == SetSize(DestroyN(m, m.data[x], i, m.size[x] - i), x, i)

Clear(m, x) == Cut(m, x, 0)
Destruct(m, x) == ResetEmpty(ReleaseHeap(Clear(m, x), x), x)
CleanupFailedConstruction(m, x) == Destruct(m, x)

NextCapacity(current, required) ==
  IF 2 * current + 1 > required THEN 2 * current + 1 ELSE required

\* The old elements have been relocated to block h.
MoveTo(m, x, h, size, capacity) ==
  Points(ReleaseHeap(Cut(m, x, 0), x), x, h, size, capacity)

Reallocate(m, x, capacity) ==
  LET h == NextBlock(m)
  IN  Then(AllocateRaw(m, capacity), LAMBDA a :
      Then(Catch(RelocateConstructN(a, h, 0, m.data[x], 0, m.size[x]),
                 LAMBDA e : DeallocateRaw(e, h)), LAMBDA b :
      Done(MoveTo(b, x, h, m.size[x], capacity))))

-----------------------------------------------------------------------------
(* Growth: the new elements first, for the arguments may refer to the old  *)
(* storage; then the old ones around them.                                 *)

\* Mutant: the old ones first.
GrowRelocatingFirst(m, x, i, args) ==
  LET h == NextBlock(m)  old == m.data[x]  n == m.size[x]  k == Len(args)
      capacity == NextCapacity(m.capacity[x], n + k)
  IN  Then(AllocateRaw(m, capacity), LAMBDA a :
      Then(Catch(RelocateConstructN(a, h, 0, old, 0, i),
                 LAMBDA e : DeallocateRaw(e, h)), LAMBDA b :
      Then(Catch(CopyConstructN(b, h, i, args),
                 LAMBDA e : DeallocateRaw(DestroyN(e, h, 0, i), h)), LAMBDA c :
      Then(Catch(RelocateConstructN(c, h, i + k, old, i, n - i),
                 LAMBDA e : DeallocateRaw(DestroyN(DestroyN(e, h, 0, i), h, i, k), h)),
           LAMBDA d : Done(MoveTo(d, x, h, n + k, capacity))))))

\* _grow_and_insert_forward, and the operators below for its siblings.
GrowAndInsertForward(m, x, i, args) ==
  LET h == NextBlock(m)  old == m.data[x]  n == m.size[x]  k == Len(args)
      capacity == NextCapacity(m.capacity[x], n + k)
  IN  Then(AllocateRaw(m, capacity), LAMBDA a :
      Then(Catch(CopyConstructN(a, h, i, args),
                 LAMBDA e : DeallocateRaw(e, h)), LAMBDA b :
      Then(Catch(RelocateConstructN(b, h, 0, old, 0, i),
                 LAMBDA e : DeallocateRaw(DestroyN(e, h, i, k), h)), LAMBDA c :
      Then(Catch(RelocateConstructN(c, h, i + k, old, i, n - i),
                 LAMBDA e : DeallocateRaw(DestroyN(DestroyN(e, h, 0, i), h, i, k), h)),
           LAMBDA d : Done(MoveTo(d, x, h, n + k, capacity))))))

GrowAndEmplaceBack(m, x, a) == GrowAndInsertForward(m, x, m.size[x], <<a>>)
GrowAndEmplaceAt(m, x, i, a) == GrowAndInsertForward(m, x, i, <<a>>)
GrowAndInsertFill(m, x, i, n, a) ==
  GrowAndInsertForward(m, x, i, Fill(n, a))

EmplaceBack(m, x, a) ==
  LET n == m.size[x]
  IN  IF n < m.capacity[x]
      THEN Then(CopyConstructN(m, m.data[x], n, <<a>>), LAMBDA b : Done(SetSize(b, x, n + 1)))
      ELSE GrowAndEmplaceBack(m, x, a)

\* One after the other, as a single-pass range gives them.
EmplaceEach(m, x, args) ==
  FoldLeft(LAMBDA o, a : Then(o, LAMBDA b : EmplaceBack(b, x, a)), Done(m), args)

\* _append_constructed
AppendConstructed(m, x, args) ==
  LET n == m.size[x]
  IN  IF n + Len(args) <= m.capacity[x]
      THEN Then(CopyConstructN(m, m.data[x], n, args),
                LAMBDA b : Done(SetSize(b, x, n + Len(args))))
      ELSE GrowAndInsertForward(m, x, n, args)

-----------------------------------------------------------------------------
(* Constructors; a constructor that throws leaves nothing.                 *)

\* Enough memory for n elements.
Provided(m, x, n) ==
  IF n <= m.capacity[x] THEN Done(m)
  ELSE Then(AllocateRaw(m, n), LAMBDA a : Done(Points(a, x, NextBlock(m), 0, n)))

ConstructForward(m, x, args) ==
  Then(Provided(m, x, Len(args)), LAMBDA a :
  Then(CopyConstructN(a, a.data[x], 0, args), LAMBDA b :
  Done(SetSize(b, x, Len(args)))))

\* _construct_range; a single-pass range grows the vector.
ConstructRange(m, x, args, singlePass) ==
  IF singlePass THEN EmplaceEach(m, x, args) ELSE ConstructForward(m, x, args)

ConstructFill(m, x, n, a) == ConstructForward(m, x, Fill(n, a))

\* SmallVector(It, S) and the copy constructors.
FromRange(m, x, args, singlePass) ==
  Catch(ConstructRange(m, x, args, singlePass), LAMBDA e : CleanupFailedConstruction(e, x))

FromCount(m, x, n, a) ==
  Catch(ConstructFill(m, x, n, a), LAMBDA e : CleanupFailedConstruction(e, x))

FromDefault(m, x, n) ==
  Catch(AppendConstructed(m, x, Defaults(n)),
        LAMBDA e : CleanupFailedConstruction(e, x))

\* The storage of y becomes that of x.
Steal(m, x, y) ==
  ResetEmpty(Points(m, x, m.data[y], m.size[y], m.capacity[y]), y)

\* The elements of y become those of x, which has room.
TakeElements(m, x, y) ==
  Then(RelocateConstructN(m, m.data[x], 0, m.data[y], 0, m.size[y]),
       LAMBDA b : Done(Clear(SetSize(b, x, m.size[y]), y)))

MoveConstructFrom(m, x, y) ==
  IF IsHeap(m, y) THEN Done(Steal(m, x, y))
  ELSE Then(Provided(m, x, m.size[y]), LAMBDA a : TakeElements(a, x, y))

FromMoved(m, x, y) ==
  Catch(MoveConstructFrom(m, x, y), LAMBDA e : CleanupFailedConstruction(e, x))

MoveAssignFrom(m, x, y) ==
  IF IsHeap(m, y) THEN Done(Steal(ReleaseHeap(Clear(m, x), x), x, y))
  ELSE LET a == Clear(m, x)
           b == IF m.size[y] > m.capacity[x] THEN ResetEmpty(ReleaseHeap(a, x), x) ELSE a
       IN  Then(Provided(b, x, m.size[y]), LAMBDA c : TakeElements(c, x, y))

\* A temporary of the elements of a range, for as long as use needs it.
WithTemporary(m, args, singlePass, use(_, _)) ==
  Then(FromRange(m, "range", args, singlePass), LAMBDA a :
    {[o EXCEPT !.m = Destruct(o.m, "range")] :
       o \in use(a, [i \in DOMAIN args |-> Moved(a, At(a, "range", i))])})

-----------------------------------------------------------------------------
(* Insertion in place: only the basic guarantee.                           *)

\* The cells from i to n move k places back, the last one first.
MoveBackward(m, x, i, n, k) ==
  [j \in 1 .. n - i |-> Step("assign", At(m, x, n + k + 1 - j), Moved(m, At(m, x, n + 1 - j)))]
Assigns(m, x, i, args) ==
  [j \in DOMAIN args |-> Step("assign", At(m, x, i + j), args[j])]

\* Mutant: the size is raised at the end.
EmplaceSizedLast(m, x, i, a) ==
  LET n == m.size[x]  s == m.data[x]
      temporary == [Val(Value(m, a)) EXCEPT !.throws = ~m.nothrow]
  IN  IF i = n THEN EmplaceBack(m, x, a)
      ELSE IF n = m.capacity[x] THEN GrowAndEmplaceAt(m, x, i, a)
      ELSE Threw(m, 0) \cup
           Then(RelocateConstructN(m, s, n, s, n - 1, 1), LAMBDA b :
           Then(Run(b, MoveBackward(m, x, i, n - 1, 1) \o Assigns(m, x, i, <<temporary>>)),
                LAMBDA c : Done(SetSize(c, x, n + 1))))

\* emplace, and insert of one element: the argument becomes a temporary before
\* anything moves.
Emplace(m, x, i, a) ==
  LET n == m.size[x]  s == m.data[x]
      temporary == [Val(Value(m, a)) EXCEPT !.throws = ~m.nothrow]
  IN  IF i = n THEN EmplaceBack(m, x, a)
      ELSE IF n = m.capacity[x] THEN GrowAndEmplaceAt(m, x, i, a)
      ELSE Threw(m, 0) \cup
           Then(RelocateConstructN(m, s, n, s, n - 1, 1), LAMBDA b :
             Run(SetSize(b, x, n + 1),
                 MoveBackward(m, x, i, n - 1, 1) \o Assigns(m, x, i, <<temporary>>)))

\* _insert_forward.  More new elements than old ones behind them: the last new
\* ones are constructed behind the end.
InsertForward(m, x, i, args) ==
  LET n == m.size[x]  s == m.data[x]  k == Len(args)  tail == n - i
  IN  IF n + k > m.capacity[x] THEN GrowAndInsertForward(m, x, i, args)
      ELSE IF k <= tail
      THEN Then(RelocateConstructN(m, s, n, s, n - k, k), LAMBDA b :
             Run(SetSize(b, x, n + k), MoveBackward(m, x, i, n - k, k) \o Assigns(m, x, i, args)))
      ELSE Then(CopyConstructN(m, s, n, SubSeq(args, tail + 1, k)), LAMBDA b :
           Then(Catch(RelocateConstructN(b, s, i + k, s, i, tail),
                      LAMBDA e : DestroyN(e, s, n, k - tail)), LAMBDA c :
             Run(SetSize(c, x, n + k), Assigns(m, x, i, SubSeq(args, 1, tail)))))

InsertFill(m, x, i, n, a) ==
  IF m.size[x] + n > m.capacity[x] THEN GrowAndInsertFill(m, x, i, n, a)
  ELSE InsertForward(m, x, i, Fill(n, a))

\* A reference to an element of the vector is copied first.
Own(m, x, a) == a.at.storage = m.data[x]
Safe(m, x, a, use(_)) ==
  IF Own(m, x, a) THEN Threw(m, 0) \cup use(Val(Value(m, a))) ELSE use(a)

InsertCount(m, x, i, n, a) == Safe(m, x, a, LAMBDA b : InsertFill(m, x, i, n, b))

\* insert(pos, first, last): a range of the vector itself and a single-pass
\* one become a temporary.
InsertRange(m, x, i, args, singlePass) ==
  IF singlePass \/ \E j \in DOMAIN args : Own(m, x, args[j])
  THEN WithTemporary(m, args, singlePass, LAMBDA b, moved : InsertForward(b, x, i, moved))
  ELSE InsertForward(m, x, i, args)

-----------------------------------------------------------------------------
(* Appending and resizing.                                                 *)

AppendCount(m, x, n, a) == AppendConstructed(m, x, Fill(n, a))

\* append(first, last): a single pass that fails takes back what it appended.
AppendRange(m, x, args, singlePass) ==
  IF \E j \in DOMAIN args : Own(m, x, args[j])
  THEN WithTemporary(m, args, singlePass, LAMBDA b, moved :
         AppendConstructed(b, x, [j \in DOMAIN moved |-> Relocated(b, moved[j].at)]))
  ELSE IF singlePass
  THEN Catch(EmplaceEach(m, x, args), LAMBDA e : Cut(e, x, m.size[x]))
  ELSE AppendConstructed(m, x, args)

Truncate(m, x, n) == Cut(m, x, n)

\* resize(count), resize_for_overwrite
Resize(m, x, n) ==
  IF n < m.size[x] THEN Done(Truncate(m, x, n))
  ELSE AppendConstructed(m, x, Defaults(n - m.size[x]))

ResizeWith(m, x, n, a) ==
  IF n < m.size[x] THEN Done(Truncate(m, x, n))
  ELSE AppendConstructed(m, x, Fill(n - m.size[x], a))

-----------------------------------------------------------------------------
(* Assignment: only the basic guarantee, unless new memory is needed.      *)

\* What was constructed behind the old end is destroyed again.
AssignForward(m, x, args) ==
  LET n == m.size[x]  k == Len(args)  h == NextBlock(m)
      common == IF n < k THEN n ELSE k
  IN  IF k > m.capacity[x]
      THEN Then(AllocateRaw(m, k), LAMBDA a :
           Then(Catch(CopyConstructN(a, h, 0, args), LAMBDA e : DeallocateRaw(e, h)),
                LAMBDA b : Done(MoveTo(b, x, h, k, k))))
      ELSE Then(Run(m, Assigns(m, x, 0, SubSeq(args, 1, common))), LAMBDA a :
           IF k < n THEN Done(Cut(a, x, k))
           ELSE Then(CopyConstructN(a, m.data[x], n, SubSeq(args, n + 1, k)),
                     LAMBDA b : Done(SetSize(b, x, k))))

AssignFill(m, x, n, a) == AssignForward(m, x, Fill(n, a))
AssignCount(m, x, n, a) == Safe(m, x, a, LAMBDA b : AssignFill(m, x, n, b))

\* _assign_input: assigns, and goes on appending.
AssignInput(m, x, args) ==
  LET n == m.size[x]  common == IF n < Len(args) THEN n ELSE Len(args)
  IN  Then(Run(m, Assigns(m, x, 0, SubSeq(args, 1, common))), LAMBDA a :
        IF Len(args) <= n THEN Done(Cut(a, x, Len(args)))
        ELSE EmplaceEach(a, x, SubSeq(args, n + 1, Len(args))))

AssignRange(m, x, args, singlePass) ==
  IF args = <<>> THEN Done(Clear(m, x))
  ELSE IF \E j \in DOMAIN args : Own(m, x, args[j])
  THEN WithTemporary(m, args, singlePass, LAMBDA b, moved : AssignForward(b, x, moved))
  ELSE IF singlePass THEN AssignInput(m, x, args) ELSE AssignForward(m, x, args)

-----------------------------------------------------------------------------
(* Removal, capacity, exchange.                                            *)

\* erase(first, last): the elements behind move up.
EraseRange(m, x, i, j) ==
  LET n == m.size[x]
  IN  IF i = j THEN Done(m)
      ELSE Then(Run(m, Assigns(m, x, i, [k \in 1 .. n - j |-> Moved(m, At(m, x, j + k))])),
                LAMBDA a : Done(Cut(a, x, n - (j - i))))

\* std::remove_if, and erase of what is left behind.
EraseIf(m, x, drops) ==
  LET kept  == SelectSeq([i \in 1..m.size[x] |-> i], LAMBDA i : Contents(m, x)[i] \notin drops)
      shift == SelectSeq([k \in DOMAIN kept |-> <<k, kept[k]>>], LAMBDA p : p[1] # p[2])
  IN  Then(Run(m, [k \in DOMAIN shift |->
                     Step("assign", At(m, x, shift[k][1]), Moved(m, At(m, x, shift[k][2])))]),
           LAMBDA a : EraseRange(a, x, Len(kept), m.size[x]))

PopBack(m, x) == Cut(m, x, m.size[x] - 1)

Reserve(m, x, n) == IF n <= m.capacity[x] THEN Done(m) ELSE Reallocate(m, x, n)

ShrinkToFit(m, x) ==
  LET n == m.size[x]
  IN  IF ~IsHeap(m, x) THEN Done(m)
      ELSE IF n = 0 THEN Done(ResetEmpty(ReleaseHeap(m, x), x))
      ELSE IF n <= Inline(x)
      THEN Then(RelocateConstructN(m, x, 0, m.data[x], 0, n),
                LAMBDA b : Done(MoveTo(b, x, x, n, Inline(x))))
      ELSE IF m.capacity[x] # n THEN Reallocate(m, x, n) ELSE Done(m)

\* The temporary ends when the call is left, whatever it then holds.
Swap(m, x, y) ==
  IF IsHeap(m, x) /\ IsHeap(m, y)
  THEN Done(Points(Points(m, x, m.data[y], m.size[y], m.capacity[y]),
                   y, m.data[x], m.size[x], m.capacity[x]))
  ELSE Then(FromMoved(m, "swap", x), LAMBDA a :
         {[o EXCEPT !.m = Destruct(o.m, "swap")] :
            o \in Then(MoveAssignFrom(a, x, y), LAMBDA b : MoveAssignFrom(b, y, "swap"))})

-----------------------------------------------------------------------------

\* The vector x has exactly the elements its size says, in its own storage or
\* in a block of its capacity.
VectorSound(m, x) ==
  LET s == m.data[x]
  IN  /\ s \in {x} \cup HeapBlocks
      /\ Len(m.cells[s]) = m.capacity[x]
      /\ \A i \in DOMAIN m.cells[s] : (m.cells[s][i] # Absent) = (i <= m.size[x])
      /\ s # x => m.cells[x] = Vacant(Inline(x))

\* Between two calls nothing is leaked, shared or used out of its lifetime.
CellsOwned(m) ==
  /\ m.sound
  /\ \A x \in Vectors : VectorSound(m, x)
  /\ \A x, y \in Vectors : x # y => m.data[x] # m.data[y]
  /\ \A h \in HeapBlocks : m.cells[h] # <<>> => \E x \in Vectors : m.data[x] = h
  /\ m.size["range"] = 0 /\ m.size["swap"] = 0
=============================================================================
