------------------------------ MODULE VectorCalls ------------------------------
(***************************************************************************)
(* A client of two SmallVectors: every call it can make, next to what the  *)
(* call does to a sequence.  The comment of the class promises what is     *)
(* left when a call throws (small_vector.hpp:106-111).                     *)
(***************************************************************************)
EXTENDS SmallVector

CONSTANTS
  Elements,
  Ranges,     \* sequences of elements that are inserted, appended, assigned
  MaxLength   \* of the sequences a call may make

VARIABLES
  mem,        \* the vectors as SmallVector has them
  contents    \* history: the sequences they should be

vectorVars == <<mem, contents>>

\* A start [nothrow, this, rhs, capacity]: vectors built by calls that did not
\* throw.
Returned(outcomes) == (CHOOSE o \in outcomes : ~o.threw).m
AsArgs(seq) == [i \in DOMAIN seq |-> Val(seq[i])]

VectorInit(s) ==
  LET a == Returned(FromRange(NewMemory(s.nothrow), "this", AsArgs(s.this), FALSE))
      b == Returned(FromRange(a, "rhs", AsArgs(s.rhs), FALSE))
  IN  /\ mem = Returned(Reserve(b, "this", s.capacity))
      /\ contents = [this |-> s.this, rhs |-> s.rhs]

-----------------------------------------------------------------------------

\* A call ends in one of its outcomes.  result: the sequences if nothing was
\* thrown; failed(m): those if something was and m is left.
Ends(outcomes, result, failed(_)) ==
  /\ \A x \in DOMAIN result : Len(result[x]) <= MaxLength
  /\ \E o \in outcomes :
       /\ mem' = o.m
       /\ contents' = IF o.threw THEN failed(o.m) ELSE result

\* The strong guarantee, and the basic one: some elements.
Kept(m) == contents
Basic(m) == [x \in DOMAIN contents |-> Contents(m, x)]
KeptIf(condition, m) == IF condition THEN Kept(m) ELSE Basic(m)

With(seq) == [contents EXCEPT !["this"] = seq]

\* Arguments: an element, or a reference to one of the vector itself.
Args == {Val(v) : v \in Elements} \cup
        {Ref(At(mem, "this", i)) : i \in 1 .. mem.size["this"]}

\* Ranges: elements given, the other vector, a part of the vector itself.
Refs(x, i, j) == [k \in 1 .. j - i |-> Ref(At(mem, x, i + k))]
Given == {AsArgs(r) : r \in Ranges}
RangeArgs == Given \cup {Refs("rhs", 0, mem.size["rhs"])} \cup
             {Refs("this", i, mem.size["this"]) : i \in 0 .. mem.size["this"] - 1}

Vals(args) == [k \in DOMAIN args |-> Value(mem, args[k])]
Copies(n, a) == [k \in 1..n |-> Value(mem, a)]
This == contents["this"]
Before(i) == SubSeq(This, 1, i)
After(i) == SubSeq(This, i + 1, Len(This))
Places == 0 .. Len(This)
Roomy(n) == Len(This) + n <= mem.capacity["this"]

\* Only a range of elements given can be a single pass.
Passes(args) == IF args \in Given THEN BOOLEAN ELSE {FALSE}

-----------------------------------------------------------------------------

PushBack ==
  \E a \in Args :
    Ends(EmplaceBack(mem, "this", a), With(Append(This, Value(mem, a))), Kept)

InsertOne ==
  \E i \in Places, a \in Args :
    Ends(Emplace(mem, "this", i, a),
         With(Append(Before(i), Value(mem, a)) \o After(i)),
         LAMBDA m : KeptIf(~Roomy(1) \/ i = Len(This), m))

InsertCopies ==
  \E i \in Places, n \in 1..2, a \in Args :
    Ends(InsertCount(mem, "this", i, n, a),
         With(Before(i) \o Copies(n, a) \o After(i)),
         LAMBDA m : KeptIf(~Roomy(n), m))

InsertAll ==
  \E i \in Places, args \in RangeArgs : \E pass \in Passes(args) :
    /\ args # <<>>
    /\ Ends(InsertRange(mem, "this", i, args, pass),
            With(Before(i) \o Vals(args) \o After(i)),
            LAMBDA m : KeptIf(~Roomy(Len(args)), m))

AppendCopies ==
  \E n \in 1..2, a \in Args :
    Ends(AppendCount(mem, "this", n, a), With(This \o Copies(n, a)), Kept)

AppendAll ==
  \E args \in RangeArgs : \E pass \in Passes(args) :
    /\ args # <<>>
    /\ Ends(AppendRange(mem, "this", args, pass), With(This \o Vals(args)), Kept)

ResizeTo ==
  \E n \in 0 .. MaxLength :
    \/ Ends(Resize(mem, "this", n),
            With(IF n <= Len(This) THEN Before(n)
                 ELSE This \o [k \in 1 .. n - Len(This) |-> Default]), Kept)
    \/ \E a \in Args :
         Ends(ResizeWith(mem, "this", n, a),
              With(IF n <= Len(This) THEN Before(n) ELSE This \o Copies(n - Len(This), a)),
              Kept)

AssignCopies ==
  \E n \in 0..2, a \in Args :
    Ends(AssignCount(mem, "this", n, a), With(Copies(n, a)),
         LAMBDA m : KeptIf(n > mem.capacity["this"], m))

AssignAll ==
  \E args \in RangeArgs : \E pass \in Passes(args) :
    Ends(AssignRange(mem, "this", args, pass), With(Vals(args)),
         LAMBDA m : KeptIf(Len(args) > mem.capacity["this"] /\ ~pass, m))

Erase ==
  \E i \in Places : \E j \in i .. Len(This) :
    Ends(EraseRange(mem, "this", i, j), With(Before(i) \o After(j)), Basic)

EraseAll ==
  \E v \in Elements :
    Ends(EraseIf(mem, "this", {v}), With(SelectSeq(This, LAMBDA e : e # v)), Basic)

Shorten ==
  \/ This # <<>> /\ Ends(Done(PopBack(mem, "this")), With(Before(Len(This) - 1)), Kept)
  \/ Ends(Done(Clear(mem, "this")), With(<<>>), Kept)

ChangeCapacity ==
  \/ \E n \in 1 .. MaxLength : Ends(Reserve(mem, "this", n), contents, Kept)
  \/ Ends(ShrinkToFit(mem, "this"), contents, Kept)

Exchange ==
  Ends(Swap(mem, "this", "rhs"), [x \in DOMAIN contents |->
         IF x = "this" THEN contents["rhs"] ELSE This], Basic)

\* The moved-from vector is empty.
MoveAssign ==
  Ends(MoveAssignFrom(mem, "this", "rhs"), [contents EXCEPT !["this"] = contents["rhs"], !["rhs"] = <<>>],
       LAMBDA m : With(<<>>))

\* The vector is destroyed, and another one constructed in its place.
Renew ==
  LET fresh == Destruct(mem, "this")  none(m) == With(<<>>)
  IN  \/ \E args \in Given \cup {Refs("rhs", 0, mem.size["rhs"])} : \E pass \in Passes(args) :
           Ends(FromRange(fresh, "this", args, pass), With(Vals(args)), none)
      \/ \E n \in 0..2 : Ends(FromDefault(fresh, "this", n),
                              With([k \in 1..n |-> Default]), none)
      \/ \E n \in 0..2, v \in Elements :
           Ends(FromCount(fresh, "this", n, Val(v)), With(Copies(n, Val(v))), none)
      \/ Ends(FromMoved(fresh, "this", "rhs"),
              [contents EXCEPT !["this"] = contents["rhs"], !["rhs"] = <<>>], none)

VectorNext ==
  \/ PushBack \/ InsertOne \/ InsertCopies \/ InsertAll
  \/ AppendCopies \/ AppendAll \/ ResizeTo \/ AssignCopies \/ AssignAll
  \/ Erase \/ EraseAll \/ Shorten \/ ChangeCapacity
  \/ Exchange \/ MoveAssign \/ Renew

-----------------------------------------------------------------------------

\* Whatever a call throws, every element is destroyed once and every block
\* freed once, or still belongs to a vector whose size counts it.
VectorsOwned == CellsOwned(mem)

\* A call that returns does what it does to a sequence, also when its argument
\* lies in the vector that grows; one that throws keeps the promise of the
\* class: growing, resizing and appending leave the elements as they were, and
\* a single pass that fails takes back what it has appended.
ContentsKept == \A x \in DOMAIN contents : Contents(mem, x) = contents[x]
=============================================================================
