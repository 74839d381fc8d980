---------------------------- MODULE SequenceFacts ----------------------------
(***************************************************************************)
(* Sequences without repetition: the chains of Works of the shared stacks, *)
(* the tickets and the sleepers of the notifier; and the sums of Counting. *)
(***************************************************************************)
EXTENDS Counting, SequenceTheorems, FiniteSetTheorems, FunctionTheorems, TLAPS

\* The empty chain holds nothing.
LEMMA RangeOfEmpty == Range(<<>>) = {} /\ IsInjective(<<>>)
  BY DEF Range, IsInjective

\* A chain of one Work.
LEMMA RangeOfSingleton ==
  ASSUME NEW S, NEW x \in S
  PROVE  <<x>> \in Seq(S) /\ Len(<<x>>) = 1 /\ Range(<<x>>) = {x} /\ IsInjective(<<x>>)
<1>1. <<x>> \in Seq(S) /\ Len(<<x>>) = 1 /\ <<x>>[1] = x
  OBVIOUS
<1>2. DOMAIN <<x>> = {1}
  OBVIOUS
<1> QED BY <1>1, <1>2 DEF Range, IsInjective

\* A chain has as many nodes as its length says, when no node occurs twice.
LEMMA RangeCounted ==
  ASSUME NEW S, NEW s \in Seq(S), IsInjective(s)
  PROVE  IsFiniteSet(Range(s)) /\ Cardinality(Range(s)) = Len(s)
<1>1. Len(s) \in Nat /\ s \in [1..Len(s) -> S] /\ DOMAIN s = 1..Len(s)
  BY LenProperties
<1>2. IsFiniteSet(1..Len(s)) /\ Cardinality(1..Len(s)) = Len(s)
  BY <1>1, FS_Interval
<1>3. s \in Bijection(1..Len(s), Range(s))
  BY <1>1 DEF Bijection, Injection, Surjection, Range
<1>4. ExistsBijection(1..Len(s), Range(s))
  BY <1>3 DEF ExistsBijection
<1> QED BY <1>2, <1>4, FS_Bijection

\* Splicing two chains without a common node repeats no node.
LEMMA InjectiveConcat ==
  ASSUME NEW S, NEW s \in Seq(S), NEW u \in Seq(S),
         IsInjective(s), IsInjective(u), Range(s) \cap Range(u) = {}
  PROVE  IsInjective(s \o u)
<1>1. /\ DOMAIN (s \o u) = 1..(Len(s) + Len(u))
      /\ \A i \in 1..(Len(s) + Len(u)) :
           (s \o u)[i] = IF i <= Len(s) THEN s[i] ELSE u[i - Len(s)]
  BY ConcatProperties, LenProperties
<1>2. /\ Len(s) \in Nat /\ DOMAIN s = 1..Len(s)
      /\ Len(u) \in Nat /\ DOMAIN u = 1..Len(u)
  BY LenProperties
<1>3. \A i \in 1..Len(s), j \in 1..Len(u) : s[i] # u[j]
  BY <1>2 DEF Range
<1> SUFFICES ASSUME NEW i \in 1..(Len(s) + Len(u)), NEW j \in 1..(Len(s) + Len(u)),
                    (s \o u)[i] = (s \o u)[j]
             PROVE  i = j
  BY <1>1 DEF IsInjective
<1>4. CASE i <= Len(s) /\ j <= Len(s)
  BY <1>1, <1>2, <1>4 DEF IsInjective
<1>5. CASE i > Len(s) /\ j > Len(s)
  <2>1. i - Len(s) \in 1..Len(u) /\ j - Len(s) \in 1..Len(u)
    BY <1>2, <1>5
  <2>2. u[i - Len(s)] = u[j - Len(s)]
    BY <1>1, <1>2, <1>5
  <2>3. i - Len(s) = j - Len(s)
    BY <1>2, <2>1, <2>2 DEF IsInjective
  <2> QED BY <1>2, <2>3
<1>6. CASE i <= Len(s) /\ j > Len(s)
  <2>1. i \in 1..Len(s) /\ j - Len(s) \in 1..Len(u)
    BY <1>2, <1>6
  <2> QED BY <1>1, <1>2, <1>3, <1>6, <2>1
<1>7. CASE i > Len(s) /\ j <= Len(s)
  <2>1. j \in 1..Len(s) /\ i - Len(s) \in 1..Len(u)
    BY <1>2, <1>7
  <2> QED BY <1>1, <1>2, <1>3, <1>7, <2>1
<1> QED BY <1>2, <1>4, <1>5, <1>6, <1>7

\* Taking the first node of a chain removes that node and no other.
LEMMA RangeOfTail ==
  ASSUME NEW S, NEW s \in Seq(S), s # <<>>, IsInjective(s)
  PROVE  /\ Range(Tail(s)) = Range(s) \ {Head(s)}
         /\ Head(s) \in Range(s)
         /\ IsInjective(Tail(s))
<1>1. /\ Head(s) = s[1]
      /\ Len(s) \in Nat \ {0} /\ DOMAIN s = 1..Len(s)
      /\ Len(Tail(s)) = Len(s) - 1
      /\ DOMAIN Tail(s) = 1..(Len(s) - 1)
      /\ \A i \in 1..(Len(s) - 1) : Tail(s)[i] = s[i + 1]
  BY HeadTailProperties, EmptySeq, LenProperties
<1>2. Head(s) \in Range(s)
  BY <1>1 DEF Range
<1>3. IsInjective(Tail(s))
  BY <1>1 DEF IsInjective
<1>4. ASSUME NEW x \in Range(Tail(s)) PROVE x \in Range(s) \ {Head(s)}
  <2>1. PICK i \in 1..(Len(s) - 1) : x = Tail(s)[i]
    BY <1>1, <1>4 DEF Range
  <2>2. i + 1 \in 1..Len(s) /\ x = s[i + 1] /\ i + 1 # 1
    BY <1>1, <2>1
  <2>3. x # s[1]
    BY <1>1, <2>2 DEF IsInjective
  <2> QED BY <1>1, <2>2, <2>3 DEF Range
<1>5. ASSUME NEW x \in Range(s) \ {Head(s)} PROVE x \in Range(Tail(s))
  <2>1. PICK i \in 1..Len(s) : x = s[i]
    BY <1>1, <1>5 DEF Range
  <2>2. i # 1
    BY <1>1, <1>5, <2>1
  <2>3. i - 1 \in 1..(Len(s) - 1) /\ x = Tail(s)[i - 1]
    BY <1>1, <2>1, <2>2
  <2> QED BY <1>1, <2>3 DEF Range
<1> QED BY <1>2, <1>3, <1>4, <1>5


\* What is left when the first m elements are cut off.
LEMMA RangeOfSuffix ==
  ASSUME NEW S, NEW s \in Seq(S), NEW u \in Seq(S), NEW m \in 0..Len(s),
         Len(u) = Len(s) - m, \A i \in 1..Len(u) : u[i] = s[m + i]
  PROVE  /\ Range(u) \subseteq Range(s)
         /\ IsInjective(s) => IsInjective(u) /\ \A i \in 1..m : s[i] \notin Range(u)
<1>1. /\ Len(s) \in Nat /\ DOMAIN s = 1..Len(s)
      /\ Len(u) \in Nat /\ DOMAIN u = 1..Len(u)
  BY LenProperties
<1>2. \A i \in 1..Len(u) : m + i \in 1..Len(s)
  BY <1>1
<1>3. ASSUME NEW x \in Range(u) PROVE x \in Range(s)
  <2>1. PICK i \in 1..Len(u) : x = u[i]
    BY <1>1, <1>3 DEF Range
  <2>2. x = s[m + i] /\ m + i \in DOMAIN s
    BY <1>1, <1>2, <2>1
  <2> QED BY <2>2 DEF Range
<1>4. ASSUME IsInjective(s) PROVE IsInjective(u)
  <2> SUFFICES ASSUME NEW i \in 1..Len(u), NEW j \in 1..Len(u), u[i] = u[j]
               PROVE  i = j
    BY <1>1 DEF IsInjective
  <2>1. s[m + i] = s[m + j] /\ m + i \in DOMAIN s /\ m + j \in DOMAIN s
    BY <1>1, <1>2
  <2>2. m + i = m + j
    BY <1>4, <2>1 DEF IsInjective
  <2> QED BY <1>1, <2>2
<1>5. ASSUME IsInjective(s), NEW i \in 1..m, s[i] \in Range(u) PROVE FALSE
  <2>1. PICK j \in 1..Len(u) : s[i] = u[j]
    BY <1>1, <1>5 DEF Range
  <2>2. s[i] = s[m + j] /\ i \in DOMAIN s /\ m + j \in DOMAIN s
    BY <1>1, <1>2, <2>1
  <2>3. i = m + j
    BY <1>5, <2>2 DEF IsInjective
  <2> QED BY <1>1, <2>3
<1> QED BY <1>3, <1>4, <1>5

\* What is left of a chain when its first m Works are taken.
LEMMA RangeOfCut ==
  ASSUME NEW S, NEW s \in Seq(S), NEW m \in 0..Len(s)
  PROVE  /\ SubSeq(s, m + 1, Len(s)) \in Seq(S)
         /\ Range(SubSeq(s, m + 1, Len(s))) \subseteq Range(s)
         /\ IsInjective(s) =>
              /\ IsInjective(SubSeq(s, m + 1, Len(s)))
              /\ \A i \in 1..m : s[i] \notin Range(SubSeq(s, m + 1, Len(s)))
<1> DEFINE u == SubSeq(s, m + 1, Len(s))
<1>1. Len(s) \in Nat /\ \A i \in 1..Len(s) : s[i] \in S
  BY LenProperties, ElementOfSeq
<1>2. \A i \in (m + 1)..Len(s) : s[i] \in S
  BY <1>1
<1>3. /\ u \in Seq(S)
      /\ Len(u) = IF m + 1 <= Len(s) THEN Len(s) - (m + 1) + 1 ELSE 0
      /\ \A i \in 1..(Len(s) - (m + 1) + 1) : u[i] = s[(m + 1) + i - 1]
  <2>1. m + 1 \in Int /\ Len(s) \in Int
    BY <1>1
  <2> QED BY <1>2, <2>1, SubSeqProperties
<1> HIDE DEF u
<1>4. Len(u) = Len(s) - m
  BY <1>1, <1>3
<1>5. ASSUME NEW i \in 1..Len(u) PROVE u[i] = s[m + i]
  <2>1. i \in 1..(Len(s) - (m + 1) + 1) /\ (m + 1) + i - 1 = m + i
    BY <1>1, <1>4
  <2>2. u[i] = s[(m + 1) + i - 1]
    BY <1>3, <2>1
  <2> QED BY <2>1, <2>2
<1>6. /\ Range(u) \subseteq Range(s)
      /\ IsInjective(s) => IsInjective(u) /\ \A i \in 1..m : s[i] \notin Range(u)
  BY <1>3, <1>4, <1>5, RangeOfSuffix
<1> QED BY <1>3, <1>6 DEF u

\* One more element, in front or at the back.
LEMMA RangeOfCons ==
  ASSUME NEW S, NEW s \in Seq(S), NEW x \in S
  PROVE  /\ <<x>> \o s \in Seq(S)
         /\ Range(<<x>> \o s) = Range(s) \cup {x}
         /\ IsInjective(s) /\ x \notin Range(s) => IsInjective(<<x>> \o s)
<1> DEFINE e == <<x>>
<1>1. e \in Seq(S) /\ Range(e) = {x} /\ IsInjective(e)
  BY RangeOfSingleton
<1> HIDE DEF e
<1>2. e \o s \in Seq(S) /\ Range(e \o s) = Range(e) \cup Range(s)
  BY <1>1, ConcatProperties, RangeConcatenation
<1>3. ASSUME IsInjective(s), x \notin Range(s) PROVE IsInjective(e \o s)
  BY <1>1, <1>3, InjectiveConcat
<1>4. /\ e \o s \in Seq(S)
      /\ Range(e \o s) = Range(s) \cup {x}
      /\ IsInjective(s) /\ x \notin Range(s) => IsInjective(e \o s)
  BY <1>1, <1>2, <1>3
<1> QED BY <1>4, Zenon DEF e

\* Joining the end of a chain.
LEMMA RangeOfAppend ==
  ASSUME NEW S, NEW s \in Seq(S), NEW x \in S
  PROVE  /\ Append(s, x) \in Seq(S)
         /\ Range(Append(s, x)) = Range(s) \cup {x}
         /\ IsInjective(s) /\ x \notin Range(s) => IsInjective(Append(s, x))
<1> DEFINE e == <<x>>
<1>1. e \in Seq(S) /\ Range(e) = {x} /\ IsInjective(e)
  BY RangeOfSingleton
<1>2. Append(s, x) = s \o e
  BY AppendIsConcat, Zenon
<1> HIDE DEF e
<1>3. s \o e \in Seq(S) /\ Range(s \o e) = Range(s) \cup Range(e)
  BY <1>1, ConcatProperties, RangeConcatenation
<1>4. ASSUME IsInjective(s), x \notin Range(s) PROVE IsInjective(s \o e)
  BY <1>1, <1>4, InjectiveConcat
<1> QED BY <1>1, <1>2, <1>3, <1>4

-----------------------------------------------------------------------------
(* Counting.                                                               *)

\* Two sets without a common element.
LEMMA CountDisjoint ==
  ASSUME NEW S, NEW T, IsFiniteSet(S), IsFiniteSet(T), S \cap T = {}
  PROVE  IsFiniteSet(S \cup T) /\ Cardinality(S \cup T) = Cardinality(S) + Cardinality(T)
<1>1. Cardinality(S) \in Nat /\ Cardinality(T) \in Nat
  BY FS_CardinalityType
<1>2. Cardinality(S \cap T) = 0
  BY FS_EmptySet, Zenon
<1>3. /\ IsFiniteSet(S \cup T)
      /\ Cardinality(S \cup T) = Cardinality(S) + Cardinality(T) - Cardinality(S \cap T)
  BY FS_Union, Zenon
<1> QED BY <1>1, <1>2, <1>3

\* What one owner has.
LEMMA CountOwned ==
  ASSUME NEW d, NEW T, IsFiniteSet(T)
  PROVE  IsFiniteSet({d} \X T) /\ Cardinality({d} \X T) = Cardinality(T)
<1> DEFINE f == [e \in T |-> <<d, e>>]
<1>1. f \in Bijection(T, {d} \X T)
  <2>1. f \in [T -> {d} \X T]
    OBVIOUS
  <2>2. IsInjective(f)
    BY DEF IsInjective
  <2>3. \A p \in {d} \X T : \E e \in T : f[e] = p
    OBVIOUS
  <2> HIDE DEF f
  <2> QED BY <2>1, <2>2, <2>3 DEF Bijection, Injection, Surjection
<1>2. ExistsBijection(T, {d} \X T)
  BY <1>1 DEF ExistsBijection
<1> QED BY <1>2, FS_Bijection

\* When what one owner has changes, the sum changes by that.
LEMMA FamilyUpdate ==
  ASSUME NEW D, NEW d \in D, NEW g, NEW h, \A e \in D \ {d} : h[e] = g[e],
         IsFiniteSet(g[d]), IsFiniteSet(h[d]), IsFiniteSet(Family(g, D))
  PROVE  /\ IsFiniteSet(Family(h, D))
         /\ Cardinality(Family(h, D)) =
              Cardinality(Family(g, D)) - Cardinality(g[d]) + Cardinality(h[d])
<1> DEFINE Rest == Family(g, D \ {d})
           Before == {d} \X g[d]
           After == {d} \X h[d]
<1>1. Family(g, D) = Rest \cup Before /\ Rest \cap Before = {}
  BY DEF Family
<1>2. Family(h, D) = Rest \cup After /\ Rest \cap After = {}
  <2>1. Rest = Family(h, D \ {d})
    BY DEF Family
  <2>2. Family(h, D) = Family(h, D \ {d}) \cup After
    BY DEF Family
  <2>3. Rest \cap After = {}
    BY DEF Family
  <2> QED BY <2>1, <2>2, <2>3
<1>3. /\ IsFiniteSet(Before) /\ Cardinality(Before) = Cardinality(g[d])
      /\ IsFiniteSet(After) /\ Cardinality(After) = Cardinality(h[d])
  BY CountOwned
<1>4. IsFiniteSet(Rest)
  BY <1>1, FS_Subset
<1> HIDE DEF Rest, Before, After
<1>5. Cardinality(Family(g, D)) = Cardinality(Rest) + Cardinality(Before)
  BY <1>1, <1>3, <1>4, CountDisjoint
<1>6. /\ IsFiniteSet(Family(h, D))
      /\ Cardinality(Family(h, D)) = Cardinality(Rest) + Cardinality(After)
  BY <1>2, <1>3, <1>4, CountDisjoint
<1>7. Cardinality(Rest) \in Nat /\ Cardinality(Before) \in Nat /\ Cardinality(After) \in Nat
  BY <1>3, <1>4, FS_CardinalityType
<1> QED BY <1>3, <1>5, <1>6, <1>7

\* What one owner has is part of the sum.
LEMMA FamilyPart ==
  ASSUME NEW D, NEW d \in D, NEW g, IsFiniteSet(Family(g, D))
  PROVE  /\ IsFiniteSet(g[d])
         /\ Cardinality(g[d]) <= Cardinality(Family(g, D))
<1> DEFINE f == [p \in {d} \X g[d] |-> p[2]]
<1>1. {d} \X g[d] \subseteq Family(g, D)
  BY DEF Family
<1>2. /\ IsFiniteSet({d} \X g[d])
      /\ Cardinality({d} \X g[d]) <= Cardinality(Family(g, D))
  BY <1>1, FS_Subset
<1>3. f \in Surjection({d} \X g[d], g[d])
  <2>1. f \in [{d} \X g[d] -> g[d]]
    OBVIOUS
  <2>2. ASSUME NEW e \in g[d] PROVE \E p \in {d} \X g[d] : f[p] = e
    <3>1. <<d, e>> \in {d} \X g[d] /\ f[<<d, e>>] = e
      OBVIOUS
    <3> QED BY <3>1
  <2> HIDE DEF f
  <2> QED BY <2>1, <2>2 DEF Surjection
<1>4. IsFiniteSet(g[d])
  BY <1>2, <1>3, FS_Surjection
<1>5. Cardinality({d} \X g[d]) = Cardinality(g[d])
  BY <1>4, CountOwned
<1> QED BY <1>2, <1>4, <1>5

\* No owner has anything.
LEMMA FamilyEmpty ==
  ASSUME NEW D, NEW g, \A d \in D : g[d] = {}
  PROVE  IsFiniteSet(Family(g, D)) /\ Cardinality(Family(g, D)) = 0
<1>1. Family(g, D) = {}
  BY DEF Family
<1> QED BY <1>1, FS_EmptySet

-----------------------------------------------------------------------------
(* Where a value occurs.                                                   *)

\* An empty sequence, and one of one element.
LEMMA IndicesOfEmpty == \A x : Indices(<<>>, x) = {}
  BY DEF Indices

\* A value occurs finitely often in a sequence.
LEMMA IndicesFinite ==
  ASSUME NEW S, NEW s \in Seq(S), NEW x
  PROVE  IsFiniteSet(Indices(s, x)) /\ Cardinality(Indices(s, x)) \in Nat
<1>1. Len(s) \in Nat
  BY LenProperties
<1>2. IsFiniteSet(1..Len(s))
  BY <1>1, FS_Interval
<1>3. Indices(s, x) \subseteq 1..Len(s)
  BY DEF Indices
<1> QED BY <1>2, <1>3, FS_Subset, FS_CardinalityType

\* The occurrences in a concatenation add up.
LEMMA IndicesOfConcat ==
  ASSUME NEW S, NEW s \in Seq(S), NEW u \in Seq(S), NEW x
  PROVE  Cardinality(Indices(s \o u, x)) = Cardinality(Indices(s, x)) + Cardinality(Indices(u, x))
<1> DEFINE m == Len(s)
           n == Len(u)
           Front == Indices(s, x)
           Back == {i \in (m + 1)..(m + n) : (s \o u)[i] = x}
           f == [i \in Indices(u, x) |-> m + i]
<1>1. m \in Nat /\ n \in Nat
  BY LenProperties
<1>2. /\ Len(s \o u) = m + n
      /\ \A i \in 1..(m + n) : (s \o u)[i] = IF i <= m THEN s[i] ELSE u[i - m]
  BY ConcatProperties
<1> HIDE DEF m, n
<1>3. \A i \in 1..m : (s \o u)[i] = s[i]
  BY <1>1, <1>2
<1>4. \A i \in 1..n : (s \o u)[m + i] = u[i]
  <2> TAKE i \in 1..n
  <2>1. m + i \in 1..(m + n) /\ ~(m + i <= m) /\ (m + i) - m = i
    BY <1>1
  <2> QED BY <1>2, <2>1
<1>5. Indices(s \o u, x) = Front \cup Back /\ Front \cap Back = {}
  <2>1. \A i : i \in 1..(m + n) <=> i \in 1..m \/ i \in (m + 1)..(m + n)
    BY <1>1
  <2>2. \A i : i \in 1..m => i \notin (m + 1)..(m + n)
    BY <1>1
  <2>3. Len(s \o u) = m + n /\ Len(s) = m
    BY <1>2 DEF m
  <2> QED BY <1>3, <2>1, <2>2, <2>3 DEF Indices
<1>6. f \in Bijection(Indices(u, x), Back)
  <2>1. \A i \in Indices(u, x) : i \in 1..n /\ u[i] = x
    BY DEF Indices, n
  <2>2. ASSUME NEW i \in Indices(u, x) PROVE f[i] \in Back
    <3>1. i \in 1..n /\ u[i] = x
      BY <2>1
    <3>2. m + i \in (m + 1)..(m + n)
      BY <1>1, <3>1
    <3>3. (s \o u)[m + i] = x
      BY <1>4, <3>1
    <3> QED BY <3>2, <3>3
  <2>3. ASSUME NEW i \in Back PROVE \E j \in Indices(u, x) : f[j] = i
    <3>1. i - m \in 1..n /\ m + (i - m) = i
      BY <1>1
    <3>2. u[i - m] = x
      BY <1>4, <3>1
    <3>3. i - m \in Indices(u, x)
      BY <3>1, <3>2 DEF Indices, n
    <3> QED BY <3>1, <3>3
  <2>4. \A i, j \in Indices(u, x) : f[i] = f[j] => i = j
    BY <1>1, <2>1
  <2>5. f \in [Indices(u, x) -> Back] /\ DOMAIN f = Indices(u, x)
    BY <2>2
  <2> HIDE DEF f, Back
  <2> QED BY <2>3, <2>4, <2>5 DEF Bijection, Injection, Surjection, IsInjective
<1>7. IsFiniteSet(Front) /\ IsFiniteSet(Indices(u, x))
  BY IndicesFinite
<1>8. IsFiniteSet(Back) /\ Cardinality(Back) = Cardinality(Indices(u, x))
  <2>1. ExistsBijection(Indices(u, x), Back)
    BY <1>6 DEF ExistsBijection
  <2> QED BY <1>7, <2>1, FS_Bijection
<1> HIDE DEF Front, Back
<1>9. Cardinality(Indices(s \o u, x)) = Cardinality(Front) + Cardinality(Back)
  BY <1>5, <1>7, <1>8, CountDisjoint
<1> QED BY <1>8, <1>9 DEF Front

\* A sequence of one element.
LEMMA IndicesOfSingleton ==
  ASSUME NEW y, NEW x
  PROVE  Cardinality(Indices(<<y>>, x)) = IF y = x THEN 1 ELSE 0
<1>1. Len(<<y>>) = 1 /\ <<y>>[1] = y
  OBVIOUS
<1>2. CASE y = x
  <2>1. Indices(<<y>>, x) = {1}
    BY <1>1, <1>2 DEF Indices
  <2> QED BY <1>2, <2>1, FS_Singleton
<1>3. CASE y # x
  <2>1. Indices(<<y>>, x) = {}
    BY <1>1, <1>3 DEF Indices
  <2> QED BY <1>3, <2>1, FS_EmptySet
<1> QED BY <1>2, <1>3

\* One more element at the back.
LEMMA IndicesOfAppend ==
  ASSUME NEW S, NEW s \in Seq(S), NEW y \in S, NEW x
  PROVE  Cardinality(Indices(Append(s, y), x)) =
           Cardinality(Indices(s, x)) + IF y = x THEN 1 ELSE 0
<1> DEFINE e == <<y>>
<1>1. e \in Seq(S)
  OBVIOUS
<1>2. Append(s, y) = s \o e
  BY AppendIsConcat, Zenon
<1>3. Cardinality(Indices(e, x)) = IF y = x THEN 1 ELSE 0
  BY IndicesOfSingleton
<1> HIDE DEF e
<1>4. Cardinality(Indices(s \o e, x)) = Cardinality(Indices(s, x)) + Cardinality(Indices(e, x))
  BY <1>1, IndicesOfConcat
<1> QED BY <1>2, <1>3, <1>4

\* The first element taken off.
LEMMA IndicesOfTail ==
  ASSUME NEW S, NEW s \in Seq(S), s # <<>>, NEW x
  PROVE  Cardinality(Indices(Tail(s), x)) =
           Cardinality(Indices(s, x)) - IF Head(s) = x THEN 1 ELSE 0
<1> DEFINE e == <<Head(s)>>
           u == Tail(s)
<1>1. Len(s) \in Nat \ {0} /\ Head(s) \in S /\ u \in Seq(S)
  BY EmptySeq, HeadTailProperties
<1>2. s = e \o u
  <2>1. SubSeq(s, 1, Len(s)) = <<s[1]>> \o SubSeq(s, 1 + 1, Len(s))
    <3>1. 1 \in 1..Len(s) /\ Len(s) \in 1..Len(s)
      BY <1>1
    <3> QED BY <3>1, SubSeqRecursiveFirst
  <2>2. SubSeq(s, 1, Len(s)) = s /\ Tail(s) = SubSeq(s, 2, Len(s)) /\ Head(s) = s[1]
    BY SubSeqFull, TailIsSubSeq
  <2>3. 1 + 1 = 2
    OBVIOUS
  <2> QED BY <2>1, <2>2, <2>3
<1>3. e \in Seq(S) /\ Cardinality(Indices(e, x)) = IF Head(s) = x THEN 1 ELSE 0
  BY <1>1, IndicesOfSingleton
<1> HIDE DEF e, u
<1>4. Cardinality(Indices(s, x)) = Cardinality(Indices(e, x)) + Cardinality(Indices(u, x))
  BY <1>1, <1>2, <1>3, IndicesOfConcat
<1>5. Cardinality(Indices(u, x)) \in Nat
  BY <1>1, IndicesFinite
<1>6. Cardinality(Indices(u, x)) = Cardinality(Indices(s, x)) - IF Head(s) = x THEN 1 ELSE 0
  BY <1>3, <1>4, <1>5
<1> QED BY <1>6 DEF u

\* The last element taken off.
LEMMA IndicesOfFront ==
  ASSUME NEW S, NEW s \in Seq(S), s # <<>>, NEW x
  PROVE  /\ SubSeq(s, 1, Len(s) - 1) \in Seq(S) /\ s[Len(s)] \in S
         /\ Cardinality(Indices(SubSeq(s, 1, Len(s) - 1), x)) =
              Cardinality(Indices(s, x)) - IF s[Len(s)] = x THEN 1 ELSE 0
<1> DEFINE e == <<s[Len(s)]>>
           u == SubSeq(s, 1, Len(s) - 1)
<1>1. Len(s) \in Nat \ {0}
  BY EmptySeq
<1>2. s[Len(s)] \in S
  BY <1>1, ElementOfSeq
<1>3. u \in Seq(S)
  <2>1. \A i \in 1..(Len(s) - 1) : s[i] \in S
    BY <1>1, ElementOfSeq
  <2>2. 1 \in Int /\ Len(s) - 1 \in Int
    BY <1>1
  <2> QED BY <2>1, <2>2, SubSeqProperties
<1>4. s = u \o e
  <2>1. 1 \in 1..Len(s) /\ Len(s) \in 1..Len(s)
    BY <1>1
  <2> QED BY <2>1, SubSeqRecursiveSecond, SubSeqFull
<1>5. e \in Seq(S) /\ Cardinality(Indices(e, x)) = IF s[Len(s)] = x THEN 1 ELSE 0
  BY <1>2, IndicesOfSingleton
<1> HIDE DEF e, u
<1>6. Cardinality(Indices(s, x)) = Cardinality(Indices(u, x)) + Cardinality(Indices(e, x))
  BY <1>3, <1>4, <1>5, IndicesOfConcat
<1>7. Cardinality(Indices(u, x)) \in Nat
  BY <1>3, IndicesFinite
<1>8. Cardinality(Indices(u, x)) = Cardinality(Indices(s, x)) - IF s[Len(s)] = x THEN 1 ELSE 0
  BY <1>5, <1>6, <1>7
<1> QED BY <1>2, <1>3, <1>8 DEF u

\* A value is in a sequence when it occurs there.
LEMMA IndicesInRange ==
  ASSUME NEW S, NEW s \in Seq(S), NEW x
  PROVE  x \in Range(s) <=> Cardinality(Indices(s, x)) >= 1
<1>1. DOMAIN s = 1..Len(s)
  BY LenProperties
<1>2. x \in Range(s) <=> Indices(s, x) # {}
  BY <1>1 DEF Range, Indices
<1>3. IsFiniteSet(Indices(s, x)) /\ Cardinality(Indices(s, x)) \in Nat
  BY IndicesFinite
<1>4. Indices(s, x) = {} <=> Cardinality(Indices(s, x)) = 0
  BY <1>3, FS_EmptySet
<1> QED BY <1>2, <1>3, <1>4

\* What is in a sequence is its first element or comes later.
LEMMA RangeOfHeadTail ==
  ASSUME NEW S, NEW s \in Seq(S), s # <<>>
  PROVE  Head(s) \in Range(s) /\ Range(s) = {Head(s)} \cup Range(Tail(s))
<1>1. Tail(s) \in Seq(S) /\ Head(s) \in S
  BY HeadTailProperties
<1>2. ASSUME NEW x PROVE x \in Range(s) <=> x = Head(s) \/ x \in Range(Tail(s))
  <2>1. x \in Range(s) <=> Cardinality(Indices(s, x)) >= 1
    BY IndicesInRange
  <2>2. x \in Range(Tail(s)) <=> Cardinality(Indices(Tail(s), x)) >= 1
    BY <1>1, IndicesInRange
  <2>3. Cardinality(Indices(Tail(s), x)) =
          Cardinality(Indices(s, x)) - IF Head(s) = x THEN 1 ELSE 0
    BY IndicesOfTail
  <2>4. Cardinality(Indices(s, x)) \in Nat /\ Cardinality(Indices(Tail(s), x)) \in Nat
    BY <1>1, IndicesFinite
  <2> QED BY <2>1, <2>2, <2>3, <2>4
<1>3. Head(s) \in Range(s)
  BY <1>2
<1>4. \A x : x \in Range(s) <=> x \in {Head(s)} \cup Range(Tail(s))
  BY <1>2
<1> QED BY <1>3, <1>4

\* When one owner's sequence changes.
LEMMA PlacesUpdate ==
  ASSUME NEW D, NEW d \in D, NEW f, NEW h, NEW x, \A e \in D \ {d} : h[e] = f[e],
         IsFiniteSet(Indices(f[d], x)), IsFiniteSet(Indices(h[d], x)),
         IsFiniteSet(Places(f, D, x))
  PROVE  /\ IsFiniteSet(Places(h, D, x))
         /\ Cardinality(Places(h, D, x)) =
              Cardinality(Places(f, D, x))
                - Cardinality(Indices(f[d], x)) + Cardinality(Indices(h[d], x))
<1> DEFINE F == [e \in D |-> Indices(f[e], x)]
           H == [e \in D |-> Indices(h[e], x)]
<1>1. \A e \in D \ {d} : H[e] = F[e]
  OBVIOUS
<1>2. F[d] = Indices(f[d], x) /\ H[d] = Indices(h[d], x)
  OBVIOUS
<1>3. IsFiniteSet(F[d]) /\ IsFiniteSet(H[d])
  BY <1>2
<1>4. Places(f, D, x) = Family(F, D) /\ Places(h, D, x) = Family(H, D)
  BY DEF Places
<1> HIDE DEF F, H
<1>5. /\ IsFiniteSet(Family(H, D))
      /\ Cardinality(Family(H, D)) =
           Cardinality(Family(F, D)) - Cardinality(F[d]) + Cardinality(H[d])
  BY <1>1, <1>3, <1>4, FamilyUpdate
<1> QED BY <1>2, <1>4, <1>5

\* An owner's sequence gets one more element.
LEMMA PlacesAppend ==
  ASSUME NEW D, NEW d \in D, NEW S, NEW f, NEW h, NEW x, NEW y \in S,
         \A e \in D \ {d} : h[e] = f[e],
         f[d] \in Seq(S), Append(f[d], y) = h[d], IsFiniteSet(Places(f, D, x))
  PROVE  /\ IsFiniteSet(Places(h, D, x))
         /\ Cardinality(Places(h, D, x)) = Cardinality(Places(f, D, x)) + IF y = x THEN 1 ELSE 0
<1>1. /\ h[d] \in Seq(S)
      /\ Cardinality(Indices(h[d], x)) = Cardinality(Indices(f[d], x)) + IF y = x THEN 1 ELSE 0
  <2>1. \A s \in Seq(S) :
          /\ Append(s, y) \in Seq(S)
          /\ Cardinality(Indices(Append(s, y), x)) =
               Cardinality(Indices(s, x)) + IF y = x THEN 1 ELSE 0
    BY AppendProperties, IndicesOfAppend
  <2> QED BY <2>1
<1>2. /\ IsFiniteSet(Indices(f[d], x)) /\ IsFiniteSet(Indices(h[d], x))
      /\ Cardinality(Indices(f[d], x)) \in Nat
  BY <1>1, IndicesFinite
<1>3. /\ IsFiniteSet(Places(h, D, x))
      /\ Cardinality(Places(h, D, x)) =
           Cardinality(Places(f, D, x))
             - Cardinality(Indices(f[d], x)) + Cardinality(Indices(h[d], x))
  BY <1>2, PlacesUpdate
<1>4. Cardinality(Places(f, D, x)) \in Nat
  BY FS_CardinalityType
<1> QED BY <1>1, <1>2, <1>3, <1>4

\* Empty sequences.
LEMMA PlacesEmpty ==
  ASSUME NEW D, NEW f, NEW x, \A d \in D : f[d] = <<>>
  PROVE  IsFiniteSet(Places(f, D, x)) /\ Cardinality(Places(f, D, x)) = 0
<1> DEFINE F == [e \in D |-> Indices(f[e], x)]
<1>1. \A d \in D : F[d] = {}
  BY IndicesOfEmpty
<1>2. Places(f, D, x) = Family(F, D)
  BY DEF Places
<1> HIDE DEF F
<1> QED BY <1>1, <1>2, FamilyEmpty

-----------------------------------------------------------------------------
(* What numbers add up to.                                                 *)

\* A number as a set.
LEMMA UnitsOfOne ==
  ASSUME NEW n \in Nat
  PROVE  IsFiniteSet(1..n) /\ Cardinality(1..n) = n
<1>1. IsFiniteSet(1..n) /\ Cardinality(1..n) = IF 1 > n THEN 0 ELSE n - 1 + 1
  BY FS_Interval
<1> QED BY <1>1

\* When one owner's number changes.
LEMMA UnitsUpdate ==
  ASSUME NEW D, NEW d \in D, NEW f, NEW h, \A e \in D \ {d} : h[e] = f[e],
         f[d] \in Nat, h[d] \in Nat, IsFiniteSet(Units(f, D))
  PROVE  /\ IsFiniteSet(Units(h, D))
         /\ Cardinality(Units(h, D)) = Cardinality(Units(f, D)) - f[d] + h[d]
<1> DEFINE F == [e \in D |-> 1..f[e]]
           H == [e \in D |-> 1..h[e]]
<1>1. \A e \in D \ {d} : H[e] = F[e]
  OBVIOUS
<1>2. F[d] = 1..f[d] /\ H[d] = 1..h[d]
  OBVIOUS
<1>3. IsFiniteSet(F[d]) /\ Cardinality(F[d]) = f[d] /\ IsFiniteSet(H[d]) /\ Cardinality(H[d]) = h[d]
  BY <1>2, UnitsOfOne
<1>4. Units(f, D) = Family(F, D) /\ Units(h, D) = Family(H, D)
  BY DEF Units
<1> HIDE DEF F, H
<1>5. /\ IsFiniteSet(Family(H, D))
      /\ Cardinality(Family(H, D)) =
           Cardinality(Family(F, D)) - Cardinality(F[d]) + Cardinality(H[d])
  BY <1>1, <1>3, <1>4, FamilyUpdate
<1> QED BY <1>3, <1>4, <1>5

\* Each number is at most the sum.
LEMMA UnitsPart ==
  ASSUME NEW D, NEW d \in D, NEW f, f[d] \in Nat, IsFiniteSet(Units(f, D))
  PROVE  Cardinality(Units(f, D)) \in Nat /\ f[d] <= Cardinality(Units(f, D))
<1> DEFINE F == [e \in D |-> 1..f[e]]
<1>1. F[d] = 1..f[d] /\ Units(f, D) = Family(F, D)
  BY DEF Units
<1>2. Cardinality(F[d]) = f[d]
  BY <1>1, UnitsOfOne
<1> HIDE DEF F
<1>3. Cardinality(F[d]) <= Cardinality(Family(F, D))
  BY <1>1, FamilyPart
<1> QED BY <1>1, <1>2, <1>3, FS_CardinalityType

\* The same numbers add up to the same.
LEMMA UnitsSame ==
  ASSUME NEW D, NEW f, NEW h, \A d \in D : h[d] = f[d]
  PROVE  Units(h, D) = Units(f, D)
BY DEF Units, Family

\* Nothing adds up to nothing.
LEMMA UnitsEmpty ==
  ASSUME NEW D, NEW f, \A d \in D : f[d] = 0
  PROVE  IsFiniteSet(Units(f, D)) /\ Cardinality(Units(f, D)) = 0
<1> DEFINE F == [e \in D |-> 1..f[e]]
<1>1. \A d \in D : F[d] = {}
  OBVIOUS
<1>2. Units(f, D) = Family(F, D)
  BY DEF Units
<1> HIDE DEF F
<1> QED BY <1>1, <1>2, FamilyEmpty
\* When some owners get one more each.
LEMMA UnitsRaise ==
  ASSUME NEW D, NEW S \in SUBSET D, IsFiniteSet(S), NEW f, NEW h,
         \A d \in S : f[d] \in Nat /\ f[d] + 1 = h[d], \A d \in D \ S : h[d] = f[d],
         IsFiniteSet(Units(f, D))
  PROVE  /\ IsFiniteSet(Units(h, D))
         /\ Cardinality(Units(h, D)) = Cardinality(Units(f, D)) + Cardinality(S)
<1> DEFINE More == {<<d, h[d]>> : d \in S}
           g == [d \in S |-> <<d, h[d]>>]
<1>1. g \in Bijection(S, More)
  <2>1. g \in [S -> More] /\ \A t \in More : \E d \in S : g[d] = t
    OBVIOUS
  <2>2. IsInjective(g)
    BY DEF IsInjective
  <2> HIDE DEF g, More
  <2> QED BY <2>1, <2>2 DEF Bijection, Injection, Surjection
<1>2. IsFiniteSet(More) /\ Cardinality(More) = Cardinality(S)
  BY <1>1, FS_Bijection DEF ExistsBijection
<1>3. Units(h, D) = Units(f, D) \cup More
  <2>1. ASSUME NEW d \in D PROVE {d} \X (1..h[d]) = ({d} \X (1..f[d])) \cup
                                    (IF d \in S THEN {<<d, h[d]>>} ELSE {})
    <3>1. CASE d \in S
      <4>1. 1..h[d] = 1..f[d] \cup {h[d]}
        BY <3>1
      <4> QED BY <3>1, <4>1
    <3>2. CASE d \notin S
      BY <3>2
    <3> QED BY <3>1, <3>2
  <2>2. ASSUME NEW u PROVE u \in Units(h, D) <=> u \in Units(f, D) \cup More
    <3>1. u \in Units(h, D) <=> \E d \in D : u \in {d} \X (1..h[d])
      BY DEF Units, Family
    <3>2. u \in Units(f, D) <=> \E d \in D : u \in {d} \X (1..f[d])
      BY DEF Units, Family
    <3>3. u \in More <=> \E d \in D : u \in (IF d \in S THEN {<<d, h[d]>>} ELSE {})
      OBVIOUS
    <3> HIDE DEF More
    <3> QED BY <2>1, <3>1, <3>2, <3>3
  <2> QED BY <2>2
<1>4. Units(f, D) \cap More = {}
  <2> SUFFICES ASSUME NEW d \in S, <<d, h[d]>> \in Units(f, D) PROVE FALSE
    OBVIOUS
  <2>1. PICK e \in D : <<d, h[d]>> \in {e} \X (1..f[e])
    BY DEF Units, Family
  <2>2. e = d /\ h[d] \in 1..f[d]
    BY <2>1
  <2> QED BY <2>2
<1> HIDE DEF More
<1> QED BY <1>2, <1>3, <1>4, CountDisjoint
\* The sum of finitely many numbers is a number.
LEMMA UnitsFinite ==
  ASSUME NEW D, IsFiniteSet(D), NEW f, \A d \in D : f[d] \in Nat
  PROVE  IsFiniteSet(Units(f, D)) /\ Total(f, D) \in Nat
<1> DEFINE part == [d \in D |-> {d} \X (1..f[d])]
           parts == {part[d] : d \in D}
<1>1. Units(f, D) = UNION parts
  BY DEF Units, Family
<1>2. IsFiniteSet(parts)
  <2>1. part \in Surjection(D, parts)
    BY DEF Surjection
  <2> QED BY <2>1, FS_Surjection
<1>3. ASSUME NEW S \in parts PROVE IsFiniteSet(S)
  <2>1. PICK d \in D : S = {d} \X (1..f[d])
    OBVIOUS
  <2>2. IsFiniteSet(1..f[d])
    BY UnitsOfOne
  <2> QED BY <2>1, <2>2, CountOwned
<1> HIDE DEF parts
<1>4. IsFiniteSet(Units(f, D))
  BY <1>1, <1>2, <1>3, FS_UNION
<1> QED BY <1>4, FS_CardinalityType DEF Total

-----------------------------------------------------------------------------
(* Induction, as a fact about sets of numbers.                             *)

SmallerFirst == {r \in Nat \X Nat : r[1] < r[2]}

\* There is no endless descent.
LEMMA NumbersAreWellFounded == IsWellFoundedOn(SmallerFirst, Nat)
<1>1. IsWellFoundedOn({r \in Nat \X Nat : r[1] < r[2]}, Nat)
  BY ONLY NatLessThanWellFounded DEF OpToRel
<1> QED BY <1>1 DEF SmallerFirst

\* Some number is the least of a set that has any.
LEMMA LeastNumber ==
  ASSUME NEW T, T \subseteq Nat, T # {}
  PROVE  \E m \in T : \A n \in T : m <= n
<1>1. PICK m \in T : \A n \in T : ~ (<<n, m>> \in SmallerFirst)
  BY NumbersAreWellFounded, WFMin
<1>2. ASSUME NEW n \in T PROVE m <= n
  <2>1. m \in Nat /\ n \in Nat
    OBVIOUS
  <2>2. ~ (<<n, m>> \in SmallerFirst)
    BY <1>1
  <2>3. <<n, m>> \in SmallerFirst <=> n < m
    BY <2>1 DEF SmallerFirst
  <2> QED BY <2>1, <2>2, <2>3
<1> QED BY <1>2

\* A set that has the first number of an interval, and with each number the
\* next, has them all.
LEMMA IntervalInduction ==
  ASSUME NEW a \in Nat, NEW b \in Nat, NEW S, a \in S,
         \A k \in a..b : k \in S /\ k + 1 \in a..b => k + 1 \in S
  PROVE  a..b \subseteq S \/ b < a
<1> DEFINE T == (a..b) \ S
<1>1. ASSUME T # {} PROVE FALSE
  <2>1. T \subseteq Nat
    OBVIOUS
  <2>2. PICK m \in T : \A n \in T : m <= n
    BY <1>1, <2>1, LeastNumber
  <2>3. m \in a..b /\ m \notin S /\ m # a
    OBVIOUS
  <2>4. m - 1 \in a..b /\ m - 1 \in Int /\ ~(m <= m - 1)
    BY <2>3
  <2>5. m - 1 \in S
    BY <2>2, <2>4
  <2>6. (m - 1) + 1 = m
    BY <2>3
  <2> QED BY <2>3, <2>4, <2>5, <2>6
<1> QED BY <1>1
===============================================================================
