---------------------------- MODULE NotifierProofs ---------------------------
(***************************************************************************)
(* No sleeper of the notifier is lost and each is claimed once, the live   *)
(* tickets are the turns to come, and the notifier implements the event    *)
(* count, for any number of waiters and notifiers and any width of the     *)
(* epoch that the tickets do not exhaust.                                  *)
(***************************************************************************)
EXTENDS Notifier, SequenceFacts, TLAPS

-----------------------------------------------------------------------------
(* Epochs.                                                                 *)

Epochs == 0..(EpochModulus - 1)

\* A number less than one round away is an epoch after at most one wrap.
LEMMA Wrap ==
  ASSUME NEW x \in Int
  PROVE  /\ x \in Epochs => x % EpochModulus = x
         /\ x - EpochModulus \in Epochs => x % EpochModulus = x - EpochModulus
         /\ x + EpochModulus \in Epochs => x % EpochModulus = x + EpochModulus
<1> DEFINE M == EpochModulus
           q == x \div M
           r == x % M
<1>1. M \in Nat /\ M > 1
  BY NotifierAssumption
<1>2. x = M * q + r /\ q \in Int /\ r \in 0..(M - 1)
  BY <1>1
<1> HIDE DEF M, q, r
<1>3. ASSUME NEW k \in {-1, 0, 1}, x - k * M \in 0..(M - 1) PROVE r = x - k * M
  <2>1. q - k \in Int /\ k * M \in Int /\ k \in Int
    BY <1>1, <1>2
  <2>2. M * q - k * M = M * (q - k)
    BY <1>1, <1>2, <2>1
  <2>3. CASE q - k = 0
    BY <1>1, <1>2, <1>3, <2>1, <2>3
  <2>4. CASE q - k >= 1
    <3>1. M * (q - k) >= M
      BY <1>1, <2>1, <2>4
    <3> QED BY <1>1, <1>2, <1>3, <2>1, <2>2, <3>1
  <2>5. CASE q - k <= -1
    <3>1. M * (q - k) <= -M
      BY <1>1, <2>1, <2>5
    <3> QED BY <1>1, <1>2, <1>3, <2>1, <2>2, <3>1
  <2> QED BY <2>1, <2>3, <2>4, <2>5
<1>4. /\ x \in 0..(M - 1) => r = x
      /\ x - M \in 0..(M - 1) => r = x - M
      /\ x + M \in 0..(M - 1) => r = x + M
  BY <1>1, <1>3
<1> QED BY <1>4 DEF M, r, Epochs

\* The distance of two epochs is the difference, less or more one round, that
\* is at most half a round either way.
LEMMA DistanceIs ==
  ASSUME NEW a \in Epochs, NEW b \in Epochs, NEW d \in Int,
         -EpochModulus <= 2 * d, 2 * d < EpochModulus,
         a - b = d \/ a - b = d + EpochModulus \/ a - b = d - EpochModulus
  PROVE  Distance(a, b) = d
<1>1. EpochModulus \in Nat /\ EpochModulus > 1 /\ a \in Int /\ b \in Int /\ a - b \in Int
  BY NotifierAssumption DEF Epochs
<1> DEFINE m == (a - b) % EpochModulus
<1>2. (d >= 0 => m = d) /\ (d < 0 => m = d + EpochModulus)
  <2>1. CASE a >= b
    <3>1. a - b \in Epochs
      BY <1>1, <2>1 DEF Epochs
    <3>2. m = a - b
      BY <1>1, <3>1, Wrap
    <3> QED BY <1>1, <2>1, <3>2 DEF Epochs
  <2>2. CASE a < b
    <3>1. a - b + EpochModulus \in Epochs
      BY <1>1, <2>2 DEF Epochs
    <3>2. m = a - b + EpochModulus
      BY <1>1, <3>1, Wrap
    <3> QED BY <1>1, <2>2, <3>2 DEF Epochs
  <2> QED BY <1>1, <2>1, <2>2
<1>3. Distance(a, b) = IF 2 * m < EpochModulus THEN m ELSE m - EpochModulus
  BY DEF Distance
<1> HIDE DEF m
<1> QED BY <1>1, <1>2, <1>3

LEMMA DistanceType ==
  ASSUME NEW a \in Epochs, NEW b \in Epochs
  PROVE  /\ Distance(a, b) \in Int
         /\ -EpochModulus <= 2 * Distance(a, b) /\ 2 * Distance(a, b) < EpochModulus
         /\ \/ a - b = Distance(a, b)
            \/ a - b = Distance(a, b) + EpochModulus
            \/ a - b = Distance(a, b) - EpochModulus
<1>1. EpochModulus \in Nat /\ EpochModulus > 1 /\ a \in Int /\ b \in Int /\ a - b \in Int
  BY NotifierAssumption DEF Epochs
<1>2. PICK d \in Int :
        /\ -EpochModulus <= 2 * d /\ 2 * d < EpochModulus
        /\ a - b = d \/ a - b = d + EpochModulus \/ a - b = d - EpochModulus
  <2>1. a - b < EpochModulus /\ -EpochModulus < a - b
    BY <1>1 DEF Epochs
  <2>2. CASE 2 * (a - b) >= EpochModulus
    <3>1. PICK d \in Int : d = a - b - EpochModulus
      BY <1>1
    <3>2. -EpochModulus <= 2 * d /\ 2 * d < EpochModulus /\ a - b = d + EpochModulus
      BY <1>1, <2>1, <2>2, <3>1
    <3> QED BY <3>2
  <2>3. CASE 2 * (a - b) < -EpochModulus
    <3>1. PICK d \in Int : d = a - b + EpochModulus
      BY <1>1
    <3>2. -EpochModulus <= 2 * d /\ 2 * d < EpochModulus /\ a - b = d - EpochModulus
      BY <1>1, <2>1, <2>3, <3>1
    <3> QED BY <3>2
  <2>4. CASE 2 * (a - b) < EpochModulus /\ -EpochModulus <= 2 * (a - b)
    BY <1>1, <2>4
  <2> QED BY <1>1, <2>2, <2>3, <2>4
<1>3. Distance(a, b) = d
  BY <1>2, DistanceIs
<1> QED BY <1>2, <1>3

\* An epoch k rounds on is an epoch.
LEMMA Forward ==
  ASSUME NEW a \in Epochs, NEW k \in Nat, k < EpochModulus
  PROVE  /\ (a + k) % EpochModulus \in Epochs
         /\ (a + k) % EpochModulus = a + k \/ (a + k) % EpochModulus = (a + k) - EpochModulus
<1>1. EpochModulus \in Nat /\ EpochModulus > 1 /\ a \in Int /\ k \in Int /\ a + k \in Int
  BY NotifierAssumption DEF Epochs
<1>2. ASSUME NEW x \in Int, x \in Epochs \/ x - EpochModulus \in Epochs
      PROVE  /\ x % EpochModulus \in Epochs
             /\ x % EpochModulus = x \/ x % EpochModulus = x - EpochModulus
  <2> DEFINE c == x % EpochModulus
  <2>1. /\ x \in Epochs => c = x
        /\ x - EpochModulus \in Epochs => c = x - EpochModulus
    BY Wrap
  <2> HIDE DEF c
  <2>2. c \in Epochs /\ (c = x \/ c = x - EpochModulus)
    BY <1>2, <2>1
  <2> QED BY <2>2 DEF c
<1>3. a + k \in Int /\ (a + k \in Epochs \/ (a + k) - EpochModulus \in Epochs)
  BY <1>1 DEF Epochs
<1> QED BY <1>2, <1>3, Zenon

\* Every settled ticket takes the epoch one step on, from the point of view of
\* every turn that is less than half a round away.
LEMMA DistanceGrows ==
  ASSUME NEW a \in Epochs, NEW b \in Epochs, NEW k \in Nat,
         2 * (Distance(a, b) + k) < EpochModulus
  PROVE  Distance((a + k) % EpochModulus, b) = Distance(a, b) + k
<1> DEFINE d == Distance(a, b)
           c == (a + k) % EpochModulus
<1>1. EpochModulus \in Nat /\ EpochModulus > 1 /\ a \in Int /\ b \in Int
  BY NotifierAssumption DEF Epochs
<1>2. /\ d \in Int /\ -EpochModulus <= 2 * d
      /\ a - b = d \/ a - b = d + EpochModulus \/ a - b = d - EpochModulus
  BY DistanceType
<1> HIDE DEF d
<1>3. 2 * (d + k) < EpochModulus
  BY DEF d
<1>4. k < EpochModulus
  BY <1>1, <1>2, <1>3
<1>5. c \in Epochs /\ (c = a + k \/ c = (a + k) - EpochModulus)
  BY <1>4, Forward
<1> HIDE DEF c
<1>6. d + k \in Int /\ -EpochModulus <= 2 * (d + k)
  BY <1>1, <1>2
<1>7. \/ c - b = d + k \/ c - b = d + k + EpochModulus \/ c - b = d + k - EpochModulus
  <2>1. /\ 0 <= a /\ a < EpochModulus /\ 0 <= b /\ b < EpochModulus
        /\ 0 <= c /\ c < EpochModulus /\ c \in Int /\ k \in Int /\ 0 <= k
    BY <1>1, <1>5 DEF Epochs
  <2>2. CASE c = a + k
    BY <1>1, <1>2, <2>1, <2>2
  <2>3. CASE c = (a + k) - EpochModulus
    BY <1>1, <1>2, <1>3, <2>1, <2>3
  <2> QED BY <1>5, <2>2, <2>3
<1>8. Distance(c, b) = d + k
  <2>1. PICK e \in Int : e = d + k
    BY <1>6
  <2>2. /\ -EpochModulus <= 2 * e /\ 2 * e < EpochModulus
        /\ c - b = e \/ c - b = e + EpochModulus \/ c - b = e - EpochModulus
    <3>1. c \in Int /\ c - b \in Int /\ d \in Int /\ k \in Int
      BY <1>1, <1>2, <1>5 DEF Epochs
    <3> QED BY <1>1, <1>3, <1>6, <1>7, <2>1, <3>1
  <2>3. Distance(c, b) = e
    BY <1>5, <2>2, DistanceIs
  <2> QED BY <2>1, <2>3
<1> QED BY <1>8 DEF c, d

\* A turn k epochs ahead is k before its time.
LEMMA DistanceAhead ==
  ASSUME NEW a \in Epochs, NEW k \in Nat, 2 * k < EpochModulus
  PROVE  /\ (a + k) % EpochModulus \in Epochs
         /\ Distance(a, (a + k) % EpochModulus) = -k
<1> DEFINE c == (a + k) % EpochModulus
<1>1. EpochModulus \in Nat /\ EpochModulus > 1 /\ a \in Int /\ k < EpochModulus
  BY NotifierAssumption DEF Epochs
<1>2. c \in Epochs /\ (c = a + k \/ c = (a + k) - EpochModulus)
  BY <1>1, Forward
<1> HIDE DEF c
<1>3. -k \in Int /\ -EpochModulus <= 2 * (-k) /\ 2 * (-k) < EpochModulus
  BY <1>1
<1>4. a - c = -k \/ a - c = -k + EpochModulus
  BY <1>1, <1>2 DEF Epochs
<1>5. Distance(a, c) = -k
  BY <1>2, <1>3, <1>4, DistanceIs
<1> QED BY <1>2, <1>5 DEF c

\* Seen from the other side, unless it is exactly half a round.
LEMMA DistanceBack ==
  ASSUME NEW a \in Epochs, NEW b \in Epochs, 2 * Distance(a, b) > -EpochModulus
  PROVE  Distance(b, a) = -Distance(a, b)
<1> DEFINE d == Distance(a, b)
<1>1. EpochModulus \in Nat /\ EpochModulus > 1 /\ a \in Int /\ b \in Int
  BY NotifierAssumption DEF Epochs
<1>2. /\ d \in Int /\ 2 * d < EpochModulus
      /\ a - b = d \/ a - b = d + EpochModulus \/ a - b = d - EpochModulus
  BY DistanceType
<1>3. 2 * d > -EpochModulus
  OBVIOUS
<1> HIDE DEF d
<1>4. -d \in Int /\ -EpochModulus <= 2 * (-d) /\ 2 * (-d) < EpochModulus
  BY <1>1, <1>2, <1>3
<1>5. b - a = -d \/ b - a = -d + EpochModulus \/ b - a = -d - EpochModulus
  BY <1>1, <1>2
<1>6. Distance(b, a) = -d
  BY <1>4, <1>5, DistanceIs
<1> QED BY <1>6 DEF d

\* Two turns at the same distance are the same turn.
LEMMA DistanceInjective ==
  ASSUME NEW a \in Epochs, NEW b \in Epochs, NEW c \in Epochs, Distance(a, b) = Distance(a, c)
  PROVE  b = c
<1>1. EpochModulus \in Nat /\ EpochModulus > 1 /\ a \in Int /\ b \in Int /\ c \in Int
  BY NotifierAssumption DEF Epochs
<1> DEFINE d == Distance(a, b)
<1>2. /\ d \in Int
      /\ a - b = d \/ a - b = d + EpochModulus \/ a - b = d - EpochModulus
      /\ a - c = d \/ a - c = d + EpochModulus \/ a - c = d - EpochModulus
  BY DistanceType
<1> HIDE DEF d
<1> QED BY <1>1, <1>2 DEF Epochs

-----------------------------------------------------------------------------
(* The chains threaded through next.                                       *)

\* The first waiter of a chain, Nil for an empty one.
Top(s) == IF s = <<>> THEN Nil ELSE Head(s)

\* s is threaded through links, without a waiter twice, and ends.
Threaded(links, s) ==
  /\ s \in Seq(Waiters)
  /\ IsInjective(s)
  /\ \A i \in 1..Len(s) : links[s[i]] = IF i < Len(s) THEN s[i + 1] ELSE Nil

\* What the links reach from a waiter is a chain that ends.
Chained(links, first) ==
  /\ Threaded(links, Chain(links, first))
  /\ Top(Chain(links, first)) = first

\* One step after the other along the links, and no further than Nil.
Walk(links, first, f) ==
  f = [k \in 1..(Size + 1) |->
         IF k = 1 THEN first ELSE IF f[k - 1] = Nil THEN Nil ELSE links[f[k - 1]]]

\* The number of waiters is a number.
LEMMA SizeType == Size \in Nat /\ Size > 0 /\ \A w \in Waiters : w # Nil
  BY NotifierAssumption, FS_CardinalityType, FS_EmptySet DEF Size

\* A chain without repetition has no more waiters than there are.
LEMMA ThreadedLength ==
  ASSUME NEW s \in Seq(Waiters), IsInjective(s)
  PROVE  Len(s) \in 0..Size
<1>1. IsFiniteSet(Range(s)) /\ Cardinality(Range(s)) = Len(s)
  BY RangeCounted
<1>2. Range(s) \subseteq Waiters
  <2>1. \A i \in 1..Len(s) : s[i] \in Waiters
    BY ElementOfSeq
  <2> QED BY <2>1, LenProperties DEF Range
<1>3. Cardinality(Range(s)) <= Size
  BY <1>2, NotifierAssumption, FS_Subset DEF Size
<1> QED BY <1>1, <1>3, LenProperties, SizeType

\* The walk along a chain visits its waiters in their order, then stays at Nil.
LEMMA WalkIs ==
  ASSUME NEW links, NEW s, Threaded(links, s), NEW f
  PROVE  Walk(links, Top(s), f) <=>
           f = [k \in 1..(Size + 1) |-> IF k <= Len(s) THEN s[k] ELSE Nil]
<1> DEFINE g == [k \in 1..(Size + 1) |-> IF k <= Len(s) THEN s[k] ELSE Nil]
<1>1. /\ s \in Seq(Waiters) /\ Len(s) \in 0..Size
      /\ \A i \in 1..Len(s) : s[i] \in Waiters /\ s[i] # Nil
      /\ \A i \in 1..Len(s) : links[s[i]] = IF i < Len(s) THEN s[i + 1] ELSE Nil
  BY ThreadedLength, ElementOfSeq, SizeType DEF Threaded
<1>2. Size \in Nat
  BY SizeType
<1>3. Top(s) = IF Len(s) = 0 THEN Nil ELSE s[1]
  BY <1>1, EmptySeq, HeadTailProperties DEF Top
<1>4. ASSUME NEW k \in 1..(Size + 1)
      PROVE  g[k] = IF k = 1 THEN Top(s) ELSE IF g[k - 1] = Nil THEN Nil ELSE links[g[k - 1]]
  <2>1. g[k] = IF k <= Len(s) THEN s[k] ELSE Nil
    OBVIOUS
  <2>2. CASE k = 1
    BY <1>1, <1>3, <2>1, <2>2
  <2>3. CASE k # 1
    <3>1. k - 1 \in 1..(Size + 1) /\ (k - 1) + 1 = k
      BY <1>2, <2>3
    <3>2. g[k - 1] = IF k - 1 <= Len(s) THEN s[k - 1] ELSE Nil
      BY <3>1
    <3> HIDE DEF g
    <3>3. CASE k - 1 <= Len(s)
      <4>1. k - 1 \in 1..Len(s)
        BY <1>1, <2>3, <3>3
      <4>2. g[k - 1] = s[k - 1] /\ s[k - 1] # Nil
        BY <1>1, <3>2, <3>3, <4>1
      <4>3. links[s[k - 1]] = IF k - 1 < Len(s) THEN s[(k - 1) + 1] ELSE Nil
        BY <1>1, <4>1
      <4>4. k - 1 < Len(s) <=> k <= Len(s)
        BY <1>1, <1>2
      <4> QED BY <2>1, <2>3, <3>1, <4>2, <4>3, <4>4
    <3>4. CASE ~(k - 1 <= Len(s))
      BY <1>1, <1>2, <2>1, <2>3, <3>2, <3>4
    <3> QED BY <3>3, <3>4
  <2> QED BY <2>2, <2>3
<1> HIDE DEF g
<1>5. ASSUME Walk(links, Top(s), f) PROVE f = g
  <2> DEFINE S == {k \in 1..(Size + 1) : f[k] = g[k]}
  <2>1. /\ \A k \in 1..(Size + 1) :
             f[k] = IF k = 1 THEN Top(s) ELSE IF f[k - 1] = Nil THEN Nil ELSE links[f[k - 1]]
        /\ f = [k \in 1..(Size + 1) |-> f[k]]
    BY <1>5 DEF Walk
  <2>2. \A k \in 1..(Size + 1) :
          g[k] = IF k = 1 THEN Top(s) ELSE IF g[k - 1] = Nil THEN Nil ELSE links[g[k - 1]]
    BY <1>4
  <2>4. 1 \in S
    <3>1. 1 \in 1..(Size + 1)
      BY <1>2
    <3>2. f[1] = Top(s) /\ g[1] = Top(s)
      BY <2>1, <2>2, <3>1
    <3> QED BY <3>1, <3>2
  <2>5. ASSUME NEW k \in 1..(Size + 1), k \in S, k + 1 \in 1..(Size + 1) PROVE k + 1 \in S
    <3>1. (k + 1) - 1 = k /\ k + 1 # 1 /\ f[k] = g[k]
      BY <1>2, <2>5
    <3>2. /\ f[k + 1] = IF f[(k + 1) - 1] = Nil THEN Nil ELSE links[f[(k + 1) - 1]]
          /\ g[k + 1] = IF g[(k + 1) - 1] = Nil THEN Nil ELSE links[g[(k + 1) - 1]]
      BY <2>1, <2>2, <2>5, <3>1
    <3> QED BY <2>5, <3>1, <3>2
  <2> HIDE DEF S
  <2>6. 1..(Size + 1) \subseteq S \/ Size + 1 < 1
    BY <1>2, <2>4, <2>5, IntervalInduction
  <2>7. \A k \in 1..(Size + 1) : f[k] = g[k]
    BY <1>2, <2>6 DEF S
  <2>8. \A k \in 1..(Size + 1) : f[k] = IF k <= Len(s) THEN s[k] ELSE Nil
    BY <2>7 DEF g
  <2> QED BY <2>1, <2>8 DEF g
<1>6. ASSUME f = g PROVE Walk(links, Top(s), f)
  <2>1. f = [k \in 1..(Size + 1) |-> IF k <= Len(s) THEN s[k] ELSE Nil]
    BY <1>6 DEF g
  <2>2. \A k \in 1..(Size + 1) :
          f[k] = IF k = 1 THEN Top(s) ELSE IF f[k - 1] = Nil THEN Nil ELSE links[f[k - 1]]
    BY <1>4, <1>6
  <2> QED BY <2>1, <2>2 DEF Walk
<1> QED BY <1>5, <1>6 DEF g

\* The chain that begins with the first waiter of a threaded sequence is it.
LEMMA ChainIs ==
  ASSUME NEW links, NEW s, Threaded(links, s)
  PROVE  Chain(links, Top(s)) = s /\ Chained(links, Top(s))
<1> DEFINE g == [k \in 1..(Size + 1) |-> IF k <= Len(s) THEN s[k] ELSE Nil]
           at == CHOOSE f : Walk(links, Top(s), f)
<1>1. Chain(links, Top(s)) = [k \in 1..Cardinality({k \in 1..Size : at[k] # Nil}) |-> at[k]]
  BY Zenon DEF Chain, Walk
<1>2. \A f : Walk(links, Top(s), f) <=> f = g
  BY WalkIs
<1>3. at = g
  <2> HIDE DEF g
  <2> QED BY <1>2
<1>4. /\ s \in Seq(Waiters) /\ Len(s) \in 0..Size /\ Size \in Nat
      /\ \A i \in 1..Len(s) : s[i] \in Waiters /\ s[i] # Nil
  BY ThreadedLength, ElementOfSeq, SizeType DEF Threaded
<1>5. \A k \in 1..(Size + 1) : at[k] = IF k <= Len(s) THEN s[k] ELSE Nil
  BY <1>3
<1> HIDE DEF at, g
<1>6. {k \in 1..Size : at[k] # Nil} = 1..Len(s)
  BY <1>4, <1>5
<1>7. Cardinality(1..Len(s)) = Len(s)
  BY <1>4, UnitsOfOne
<1>8. Chain(links, Top(s)) = [k \in 1..Len(s) |-> at[k]]
  BY <1>1, <1>6, <1>7, Zenon
<1>9. \A k \in 1..Len(s) : at[k] = s[k]
  BY <1>4, <1>5
<1>10. s = [k \in 1..Len(s) |-> s[k]]
  BY <1>4, LenProperties
<1>11. Chain(links, Top(s)) = s
  BY <1>8, <1>9, <1>10
<1> QED BY <1>11 DEF Chained

\* A chain that begins with no waiter is empty.
LEMMA ChainOfNil ==
  ASSUME NEW links
  PROVE  Chain(links, Nil) = <<>> /\ Chained(links, Nil)
<1>1. Threaded(links, <<>>)
  BY RangeOfEmpty DEF Threaded
<1>2. Top(<<>>) = Nil
  BY DEF Top
<1> QED BY <1>1, <1>2, ChainIs

\* What is on a chain is a waiter, and the chain has no repetition.
LEMMA ChainFacts ==
  ASSUME NEW links, NEW first, Chained(links, first)
  PROVE  /\ Chain(links, first) \in Seq(Waiters)
         /\ IsInjective(Chain(links, first))
         /\ Range(Chain(links, first)) \subseteq Waiters
         /\ first = Nil \/ first \in Waiters
<1> DEFINE s == Chain(links, first)
<1>1. s \in Seq(Waiters) /\ IsInjective(s) /\ first = Top(s)
  BY DEF Chained, Threaded
<1>2. Range(s) \subseteq Waiters
  <2>1. \A i \in 1..Len(s) : s[i] \in Waiters
    BY <1>1, ElementOfSeq
  <2> QED BY <1>1, <2>1, LenProperties DEF Range
<1> HIDE DEF s
<1>3. first = Nil \/ first \in Waiters
  <2>1. s # <<>> => Head(s) \in Waiters
    BY <1>1, HeadTailProperties
  <2> QED BY <1>1, <2>1 DEF Top
<1> QED BY <1>1, <1>2, <1>3 DEF s

\* The rest of a chain is the chain of the second waiter.
LEMMA ChainStep ==
  ASSUME NEW links, NEW first \in Waiters, Chained(links, first)
  PROVE  /\ Chained(links, links[first])
         /\ Chain(links, first) # <<>>
         /\ Head(Chain(links, first)) = first
         /\ Chain(links, links[first]) = Tail(Chain(links, first))
         /\ Range(Chain(links, first)) = {first} \cup Range(Chain(links, links[first]))
         /\ first \notin Range(Chain(links, links[first]))
<1> DEFINE s == Chain(links, first)
           u == Tail(s)
<1>1. /\ s \in Seq(Waiters) /\ IsInjective(s) /\ Top(s) = first
      /\ \A i \in 1..Len(s) : links[s[i]] = IF i < Len(s) THEN s[i + 1] ELSE Nil
  BY DEF Chained, Threaded
<1> HIDE DEF s
<1>2. s # <<>> /\ Head(s) = first
  BY <1>1, SizeType DEF Top
<1>3. /\ Head(s) = s[1]
      /\ Len(s) \in Nat \ {0}
      /\ u \in Seq(Waiters) /\ Len(u) = Len(s) - 1
      /\ \A i \in 1..(Len(s) - 1) : u[i] = s[i + 1]
  BY <1>1, <1>2, HeadTailProperties, EmptySeq, LenProperties
<1>4. Range(u) = Range(s) \ {first} /\ first \in Range(s) /\ IsInjective(u)
  BY <1>1, <1>2, RangeOfTail
<1> HIDE DEF u
<1>5. Threaded(links, u)
  <2> SUFFICES ASSUME NEW i \in 1..Len(u)
               PROVE  links[u[i]] = IF i < Len(u) THEN u[i + 1] ELSE Nil
    BY <1>3, <1>4 DEF Threaded
  <2>1. i + 1 \in 1..Len(s) /\ i \in 1..(Len(s) - 1)
    BY <1>3
  <2>2. u[i] = s[i + 1]
    BY <1>3, <2>1
  <2>3. links[s[i + 1]] = IF i + 1 < Len(s) THEN s[(i + 1) + 1] ELSE Nil
    BY <1>1, <2>1
  <2>4. CASE i < Len(u)
    <3>1. i + 1 \in 1..(Len(s) - 1) /\ i + 1 < Len(s)
      BY <1>3, <2>4
    <3>2. u[i + 1] = s[(i + 1) + 1]
      BY <1>3, <3>1
    <3> QED BY <2>2, <2>3, <2>4, <3>1, <3>2
  <2>5. CASE ~(i < Len(u))
    <3>1. ~(i + 1 < Len(s))
      BY <1>3, <2>5
    <3> QED BY <2>2, <2>3, <2>5, <3>1
  <2> QED BY <2>4, <2>5
<1>6. Top(u) = links[first]
  <2>1. links[s[1]] = IF 1 < Len(s) THEN s[1 + 1] ELSE Nil
    BY <1>1, <1>3
  <2>2. u = <<>> <=> Len(u) = 0
    BY <1>3, EmptySeq
  <2>3. u # <<>> => Head(u) = u[1]
    BY <1>3, HeadTailProperties
  <2>4. CASE u = <<>>
    <3>1. Len(u) = 0
      BY <2>2, <2>4
    <3>2. Len(s) = 1
      BY <1>3, <3>1
    <3>3. Top(u) = Nil
      BY <2>4 DEF Top
    <3> QED BY <1>2, <1>3, <2>1, <3>2, <3>3
  <2>5. CASE u # <<>>
    <3>1. 1 < Len(s) /\ 1 \in 1..(Len(s) - 1)
      BY <1>3, <2>2, <2>5
    <3> QED BY <1>2, <1>3, <2>1, <2>3, <2>5, <3>1 DEF Top
  <2> QED BY <2>4, <2>5
<1>7. Chain(links, links[first]) = u /\ Chained(links, links[first])
  BY <1>5, <1>6, ChainIs
<1>8. Range(s) = {first} \cup Range(u) /\ first \notin Range(u)
  BY <1>4
<1> QED BY <1>2, <1>7, <1>8 DEF u, s

\* A waiter that links to the first of a chain it is not on is the first of a
\* longer one.
LEMMA ChainPush ==
  ASSUME NEW links, NEW w \in Waiters, Chained(links, links[w]),
         w \notin Range(Chain(links, links[w]))
  PROVE  /\ Chained(links, w)
         /\ Chain(links, w) = <<w>> \o Chain(links, links[w])
         /\ Range(Chain(links, w)) = {w} \cup Range(Chain(links, links[w]))
<1> DEFINE s == Chain(links, links[w])
           e == <<w>>
           u == e \o s
<1>1. /\ s \in Seq(Waiters) /\ IsInjective(s) /\ Top(s) = links[w]
      /\ \A i \in 1..Len(s) : links[s[i]] = IF i < Len(s) THEN s[i + 1] ELSE Nil
      /\ w \notin Range(s)
  BY DEF Chained, Threaded
<1> HIDE DEF s
<1>2. u \in Seq(Waiters) /\ Range(u) = Range(s) \cup {w} /\ IsInjective(u)
  BY <1>1, RangeOfCons
<1>3. e \in Seq(Waiters) /\ Len(e) = 1 /\ e[1] = w
  BY RangeOfSingleton
<1> HIDE DEF e
<1>4. /\ Len(s) \in Nat /\ Len(u) = 1 + Len(s)
      /\ \A i \in 1..(1 + Len(s)) : u[i] = IF i <= 1 THEN e[i] ELSE s[i - 1]
  <2>1. Len(s) \in Nat
    BY <1>1, LenProperties
  <2>2. /\ Len(e \o s) = Len(e) + Len(s)
        /\ \A i \in 1..(Len(e) + Len(s)) :
             (e \o s)[i] = IF i <= Len(e) THEN e[i] ELSE s[i - Len(e)]
    BY <1>1, <1>3, ConcatProperties
  <2> QED BY <1>3, <2>1, <2>2
<1> HIDE DEF u
<1>5. u[1] = w /\ \A i \in 1..Len(s) : u[i + 1] = s[i]
  <2>1. 1 \in 1..(1 + Len(s))
    BY <1>4
  <2>2. ASSUME NEW i \in 1..Len(s) PROVE u[i + 1] = s[i]
    <3>1. i + 1 \in 1..(1 + Len(s)) /\ ~(i + 1 <= 1) /\ (i + 1) - 1 = i
      BY <1>4
    <3> QED BY <1>4, <3>1
  <2> QED BY <1>3, <1>4, <2>1, <2>2
<1>6. Top(s) = IF Len(s) = 0 THEN Nil ELSE s[1]
  BY <1>1, EmptySeq, HeadTailProperties DEF Top
<1>7. Threaded(links, u)
  <2> SUFFICES ASSUME NEW i \in 1..Len(u)
               PROVE  links[u[i]] = IF i < Len(u) THEN u[i + 1] ELSE Nil
    BY <1>2 DEF Threaded
  <2>1. CASE i = 1
    <3>1. i < Len(u) <=> Len(s) # 0
      BY <1>4, <2>1
    <3>2. Len(s) # 0 => u[1 + 1] = s[1]
      BY <1>4, <1>5
    <3> QED BY <1>1, <1>5, <1>6, <2>1, <3>1, <3>2
  <2>2. CASE i # 1
    <3>1. i - 1 \in 1..Len(s) /\ (i - 1) + 1 = i
      BY <1>4, <2>2
    <3>2. u[i] = s[i - 1]
      BY <1>5, <3>1
    <3>3. links[s[i - 1]] = IF i - 1 < Len(s) THEN s[(i - 1) + 1] ELSE Nil
      BY <1>1, <3>1
    <3>4. CASE i < Len(u)
      <4>1. i \in 1..Len(s) /\ i - 1 < Len(s)
        BY <1>4, <3>1, <3>4
      <4> QED BY <1>5, <3>1, <3>2, <3>3, <3>4, <4>1
    <3>5. CASE ~(i < Len(u))
      <4>1. ~(i - 1 < Len(s))
        BY <1>4, <3>1, <3>5
      <4> QED BY <3>2, <3>3, <3>5, <4>1
    <3> QED BY <3>4, <3>5
  <2> QED BY <2>1, <2>2
<1>8. Top(u) = w
  <2>1. u # <<>> /\ Head(u) = u[1]
    BY <1>2, <1>4, EmptySeq, HeadTailProperties
  <2> QED BY <1>5, <2>1 DEF Top
<1>9. Chain(links, w) = u /\ Chained(links, w)
  BY <1>7, <1>8, ChainIs
<1> QED BY <1>2, <1>9 DEF s, u, e

\* A chain stays as it is while no waiter on it is linked elsewhere.
LEMMA ChainKept ==
  ASSUME NEW links, NEW first, NEW new, Chained(links, first),
         \A w \in Range(Chain(links, first)) : new[w] = links[w]
  PROVE  Chained(new, first) /\ Chain(new, first) = Chain(links, first)
<1> DEFINE s == Chain(links, first)
<1>1. Threaded(links, s) /\ Top(s) = first
  BY DEF Chained
<1>2. \A w \in Range(s) : new[w] = links[w]
  OBVIOUS
<1> HIDE DEF s
<1>3. \A i \in 1..Len(s) : s[i] \in Range(s)
  BY <1>1, LenProperties DEF Threaded, Range
<1>4. Threaded(new, s)
  BY <1>1, <1>2, <1>3 DEF Threaded
<1>5. Chain(new, first) = s /\ Chained(new, first)
  BY <1>1, <1>4, ChainIs
<1> QED BY <1>5 DEF s

-----------------------------------------------------------------------------
(* The line of the live tickets.                                           *)

TicketPCs == {"prepared", "cancelTry", "commitTry", "commitCas"}

\* When the turn of a ticket comes, and how long it has been past at epoch e.
TurnIn(ticket) == (ticket.epoch + ticket.pre) % EpochModulus
Past(e, ticket) == Distance(e, TurnIn(ticket))

\* The ticket of a waiter that is at a point is not yet settled.
Open(e, at, ticket) == at \in TicketPCs /\ Past(e, ticket) <= 0

\* The epoch e, the number pre of live tickets, where the waiters are, their
\* tickets, and how many may still be drawn: the epoch cannot come around to a
\* ticket in use, and the live tickets are the turns to come, one each.
InLine(e, pre, at, ticket, left) ==
  /\ 2 * (pre + left) < EpochModulus
  /\ \A w \in Waiters : at[w] \in TicketPCs =>
       2 * (Past(e, ticket[w]) + pre + left) < EpochModulus
  /\ \A w \in Waiters : Open(e, at[w], ticket[w]) => -Past(e, ticket[w]) < pre
  /\ \A v, w \in Waiters :
       /\ Open(e, at[v], ticket[v]) /\ Open(e, at[w], ticket[w])
       /\ Past(e, ticket[v]) = Past(e, ticket[w])
       => v = w
  /\ \A k \in 0..(pre - 1) : \E w \in Waiters :
       Open(e, at[w], ticket[w]) /\ Past(e, ticket[w]) = -k

\* A turn is an epoch.
LEMMA PastType ==
  ASSUME NEW e \in Epochs, NEW ticket \in Word
  PROVE  TurnIn(ticket) \in Epochs /\ Past(e, ticket) \in Int
<1>1. ticket.epoch \in Epochs /\ ticket.pre \in Nat
  BY SizeType DEF Word, Epochs
<1>2. TurnIn(ticket) \in Epochs
  <2>1. EpochModulus \in Nat /\ EpochModulus > 1 /\ ticket.epoch + ticket.pre \in Int
    BY <1>1, NotifierAssumption DEF Epochs
  <2> QED BY <2>1 DEF TurnIn, Epochs
<1> QED BY <1>2, DistanceType DEF Past

\* When the epoch moves on by k, the k oldest tickets are settled and the others
\* move up, as long as only settled tickets are given up.
LEMMA LineMoves ==
  ASSUME NEW e \in Epochs, NEW pre \in Nat, NEW left \in Nat, NEW k \in 0..pre,
         NEW at, NEW ticket \in [Waiters -> Word], InLine(e, pre, at, ticket, left),
         NEW at2, NEW ticket2,
         \A w \in Waiters : at2[w] \in TicketPCs =>
           at[w] \in TicketPCs /\ ticket2[w] = ticket[w],
         \A w \in Waiters : at[w] \in TicketPCs /\ at2[w] \notin TicketPCs =>
           Past(e, ticket[w]) + k > 0
  PROVE  /\ InLine((e + k) % EpochModulus, pre - k, at2, ticket2, left)
         /\ \A w \in Waiters : at[w] \in TicketPCs =>
              Past((e + k) % EpochModulus, ticket[w]) = Past(e, ticket[w]) + k
<1> DEFINE c == (e + k) % EpochModulus
<1>1. /\ EpochModulus \in Nat /\ k \in Nat /\ k <= pre
      /\ \A w \in Waiters : Past(e, ticket[w]) \in Int /\ TurnIn(ticket[w]) \in Epochs
  BY NotifierAssumption, PastType
<1>2. ASSUME NEW w \in Waiters, at[w] \in TicketPCs
      PROVE  Past(c, ticket[w]) = Past(e, ticket[w]) + k
  <2>1. Past(e, ticket[w]) \in Int /\ TurnIn(ticket[w]) \in Epochs
    BY <1>1
  <2>2. 2 * (Past(e, ticket[w]) + pre + left) < EpochModulus
    BY <1>2 DEF InLine
  <2>3. 2 * (Past(e, ticket[w]) + k) < EpochModulus
    BY <1>1, <2>1, <2>2
  <2> QED BY <1>1, <2>1, <2>3, DistanceGrows DEF Past
<1> HIDE DEF c
<1>3. ASSUME NEW w \in Waiters
      PROVE  /\ at2[w] \in TicketPCs => Past(c, ticket2[w]) = Past(e, ticket[w]) + k
             /\ Open(c, at2[w], ticket2[w]) <=>
                  Open(e, at[w], ticket[w]) /\ Past(e, ticket[w]) + k <= 0
  <2>1. at2[w] \in TicketPCs =>
          /\ at[w] \in TicketPCs /\ ticket2[w] = ticket[w]
          /\ Past(c, ticket2[w]) = Past(e, ticket[w]) + k
    BY <1>2
  <2>2. at[w] \in TicketPCs /\ Past(e, ticket[w]) + k <= 0 => at2[w] \in TicketPCs
    BY <1>1
  <2> QED BY <1>1, <2>1, <2>2 DEF Open
<1>4. 2 * (pre - k + left) < EpochModulus
  BY <1>1 DEF InLine
<1>5. ASSUME NEW w \in Waiters, at2[w] \in TicketPCs
      PROVE  2 * (Past(c, ticket2[w]) + (pre - k) + left) < EpochModulus
  <2>1. at[w] \in TicketPCs /\ Past(c, ticket2[w]) = Past(e, ticket[w]) + k
    BY <1>3, <1>5
  <2>2. 2 * (Past(e, ticket[w]) + pre + left) < EpochModulus
    BY <2>1 DEF InLine
  <2> QED BY <1>1, <2>1, <2>2
<1>6. ASSUME NEW w \in Waiters, Open(c, at2[w], ticket2[w])
      PROVE  -Past(c, ticket2[w]) < pre - k
  <2>1. Past(c, ticket2[w]) = Past(e, ticket[w]) + k /\ Open(e, at[w], ticket[w])
    BY <1>3, <1>6 DEF Open
  <2>2. -Past(e, ticket[w]) < pre
    BY <2>1 DEF InLine
  <2> QED BY <1>1, <2>1, <2>2
<1>7. ASSUME NEW v \in Waiters, NEW w \in Waiters,
             Open(c, at2[v], ticket2[v]), Open(c, at2[w], ticket2[w]),
             Past(c, ticket2[v]) = Past(c, ticket2[w])
      PROVE  v = w
  <2>1. /\ Past(c, ticket2[v]) = Past(e, ticket[v]) + k /\ Open(e, at[v], ticket[v])
        /\ Past(c, ticket2[w]) = Past(e, ticket[w]) + k /\ Open(e, at[w], ticket[w])
    BY <1>3, <1>7 DEF Open
  <2>2. Past(e, ticket[v]) = Past(e, ticket[w])
    <3>1. Past(e, ticket[v]) \in Int /\ Past(e, ticket[w]) \in Int /\ k \in Int
      BY <1>1
    <3>2. Past(e, ticket[v]) + k = Past(e, ticket[w]) + k
      BY <1>7, <2>1
    <3> QED BY <3>1, <3>2
  <2> QED BY <2>1, <2>2 DEF InLine
<1>8. ASSUME NEW j \in 0..(pre - k - 1)
      PROVE  \E w \in Waiters : Open(c, at2[w], ticket2[w]) /\ Past(c, ticket2[w]) = -j
  <2>1. j + k \in 0..(pre - 1)
    BY <1>1
  <2>2. PICK w \in Waiters : Open(e, at[w], ticket[w]) /\ Past(e, ticket[w]) = -(j + k)
    BY <2>1 DEF InLine
  <2>3. Past(e, ticket[w]) + k = -j /\ Past(e, ticket[w]) + k <= 0
    BY <1>1, <2>2
  <2>4. Open(c, at2[w], ticket2[w])
    BY <1>3, <2>2, <2>3
  <2>5. Past(c, ticket2[w]) = -j
    BY <1>3, <2>3, <2>4 DEF Open
  <2> QED BY <2>4, <2>5
<1>9. InLine(c, pre - k, at2, ticket2, left)
  BY <1>4, <1>5, <1>6, <1>7, <1>8, Zenon DEF InLine
<1> QED BY <1>2, <1>9 DEF c

\* A new ticket is the last of the line.
LEMMA LineGrows ==
  ASSUME NEW e \in Epochs, NEW pre \in Nat, NEW left \in Nat, left > 0,
         NEW at, NEW ticket \in [Waiters -> Word], InLine(e, pre, at, ticket, left),
         NEW x \in Waiters, at[x] \notin TicketPCs,
         NEW at2, NEW ticket2 \in [Waiters -> Word],
         \A w \in Waiters \ {x} : at2[w] = at[w] /\ ticket2[w] = ticket[w],
         at2[x] \in TicketPCs, ticket2[x].epoch = e, ticket2[x].pre = pre
  PROVE  /\ InLine(e, pre + 1, at2, ticket2, left - 1)
         /\ Past(e, ticket2[x]) = -pre
<1>1. /\ EpochModulus \in Nat
      /\ \A w \in Waiters : Past(e, ticket[w]) \in Int
  BY NotifierAssumption, PastType
<1>2. 2 * (pre + left) < EpochModulus
  BY DEF InLine
<1>3. Past(e, ticket2[x]) = -pre
  <2>1. 2 * pre < EpochModulus
    BY <1>1, <1>2
  <2> QED BY <2>1, DistanceAhead DEF Past, TurnIn
<1>4. Open(e, at2[x], ticket2[x]) /\ ~Open(e, at[x], ticket[x])
  BY <1>3 DEF Open
<1>5. \A w \in Waiters \ {x} : Open(e, at2[w], ticket2[w]) <=> Open(e, at[w], ticket[w])
  BY DEF Open
<1>6. 2 * ((pre + 1) + (left - 1)) < EpochModulus
  BY <1>1, <1>2
<1>7. ASSUME NEW w \in Waiters, at2[w] \in TicketPCs
      PROVE  2 * (Past(e, ticket2[w]) + (pre + 1) + (left - 1)) < EpochModulus
  <2>1. CASE w = x
    BY <1>1, <1>2, <1>3, <2>1
  <2>2. CASE w # x
    <3>1. 2 * (Past(e, ticket[w]) + pre + left) < EpochModulus /\ ticket2[w] = ticket[w]
      BY <1>7, <2>2 DEF InLine
    <3> QED BY <1>1, <3>1
  <2> QED BY <2>1, <2>2
<1>8. ASSUME NEW w \in Waiters, Open(e, at2[w], ticket2[w])
      PROVE  -Past(e, ticket2[w]) < pre + 1
  <2>1. CASE w = x
    BY <1>3, <2>1
  <2>2. CASE w # x
    <3>1. -Past(e, ticket[w]) < pre /\ ticket2[w] = ticket[w]
      BY <1>5, <1>8, <2>2 DEF InLine
    <3> QED BY <1>1, <3>1
  <2> QED BY <2>1, <2>2
<1>9. ASSUME NEW w \in Waiters \ {x}, Open(e, at2[w], ticket2[w])
      PROVE  Past(e, ticket2[w]) # -pre
  <2>1. -Past(e, ticket[w]) < pre /\ ticket2[w] = ticket[w]
    BY <1>5, <1>9 DEF InLine
  <2> QED BY <1>1, <2>1
<1>10. ASSUME NEW v \in Waiters, NEW w \in Waiters,
              Open(e, at2[v], ticket2[v]), Open(e, at2[w], ticket2[w]),
              Past(e, ticket2[v]) = Past(e, ticket2[w])
       PROVE  v = w
  <2>1. CASE v # x /\ w # x
    BY <1>5, <1>10, <2>1 DEF InLine
  <2>2. CASE v = x \/ w = x
    BY <1>3, <1>9, <1>10, <2>2
  <2> QED BY <2>1, <2>2
<1>11. ASSUME NEW k \in 0..((pre + 1) - 1)
       PROVE  \E w \in Waiters : Open(e, at2[w], ticket2[w]) /\ Past(e, ticket2[w]) = -k
  <2>1. CASE k = pre
    BY <1>3, <1>4, <2>1
  <2>2. CASE k # pre
    <3>1. k \in 0..(pre - 1)
      BY <2>2
    <3>2. PICK w \in Waiters : Open(e, at[w], ticket[w]) /\ Past(e, ticket[w]) = -k
      BY <3>1 DEF InLine
    <3> QED BY <1>4, <1>5, <3>2
  <2> QED BY <2>1, <2>2
<1>12. InLine(e, pre + 1, at2, ticket2, left - 1)
  BY <1>6, <1>7, <1>8, <1>10, <1>11, Zenon DEF InLine
<1> QED BY <1>3, <1>12

\* Who holds the tickets, in the order of the turns.
After(e, at, ticket, k) ==
  {w \in Waiters : Open(e, at[w], ticket[w]) /\ Distance(TurnIn(ticket[w]), e) = k - 1}

QueueOf(e, pre, at, ticket) ==
  [k \in 1..pre |->
     IF After(e, at, ticket, k) = {} THEN Nil
     ELSE CHOOSE w \in After(e, at, ticket, k) : TRUE]

\* The time until a turn is the time past it, turned round.
LEMMA AheadIs ==
  ASSUME NEW e \in Epochs, NEW pre \in Nat, NEW left \in Nat,
         NEW at, NEW ticket \in [Waiters -> Word], InLine(e, pre, at, ticket, left),
         NEW w \in Waiters, Open(e, at[w], ticket[w])
  PROVE  /\ Past(e, ticket[w]) \in Int
         /\ Distance(TurnIn(ticket[w]), e) = -Past(e, ticket[w])
         /\ -Past(e, ticket[w]) \in 0..(pre - 1)
<1>1. TurnIn(ticket[w]) \in Epochs /\ Past(e, ticket[w]) \in Int /\ EpochModulus \in Nat
  BY PastType, NotifierAssumption
<1>2. Past(e, ticket[w]) <= 0 /\ -Past(e, ticket[w]) < pre /\ 2 * (pre + left) < EpochModulus
  BY DEF InLine, Open
<1>3. 2 * Past(e, ticket[w]) > -EpochModulus
  BY <1>1, <1>2
<1>4. Distance(TurnIn(ticket[w]), e) = -Past(e, ticket[w])
  BY <1>1, <1>3, DistanceBack DEF Past
<1> QED BY <1>1, <1>2, <1>4

\* The k-th of the queue is the waiter whose turn is k - 1 epochs ahead.
LEMMA QueueIs ==
  ASSUME NEW e \in Epochs, NEW pre \in Nat, NEW left \in Nat,
         NEW at, NEW ticket \in [Waiters -> Word], InLine(e, pre, at, ticket, left)
  PROVE  /\ QueueOf(e, pre, at, ticket) \in Seq(Waiters)
         /\ Len(QueueOf(e, pre, at, ticket)) = pre
         /\ \A k \in 1..pre, w \in Waiters :
              QueueOf(e, pre, at, ticket)[k] = w <=>
                Open(e, at[w], ticket[w]) /\ Past(e, ticket[w]) = 1 - k
         /\ Range(QueueOf(e, pre, at, ticket)) = {w \in Waiters : Open(e, at[w], ticket[w])}
<1> DEFINE q == QueueOf(e, pre, at, ticket)
<1>1. ASSUME NEW k \in 1..pre, NEW w \in Waiters
      PROVE  w \in After(e, at, ticket, k) <=>
               Open(e, at[w], ticket[w]) /\ Past(e, ticket[w]) = 1 - k
  <2>1. CASE Open(e, at[w], ticket[w])
    <3>1. Past(e, ticket[w]) \in Int /\ Distance(TurnIn(ticket[w]), e) = -Past(e, ticket[w])
      BY <2>1, AheadIs
    <3>2. -Past(e, ticket[w]) = k - 1 <=> Past(e, ticket[w]) = 1 - k
      BY <3>1
    <3> QED BY <2>1, <3>1, <3>2 DEF After
  <2>2. CASE ~Open(e, at[w], ticket[w])
    BY <2>2 DEF After
  <2> QED BY <2>1, <2>2
<1>2. ASSUME NEW k \in 1..pre
      PROVE  \E w \in Waiters : q[k] = w /\ After(e, at, ticket, k) = {w}
  <2>1. k - 1 \in 0..(pre - 1) /\ -(k - 1) = 1 - k
    OBVIOUS
  <2>2. PICK w \in Waiters : Open(e, at[w], ticket[w]) /\ Past(e, ticket[w]) = -(k - 1)
    BY <2>1 DEF InLine
  <2>3. w \in After(e, at, ticket, k)
    BY <1>1, <2>1, <2>2
  <2>4. \A v \in After(e, at, ticket, k) : v = w
    <3> SUFFICES ASSUME NEW v \in After(e, at, ticket, k) PROVE v = w
      OBVIOUS
    <3>1. v \in Waiters
      BY DEF After
    <3>2. Open(e, at[v], ticket[v]) /\ Past(e, ticket[v]) = 1 - k
      BY <1>1, <3>1
    <3> QED BY <2>1, <2>2, <3>1, <3>2 DEF InLine
  <2>5. After(e, at, ticket, k) = {w}
    BY <2>3, <2>4
  <2>6. q[k] = w
    BY <2>5 DEF QueueOf
  <2> QED BY <2>5, <2>6
<1>3. q = [k \in 1..pre |-> q[k]]
  BY DEF QueueOf
<1> HIDE DEF q
<1>4. q \in [1..pre -> Waiters]
  BY <1>2, <1>3
<1>5. q \in Seq(Waiters) /\ Len(q) = pre
  BY <1>4
<1>6. \A k \in 1..pre, w \in Waiters :
        q[k] = w <=> Open(e, at[w], ticket[w]) /\ Past(e, ticket[w]) = 1 - k
  BY <1>1, <1>2
<1>7. Range(q) = {w \in Waiters : Open(e, at[w], ticket[w])}
  <2>1. DOMAIN q = 1..pre /\ \A k \in 1..pre : q[k] \in Waiters
    BY <1>4
  <2>2. ASSUME NEW x \in Range(q) PROVE x \in Waiters /\ Open(e, at[x], ticket[x])
    <3>1. PICK k \in 1..pre : q[k] = x
      BY <2>1 DEF Range
    <3> QED BY <1>6, <2>1, <3>1
  <2>3. ASSUME NEW w \in Waiters, Open(e, at[w], ticket[w]) PROVE w \in Range(q)
    <3>1. /\ Past(e, ticket[w]) \in Int
          /\ -Past(e, ticket[w]) \in 0..(pre - 1)
      BY <2>3, AheadIs
    <3>2. PICK k \in 1..pre : k = 1 - Past(e, ticket[w])
      BY <3>1
    <3>3. Past(e, ticket[w]) = 1 - k
      BY <3>1, <3>2
    <3>4. q[k] = w
      BY <1>6, <2>3, <3>3
    <3> QED BY <2>1, <3>4 DEF Range
  <2> QED BY <2>2, <2>3
<1> QED BY <1>5, <1>6, <1>7 DEF q

\* A sequence with every waiter at its turn is the queue.
LEMMA QueueUnique ==
  ASSUME NEW e \in Epochs, NEW pre \in Nat, NEW left \in Nat,
         NEW at, NEW ticket \in [Waiters -> Word], InLine(e, pre, at, ticket, left),
         NEW q \in Seq(Waiters), Len(q) = pre,
         \A k \in 1..pre : Open(e, at[q[k]], ticket[q[k]]) /\ Past(e, ticket[q[k]]) = 1 - k
  PROVE  QueueOf(e, pre, at, ticket) = q
<1> DEFINE p == QueueOf(e, pre, at, ticket)
<1>1. /\ p \in Seq(Waiters) /\ Len(p) = pre
      /\ \A k \in 1..pre, w \in Waiters :
           p[k] = w <=> Open(e, at[w], ticket[w]) /\ Past(e, ticket[w]) = 1 - k
  BY QueueIs
<1> HIDE DEF p
<1>2. \A k \in 1..pre : q[k] \in Waiters
  BY ElementOfSeq
<1>3. \A k \in 1..pre : p[k] = q[k]
  BY <1>1, <1>2
<1>4. p = q
  BY <1>1, <1>3, SeqEqual
<1> QED BY <1>4 DEF p

\* Who holds the tickets.
Holders(e, at, ticket) == {w \in Waiters : Open(e, at[w], ticket[w])}

\* There are as many live tickets as prewaiters, and their turns are the next ones.
LEMMA LineCounted ==
  ASSUME NEW e \in Epochs, NEW pre \in Nat, NEW left \in Nat,
         NEW at, NEW ticket \in [Waiters -> Word], InLine(e, pre, at, ticket, left)
  PROVE  /\ IsFiniteSet(Holders(e, at, ticket)) /\ Cardinality(Holders(e, at, ticket)) = pre
         /\ {Distance(TurnIn(ticket[w]), e) : w \in Holders(e, at, ticket)} = 0..(pre - 1)
         /\ pre \in 0..Size
         /\ Holders(e, at, ticket) # Waiters => pre < Size
<1> DEFINE open == {w \in Waiters : Open(e, at[w], ticket[w])}
           q == QueueOf(e, pre, at, ticket)
<1>1. q \in Seq(Waiters) /\ Len(q) = pre /\ Range(q) = open
  BY QueueIs
<1>2. IsInjective(q)
  <2>1. \A k \in 1..pre, w \in Waiters :
          q[k] = w <=> Open(e, at[w], ticket[w]) /\ Past(e, ticket[w]) = 1 - k
    BY QueueIs
  <2> HIDE DEF q
  <2>2. DOMAIN q = 1..pre /\ \A k \in 1..pre : q[k] \in Waiters
    BY <1>1, LenProperties, ElementOfSeq
  <2>3. ASSUME NEW j \in 1..pre, NEW k \in 1..pre, q[j] = q[k] PROVE j = k
    <3>1. Past(e, ticket[q[j]]) = 1 - j /\ Past(e, ticket[q[k]]) = 1 - k
      BY <2>1, <2>2
    <3>2. 1 - j = 1 - k
      BY <2>3, <3>1
    <3> QED BY <3>2
  <2> QED BY <2>2, <2>3 DEF IsInjective
<1> HIDE DEF q
<1>3. IsFiniteSet(open) /\ Cardinality(open) = pre
  BY <1>1, <1>2, RangeCounted
<1>4. {Distance(TurnIn(ticket[w]), e) : w \in open} = 0..(pre - 1)
  <2>1. ASSUME NEW w \in open
        PROVE  Distance(TurnIn(ticket[w]), e) \in 0..(pre - 1)
    <3>1. /\ Distance(TurnIn(ticket[w]), e) = -Past(e, ticket[w])
          /\ -Past(e, ticket[w]) \in 0..(pre - 1)
      BY AheadIs
    <3> QED BY <3>1
  <2>2. ASSUME NEW k \in 0..(pre - 1)
        PROVE  \E w \in open : Distance(TurnIn(ticket[w]), e) = k
    <3>1. PICK w \in Waiters : Open(e, at[w], ticket[w]) /\ Past(e, ticket[w]) = -k
      BY DEF InLine
    <3>2. Distance(TurnIn(ticket[w]), e) = -Past(e, ticket[w])
      BY <3>1, AheadIs
    <3> QED BY <3>1, <3>2
  <2> HIDE DEF open
  <2> QED BY <2>1, <2>2
<1>5. Cardinality(open) <= Size /\ (open # Waiters => Cardinality(open) < Size)
  <2>1. open \subseteq Waiters
    OBVIOUS
  <2>2. IsFiniteSet(Waiters)
    BY NotifierAssumption
  <2> HIDE DEF open
  <2>3. Cardinality(open) <= Size /\ (Cardinality(open) = Size => open = Waiters)
    BY <2>1, <2>2, FS_Subset DEF Size
  <2>4. Cardinality(open) \in Nat /\ Size \in Nat
    BY <1>3, SizeType
  <2> QED BY <2>3, <2>4
<1>6. pre \in 0..Size /\ (open # Waiters => pre < Size)
  BY <1>3, <1>5, SizeType
<1>7. open = Holders(e, at, ticket)
  BY DEF Holders
<1> QED BY <1>3, <1>4, <1>6, <1>7

\* A queue without its k oldest tickets.
Without(q, k) == SubSeq(q, k + 1, Len(q))

\* A queue moves up as the line does.
LEMMA QueueMoves ==
  ASSUME NEW e \in Epochs, NEW pre \in Nat, NEW left \in Nat, NEW k \in 0..pre,
         NEW at, NEW ticket \in [Waiters -> Word], InLine(e, pre, at, ticket, left),
         NEW at2, NEW ticket2 \in [Waiters -> Word],
         \A w \in Waiters : at2[w] \in TicketPCs =>
           at[w] \in TicketPCs /\ ticket2[w] = ticket[w],
         \A w \in Waiters : at[w] \in TicketPCs /\ at2[w] \notin TicketPCs =>
           Past(e, ticket[w]) + k > 0
  PROVE  QueueOf((e + k) % EpochModulus, pre - k, at2, ticket2) =
           Without(QueueOf(e, pre, at, ticket), k)
<1> DEFINE c == (e + k) % EpochModulus
           p == QueueOf(e, pre, at, ticket)
           q == SubSeq(p, k + 1, pre)
<1>1. /\ InLine(c, pre - k, at2, ticket2, left)
      /\ \A w \in Waiters : at[w] \in TicketPCs => Past(c, ticket[w]) = Past(e, ticket[w]) + k
  BY LineMoves
<1>2. /\ p \in Seq(Waiters) /\ Len(p) = pre
      /\ \A i \in 1..pre, w \in Waiters :
           p[i] = w <=> Open(e, at[w], ticket[w]) /\ Past(e, ticket[w]) = 1 - i
  BY QueueIs
<1>3. k < EpochModulus
  <2>1. 2 * (pre + left) < EpochModulus /\ EpochModulus \in Nat
    BY NotifierAssumption DEF InLine
  <2> QED BY <2>1
<1>4. c \in Epochs /\ pre - k \in Nat
  BY <1>3, Forward
<1> HIDE DEF c, p
<1>5. /\ \A i \in 1..pre : p[i] \in Waiters
      /\ q \in Seq(Waiters) /\ Len(q) = pre - k
      /\ \A i \in 1..(pre - k) : q[i] = p[k + i]
  <2>1. \A i \in 1..pre : p[i] \in Waiters
    BY <1>2, ElementOfSeq
  <2> QED BY <1>2, <2>1
<1> HIDE DEF q
<1>6. ASSUME NEW i \in 1..(pre - k)
      PROVE  Open(c, at2[q[i]], ticket2[q[i]]) /\ Past(c, ticket2[q[i]]) = 1 - i
  <2>1. PICK w \in Waiters : w = q[i]
    BY <1>5, ElementOfSeq
  <2>2. k + i \in 1..pre /\ p[k + i] = w
    BY <1>5, <2>1
  <2>3. Open(e, at[w], ticket[w]) /\ Past(e, ticket[w]) = 1 - (k + i)
    BY <1>2, <2>2
  <2>4. Past(e, ticket[w]) + k = 1 - i /\ 1 - i <= 0
    BY <2>3
  <2>5. at2[w] \in TicketPCs /\ ticket2[w] = ticket[w]
    BY <2>3, <2>4 DEF Open
  <2>6. Past(c, ticket2[w]) = 1 - i
    BY <1>1, <2>3, <2>4, <2>5 DEF Open
  <2> QED BY <2>1, <2>4, <2>5, <2>6 DEF Open
<1>7. QueueOf(c, pre - k, at2, ticket2) = q
  <2>1. PICK m \in Nat : m = pre - k
    BY <1>4
  <2>2. /\ InLine(c, m, at2, ticket2, left) /\ Len(q) = m
        /\ \A i \in 1..m : Open(c, at2[q[i]], ticket2[q[i]]) /\ Past(c, ticket2[q[i]]) = 1 - i
    BY <1>1, <1>5, <1>6, <2>1
  <2>3. QueueOf(c, m, at2, ticket2) = q
    BY <1>4, <1>5, <2>2, QueueUnique
  <2> QED BY <2>1, <2>3
<1>8. Without(p, k) = q
  BY <1>2, Zenon DEF Without, q
<1> QED BY <1>7, <1>8 DEF c, p

\* A new ticket is appended to the queue.
LEMMA QueueGrows ==
  ASSUME NEW e \in Epochs, NEW pre \in Nat, NEW left \in Nat, left > 0,
         NEW at, NEW ticket \in [Waiters -> Word], InLine(e, pre, at, ticket, left),
         NEW x \in Waiters, at[x] \notin TicketPCs,
         NEW at2, NEW ticket2 \in [Waiters -> Word],
         \A w \in Waiters \ {x} : at2[w] = at[w] /\ ticket2[w] = ticket[w],
         at2[x] \in TicketPCs, ticket2[x].epoch = e, ticket2[x].pre = pre
  PROVE  QueueOf(e, pre + 1, at2, ticket2) = Append(QueueOf(e, pre, at, ticket), x)
<1> DEFINE p == QueueOf(e, pre, at, ticket)
           q == Append(p, x)
<1>1. InLine(e, pre + 1, at2, ticket2, left - 1) /\ Past(e, ticket2[x]) = -pre
  BY LineGrows
<1>2. /\ p \in Seq(Waiters) /\ Len(p) = pre
      /\ \A i \in 1..pre, w \in Waiters :
           p[i] = w <=> Open(e, at[w], ticket[w]) /\ Past(e, ticket[w]) = 1 - i
  BY QueueIs
<1> HIDE DEF p
<1>3. /\ q \in Seq(Waiters) /\ Len(q) = pre + 1 /\ q[pre + 1] = x
      /\ \A i \in 1..pre : q[i] = p[i]
  BY <1>2
<1> HIDE DEF q
<1>4. ASSUME NEW i \in 1..(pre + 1)
      PROVE  Open(e, at2[q[i]], ticket2[q[i]]) /\ Past(e, ticket2[q[i]]) = 1 - i
  <2>1. CASE i = pre + 1
    BY <1>1, <1>3, <2>1 DEF Open
  <2>2. CASE i # pre + 1
    <3>1. i \in 1..pre
      BY <2>2
    <3>2. PICK w \in Waiters : w = p[i]
      BY <1>2, <3>1, ElementOfSeq
    <3>3. q[i] = w /\ Open(e, at[w], ticket[w]) /\ Past(e, ticket[w]) = 1 - i
      BY <1>2, <1>3, <3>1, <3>2
    <3>4. w # x
      BY <3>3 DEF Open
    <3> QED BY <3>3, <3>4 DEF Open
  <2> QED BY <2>1, <2>2
<1>5. pre + 1 \in Nat /\ left - 1 \in Nat
  OBVIOUS
<1>6. QueueOf(e, pre + 1, at2, ticket2) = q
  BY <1>1, <1>3, <1>4, <1>5, QueueUnique
<1> QED BY <1>6 DEF p, q

-----------------------------------------------------------------------------
(* The inductive invariant.                                                *)

WaiterPCs == {"out"} \cup TicketPCs \cup Parking
NotifierPCs ==
  {"idle", "popTry", "allTry", "popRead", "popCas", "unlink", "unpark", "signal", "wake"}

Typed ==
  /\ TypeOK
  /\ \A w \in Waiters : pc[w] \in WaiterPCs
  /\ \A n \in Notifiers : pc[n] \in NotifierPCs

\* The tickets of the state.
Lined == InLine(m_state.epoch, m_state.pre, pc, snap, Total(rounds, Waiters))

\* What a waiter's state says, by where it is: its link and the word it loaded
\* in commit_wait are those of the turn it tries to take.
ParkedAt(at, state, link, r, ticket) ==
  /\ at \in {"commitTry", "commitCas"} => state = "NotSignaled"
  /\ at = "parkCas" => state # "Waiting"
  /\ at \in {"parkWait", "blocked"} => state # "NotSignaled"
  /\ at = "commitCas" => link = r.top /\ r.epoch = TurnIn(ticket)

Parked == \A w \in Waiters : ParkedAt(pc[w], wstate[w], next[w], reg[w], snap[w])

\* What the variables of notify_one, notify_n and _unpark hold in their loops.
LoopAt(at, q, c, r) ==
  /\ at \in {"popTry", "popRead", "popCas"} => q > 0
  /\ at \in {"unlink", "unpark", "signal", "wake"} => c \in Waiters
  /\ at \in {"popRead", "popCas"} => r.top \in Waiters /\ r.pre = 0

Loops == \A n \in Notifiers : LoopAt(pc[n], quota[n], cur[n], reg[n])

\* The waiters on a chain.
OnChain(links, first) == Range(Chain(links, first))

\* What a notifier may rely on when it pops: as long as no ticket has settled
\* since it loaded the word, nobody has pushed, and if the top it loaded is
\* still on the stack then it is the top still, and its link the one it read.
VouchedAt(word, links, left, at, r, x) ==
  at \in {"popRead", "popCas"} =>
    LET age == Distance(word.epoch, r.epoch)
    IN  /\ age >= 0 /\ 2 * (age + word.pre + left) < EpochModulus
        /\ age = 0 /\ r.top \in OnChain(links, word.top) =>
             /\ word.top = r.top
             /\ at = "popCas" => x = links[r.top]

Vouched ==
  \A n \in Notifiers :
    VouchedAt(m_state, next, Total(rounds, Waiters), pc[n], reg[n], nxt[n])

\* The stack, and the sleepers a notifier still has to signal, are chains.
LinkedAt(links, at, c, x) ==
  /\ at = "unpark" => Chained(links, c)
  /\ at \in {"signal", "wake"} => Chained(links, x)
  /\ at = "signal" => c \notin OnChain(links, x)

Linked ==
  /\ Chained(next, m_state.top)
  /\ \A n \in Notifiers : LinkedAt(next, pc[n], cur[n], nxt[n])

\* OwedBy, of a notifier that is at a point.
OwedAt(links, at, c, x) ==
  CASE at = "unlink" -> {c}
    [] at = "unpark" -> OnChain(links, c)
    [] at = "signal" -> {c} \cup OnChain(links, x)
    [] at = "wake" -> OnChain(links, x)
    [] OTHER -> {}

\* The sleepers are those on the stack and those owed a signal, in one place each.
Partition(stack, owed, sleepers) ==
  /\ \A n \in Notifiers : owed[n] \cap stack = {}
  /\ \A m, n \in Notifiers : m # n => owed[m] \cap owed[n] = {}
  /\ sleepers = stack \cup UNION {owed[n] : n \in Notifiers}

Owed == [n \in Notifiers |-> OwedAt(next, pc[n], cur[n], nxt[n])]
Sleepers == {w \in Waiters : Asleep(w)}

Claimed == Partition(OnChain(next, m_state.top), Owed, Sleepers)

IInv == Typed /\ Lined /\ Parked /\ Loops /\ Vouched /\ Linked /\ Claimed

-----------------------------------------------------------------------------
(* The state, its tickets and its words.                                   *)

\* A ticket of the model is a place in the line.
LEMMA TurnIs ==
  ASSUME NEW w \in Waiters
  PROVE  /\ Turn(w) = Past(m_state.epoch, snap[w])
         /\ HoldsTicket(w) <=> Open(m_state.epoch, pc[w], snap[w])
  BY DEF HoldsTicket, Turn, Target, Open, Past, TurnIn, TicketPCs

\* The queue of the model's tickets, before and after a step.
LEMMA TicketsAre ==
  /\ Tickets = QueueOf(m_state.epoch, m_state.pre, pc, snap)
  /\ Tickets' = QueueOf(m_state'.epoch, m_state'.pre, pc', snap')
  BY DEF Tickets, QueueOf, TurnAfter, After, HoldsTicket, Target, Open, Past, TurnIn, TicketPCs

\* What the line's lemmas need of a typed state.
LEMMA LineTypes ==
  ASSUME Typed
  PROVE  /\ m_state.epoch \in Epochs /\ m_state.pre \in Nat
         /\ Total(rounds, Waiters) \in Nat
         /\ snap \in [Waiters -> Word]
<1>1. Total(rounds, Waiters) \in Nat
  BY NotifierAssumption, UnitsFinite DEF Typed, TypeOK
<1> QED BY <1>1, SizeType DEF Typed, TypeOK, Word, Epochs

\* The word after k tickets have settled.
LEMMA AdvanceIs ==
  ASSUME NEW word \in Word, NEW k \in 0..word.pre, 2 * k < EpochModulus
  PROVE  /\ Advance(word, k) \in Word
         /\ Advance(word, k).epoch = (word.epoch + k) % EpochModulus
         /\ Advance(word, k).pre = word.pre - k
         /\ Advance(word, k).top = word.top
         /\ \A x \in Waiters \cup {Nil} :
              /\ [Advance(word, k) EXCEPT !.top = x] \in Word
              /\ [Advance(word, k) EXCEPT !.top = x].epoch = (word.epoch + k) % EpochModulus
              /\ [Advance(word, k) EXCEPT !.top = x].pre = word.pre - k
              /\ [Advance(word, k) EXCEPT !.top = x].top = x
<1> DEFINE c == (word.epoch + k) % EpochModulus
<1>1. /\ word.epoch \in Epochs /\ word.pre \in 0..Size /\ word.top \in Waiters \cup {Nil}
      /\ word = [epoch |-> word.epoch, pre |-> word.pre, top |-> word.top]
  BY DEF Word, Epochs
<1>2. c \in Epochs
  <2>1. EpochModulus \in Nat /\ k \in Nat /\ k < EpochModulus
    BY <1>1, SizeType, NotifierAssumption
  <2> QED BY <1>1, <2>1, Forward
<1>3. word.pre - k \in 0..Size
  BY <1>1, SizeType
<1>4. Advance(word, k) = [epoch |-> c, pre |-> word.pre - k, top |-> word.top]
  <2>1. Advance(word, k) = [word EXCEPT !.epoch = c, !.pre = word.pre - k]
    BY <1>1 DEF Advance
  <2> HIDE DEF c
  <2> QED BY <1>1, <2>1
<1> HIDE DEF c
<1>5. \A x \in Waiters \cup {Nil} :
        /\ [epoch |-> c, pre |-> word.pre - k, top |-> x] \in Word
        /\ [Advance(word, k) EXCEPT !.top = x] = [epoch |-> c, pre |-> word.pre - k, top |-> x]
  BY <1>2, <1>3, <1>4 DEF Word, Epochs
<1>6. Advance(word, k) \in Word
  BY <1>1, <1>4, <1>5
<1> QED BY <1>4, <1>5, <1>6 DEF c

\* Where the epoch does not move, its distances stay.
LEMMA NoDistance ==
  ASSUME NEW e \in Epochs
  PROVE  /\ (e + 0) % EpochModulus = e
         /\ Distance(e, e) = 0
         /\ \A b \in Epochs : Distance(e, b) = 0 => b = e
<1>1. EpochModulus \in Nat /\ EpochModulus > 1 /\ e \in Int /\ e + 0 = e
  BY NotifierAssumption DEF Epochs
<1>2. (e + 0) % EpochModulus = e
  BY <1>1, Wrap
<1>3. Distance(e, e) = 0
  <2>1. 0 \in Int /\ -EpochModulus <= 2 * 0 /\ 2 * 0 < EpochModulus /\ e - e = 0
    BY <1>1
  <2> QED BY <2>1, DistanceIs
<1>4. \A b \in Epochs : Distance(e, b) = 0 => b = e
  BY <1>3, DistanceInjective
<1> QED BY <1>2, <1>3, <1>4

\* The oldest ticket is there when its turn has come.
LEMMA TurnComes ==
  ASSUME IInv, NEW w \in Waiters, pc[w] \in TicketPCs, Turn(w) = 0
  PROVE  m_state.pre >= 1 /\ HoldsTicket(w) /\ 2 * m_state.pre < EpochModulus
<1>1. Past(m_state.epoch, snap[w]) = 0 /\ Open(m_state.epoch, pc[w], snap[w])
  <2>1. Past(m_state.epoch, snap[w]) = 0
    BY TurnIs
  <2> QED BY <2>1 DEF Open
<1>2. m_state.pre \in Nat /\ Total(rounds, Waiters) \in Nat /\ EpochModulus \in Nat
  BY LineTypes, NotifierAssumption DEF IInv
<1>3. -Past(m_state.epoch, snap[w]) < m_state.pre
  BY <1>1 DEF IInv, Lined, InLine
<1>4. 2 * (m_state.pre + Total(rounds, Waiters)) < EpochModulus
  BY DEF IInv, Lined, InLine
<1> QED BY <1>1, <1>2, <1>3, <1>4, TurnIs

-----------------------------------------------------------------------------
(* Types.                                                                  *)

\* What is used of the types.
LEMMA TypesAre ==
  ASSUME IInv
  PROVE  /\ m_state \in Word /\ snap \in [Waiters -> Word] /\ reg \in [Threads -> Word]
         /\ next \in [Waiters -> Waiters \cup {Nil}]
         /\ \A w \in Waiters : w \in Threads /\ w \notin Notifiers /\ pc[w] \in WaiterPCs
         /\ \A n \in Notifiers : n \in Threads /\ n \notin Waiters /\ pc[n] \in NotifierPCs
         /\ Size \in Nat /\ Size >= 1
  BY NotifierAssumption, SizeType DEF IInv, Typed, TypeOK, Threads

\* A call of notify_one, notify_all or notify_n begins.
LEMMA NotifyTyped ==
  ASSUME Typed, NEW n \in Notifiers, NotifyOne(n) \/ NotifyAll(n) \/ NotifyN(n)
  PROVE  Typed'
<1>1. PICK at \in {"popTry", "allTry"}, k \in 0..Size : NotifyCall(n, at, k)
  BY SizeType DEF NotifyOne, NotifyAll, NotifyN
<1>2. n \in Threads /\ \A w \in Waiters : w \in Threads /\ w # n
  BY NotifierAssumption DEF Threads
<1>3. at \in NotifierPCs
  BY DEF NotifierPCs
<1> QED BY <1>1, <1>2, <1>3 DEF NotifyCall, Goto, Typed, TypeOK, waiterVars, NotifierPCs

\* The word after a step.
LEMMA WordTyped ==
  ASSUME IInv, [Next]_vars
  PROVE  m_state' \in Word
<1>1. /\ m_state \in Word /\ m_state.pre \in Nat
      /\ m_state = [epoch |-> m_state.epoch, pre |-> m_state.pre, top |-> m_state.top]
  BY LineTypes DEF IInv, Typed, TypeOK, Word
<1>2. EpochModulus \in Nat /\ 2 * m_state.pre < EpochModulus
  <2>1. 2 * (m_state.pre + Total(rounds, Waiters)) < EpochModulus
    BY DEF IInv, Lined, InLine
  <2> QED BY <1>1, <2>1, LineTypes, NotifierAssumption DEF IInv
<1>3. ASSUME NEW k \in 0..m_state.pre
      PROVE  /\ Advance(m_state, k) \in Word
             /\ \A x \in Waiters \cup {Nil} : [Advance(m_state, k) EXCEPT !.top = x] \in Word
  <2>1. 2 * k < EpochModulus
    BY <1>1, <1>2
  <2> QED BY <1>1, <2>1, AdvanceIs
<1>4. ASSUME NEW w \in Waiters, PrepareWait(w) PROVE m_state' \in Word
  <2>1. pc[w] = "out" /\ m_state' = [m_state EXCEPT !.pre = @ + 1]
    BY <1>4 DEF PrepareWait, Goto
  <2>2. ~Open(m_state.epoch, pc[w], snap[w])
    BY <2>1 DEF Open, TicketPCs
  <2>3. m_state.pre < Size
    <3>1. Holders(m_state.epoch, pc, snap) # Waiters
      BY <2>2 DEF Holders
    <3>2. /\ m_state.epoch \in Epochs /\ m_state.pre \in Nat /\ Total(rounds, Waiters) \in Nat
          /\ snap \in [Waiters -> Word]
          /\ InLine(m_state.epoch, m_state.pre, pc, snap, Total(rounds, Waiters))
      BY LineTypes DEF IInv, Lined
    <3> QED BY <3>1, <3>2, LineCounted
  <2>4. m_state.pre + 1 \in 0..Size
    BY <1>1, <2>3, SizeType
  <2> QED BY <1>1, <2>1, <2>4 DEF Word
<1>5. ASSUME NEW w \in Waiters, CancelSettle(w) PROVE m_state' \in Word
  <2>1. m_state.pre >= 1
    BY <1>5, TurnComes DEF CancelSettle, Goto, TicketPCs
  <2>2. 1 \in 0..m_state.pre /\ m_state' = Advance(m_state, 1)
    BY <1>1, <1>5, <2>1 DEF CancelSettle
  <2> QED BY <1>3, <2>2
<1>6. ASSUME NEW w \in Waiters, CommitPush(w) PROVE m_state' \in Word
  <2>1. CASE m_state = reg[w]
    <3>1. /\ pc[w] = "commitCas" /\ m_state' = [Advance(m_state, 1) EXCEPT !.top = w]
      BY <1>6, <2>1 DEF CommitPush, Goto
    <3>2. m_state.epoch = TurnIn(snap[w])
      BY <2>1, <3>1 DEF IInv, Parked, ParkedAt
    <3>3. Turn(w) = 0
      BY <3>2, LineTypes, NoDistance, TurnIs DEF IInv, Past
    <3>4. 1 \in 0..m_state.pre
      BY <1>1, <3>1, <3>3, TurnComes DEF TicketPCs
    <3> QED BY <1>3, <3>1, <3>4
  <2>2. CASE m_state # reg[w]
    BY <1>1, <1>6, <2>2 DEF CommitPush
  <2> QED BY <2>1, <2>2
<1>7. ASSUME NEW n \in Notifiers, ReleaseTickets(n) PROVE m_state' \in Word
  <2> DEFINE k == IF quota[n] < m_state.pre THEN quota[n] ELSE m_state.pre
  <2>1. k \in 0..m_state.pre /\ m_state' = Advance(m_state, k)
    BY <1>1, <1>7, SizeType DEF ReleaseTickets, IInv, Typed, TypeOK
  <2> QED BY <1>3, <2>1
<1>8. ASSUME NEW n \in Notifiers, PopCas(n) PROVE m_state' \in Word
  <2>1. nxt[n] \in Waiters \cup {Nil}
    BY DEF IInv, Typed, TypeOK
  <2> QED BY <1>1, <1>8, <2>1 DEF PopCas, Word
<1>9. ASSUME NEW n \in Notifiers, TakeAll(n) PROVE m_state' \in Word
  <2>1. m_state.pre \in 0..m_state.pre
    BY <1>1
  <2> QED BY <1>3, <1>9, <2>1 DEF TakeAll
<1>10. CASE UNCHANGED m_state
  BY <1>1, <1>10
<1> QED
  BY <1>4, <1>5, <1>6, <1>7, <1>8, <1>9, <1>10
  DEF Next, vars, WaiterRuns, NotifierRuns, CancelWait, PassedOver, CommitWait, CommitLink,
      ParkCas, ParkWait, NotifyOne, NotifyAll, NotifyN, NotifyCall, NotifyNobody, PopLoad,
      PopRead, Unlink, UnparkRead, UnparkSignal, UnparkWake

\* Every step keeps the types.
LEMMA TypedNext ==
  ASSUME IInv, [Next]_vars
  PROVE  Typed'
<1>1. m_state' \in Word
  BY WordTyped
<1>2. /\ Typed /\ Blank \in Word /\ Size \in Nat /\ Size >= 1
      /\ \A w \in Waiters : w \in Threads /\ w \notin Notifiers
      /\ \A n \in Notifiers : n \in Threads /\ n \notin Waiters
  BY TypesAre, NotifierAssumption DEF IInv, Blank, Word
<1>3. /\ m_state.top \in Waiters \cup {Nil}
      /\ \A n \in Notifiers : pc[n] \in {"popRead", "popCas"} => reg[n].top \in Waiters
      /\ \A n \in Notifiers : pc[n] \in {"popTry", "popRead", "popCas"} => quota[n] > 0
      /\ \A n \in Notifiers : pc[n] \in {"unlink", "unpark", "signal", "wake"} => cur[n] \in Waiters
  BY DEF IInv, Typed, TypeOK, Word, Loops, LoopAt
<1> USE <1>1, <1>2, <1>3 DEF Typed, TypeOK, Goto, Load, Leave, Settled, notifierVars, waiterVars,
        WaiterPCs, NotifierPCs, TicketPCs, Parking
<1>4. ASSUME NEW w \in Waiters,
             \/ PrepareWait(w) \/ CancelWait(w) \/ CancelSettle(w) \/ PassedOver(w) \/ CommitWait(w)
      PROVE  Typed'
  BY <1>4 DEF PrepareWait, CancelWait, CancelSettle, PassedOver, CommitWait
<1>5. ASSUME NEW w \in Waiters,
             \/ CommitLink(w) \/ CommitPush(w) \/ ParkCas(w) \/ ParkWait(w)
      PROVE  Typed'
  BY <1>5 DEF CommitLink, CommitPush, ParkCas, ParkWait
<1>6. ASSUME NEW n \in Notifiers,
             \/ NotifyNobody(n) \/ PopLoad(n) \/ PopRead(n) \/ Unlink(n) \/ UnparkRead(n)
      PROVE  Typed'
  BY <1>6, SMTT(30) DEF NotifyNobody, PopLoad, PopRead, Unlink, UnparkRead
<1>7. ASSUME NEW n \in Notifiers, ReleaseTickets(n) PROVE Typed'
  <2>1. PICK k \in 0..quota[n] :
          /\ quota' = [quota EXCEPT ![n] = @ - k]
          /\ pc' = [pc EXCEPT ![n] = Again(quota[n] - k)]
          /\ UNCHANGED <<next, wstate, reg, cur, nxt, calls, waiterVars>>
    <3>1. m_state.pre \in Nat /\ quota[n] \in Nat
      BY DEF Word
    <3> DEFINE c == IF quota[n] < m_state.pre THEN quota[n] ELSE m_state.pre
    <3>2. c \in 0..quota[n]
      BY <3>1
    <3> QED BY <1>7, <3>2 DEF ReleaseTickets
  <2>2. quota[n] - k \in 0..Size /\ Again(quota[n] - k) \in NotifierPCs
    BY DEF Again
  <2> QED BY <2>1, <2>2
<1>8. ASSUME NEW n \in Notifiers, PopCas(n) \/ TakeAll(n) PROVE Typed'
  BY <1>8, SMTT(30) DEF PopCas, TakeAll
<1>9. ASSUME NEW n \in Notifiers, UnparkSignal(n) PROVE Typed'
  <2>1. AfterUnpark(n) \in NotifierPCs
    BY DEF AfterUnpark, Again
  <2> QED BY <1>9, <2>1, SMTT(30) DEF UnparkSignal, NextInChain
<1>10. ASSUME NEW n \in Notifiers, UnparkWake(n) PROVE Typed'
  <2>1. AfterUnpark(n) \in NotifierPCs
    BY DEF AfterUnpark, Again
  <2> QED BY <1>10, <2>1 DEF UnparkWake, NextInChain
<1>11. CASE UNCHANGED vars
  BY <1>11 DEF vars
<1> QED
  BY <1>4, <1>5, <1>6, <1>7, <1>8, <1>9, <1>10, <1>11, NotifyTyped
  DEF Next, WaiterRuns, NotifierRuns

-----------------------------------------------------------------------------
(* What the threads know.                                                  *)

\* A sleeper on the stack or owed a signal is asleep; so it is at no other point.
LEMMA SleepersSleep ==
  ASSUME IInv
  PROVE  /\ \A w \in OnChain(next, m_state.top) : w \in Waiters /\ Asleep(w)
         /\ \A n \in Notifiers : \A w \in OwedAt(next, pc[n], cur[n], nxt[n]) :
              w \in Waiters /\ Asleep(w) /\ w \notin OnChain(next, m_state.top)
<1>1. \A n \in Notifiers : Owed[n] = OwedAt(next, pc[n], cur[n], nxt[n])
  BY DEF Owed
<1> USE DEF IInv, Claimed, Partition, Sleepers
<1>2. \A w \in OnChain(next, m_state.top) : w \in Waiters /\ Asleep(w)
  OBVIOUS
<1>3. ASSUME NEW n \in Notifiers, NEW w \in Owed[n]
      PROVE  w \in Waiters /\ Asleep(w) /\ w \notin OnChain(next, m_state.top)
  <2>1. w \in UNION {Owed[m] : m \in Notifiers}
    OBVIOUS
  <2>2. w \in Sleepers
    BY <2>1
  <2> QED BY <2>2
<1> QED BY <1>1, <1>2, <1>3

\* Every step keeps what a waiter's state says.
LEMMA ParkedNext ==
  ASSUME IInv, [Next]_vars
  PROVE  Parked'
<1>1. /\ Parked
      /\ \A w \in Waiters : w \in Threads /\ w \notin Notifiers
      /\ \A n \in Notifiers : n \in Threads /\ n \notin Waiters
      /\ pc = [t \in Threads |-> pc[t]]
      /\ wstate \in [Waiters -> {"NotSignaled", "Waiting", "Signaled"}]
      /\ next \in [Waiters -> Waiters \cup {Nil}]
      /\ reg \in [Threads -> Word] /\ snap \in [Waiters -> Word]
  BY TypesAre DEF IInv, Typed, TypeOK, Threads
<1> USE DEF Parked, ParkedAt, Goto, Settled, Load, Leave, notifierVars, waiterVars
<1>2. ASSUME NEW w \in Waiters,
             \/ PrepareWait(w) \/ CancelWait(w) \/ CancelSettle(w) \/ PassedOver(w)
             \/ CommitWait(w) \/ ParkCas(w) \/ ParkWait(w)
      PROVE  Parked'
  BY <1>1, <1>2
  DEF PrepareWait, CancelWait, CancelSettle, PassedOver, CommitWait, ParkCas, ParkWait
<1>3. ASSUME NEW w \in Waiters, CommitLink(w) PROVE Parked'
  <2>1. m_state.epoch = TurnIn(snap[w])
    <3>1. TurnIn(snap[w]) \in Epochs /\ m_state.epoch \in Epochs
      BY LineTypes, PastType DEF IInv
    <3>2. Distance(m_state.epoch, TurnIn(snap[w])) = 0
      BY <1>3, TurnIs DEF CommitLink, Past
    <3> QED BY <3>1, <3>2, NoDistance
  <2> QED BY <1>1, <1>3, <2>1 DEF CommitLink
<1>4. ASSUME NEW w \in Waiters, CommitPush(w) PROVE Parked'
  BY <1>1, <1>4 DEF CommitPush
<1>5. ASSUME NEW n \in Notifiers,
             /\ UNCHANGED <<snap, next, wstate>>
             /\ \A w \in Waiters : pc'[w] = pc[w] /\ reg'[w] = reg[w]
      PROVE  Parked'
  BY <1>1, <1>5
<1>6. ASSUME NEW n \in Notifiers,
             \/ NotifyNobody(n) \/ ReleaseTickets(n) \/ PopLoad(n) \/ PopRead(n) \/ PopCas(n)
             \/ TakeAll(n) \/ UnparkRead(n)
      PROVE  Parked'
  <2>1. /\ UNCHANGED <<snap, next, wstate>>
        /\ \A w \in Waiters : pc'[w] = pc[w] /\ reg'[w] = reg[w]
    BY <1>1, <1>6
    DEF NotifyNobody, ReleaseTickets, PopLoad, PopRead, PopCas, TakeAll, UnparkRead
  <2> QED BY <1>5, <2>1
<1>7. ASSUME NEW n \in Notifiers, NotifyOne(n) \/ NotifyAll(n) \/ NotifyN(n) PROVE Parked'
  <2>1. /\ UNCHANGED <<snap, next, wstate>>
        /\ \A w \in Waiters : pc'[w] = pc[w] /\ reg'[w] = reg[w]
    BY <1>1, <1>7 DEF NotifyOne, NotifyAll, NotifyN, NotifyCall
  <2> QED BY <1>5, <2>1
<1>8. ASSUME NEW n \in Notifiers, Unlink(n) PROVE Parked'
  <2>1. pc[cur[n]] \in Parking
    <3>1. cur[n] \in OwedAt(next, pc[n], cur[n], nxt[n])
      BY <1>8 DEF Unlink, OwedAt
    <3> QED BY <3>1, SleepersSleep DEF Asleep
  <2> QED BY <1>1, <1>8, <2>1 DEF Unlink, Parking
<1>9. ASSUME NEW n \in Notifiers, pc[n] = "signal"
      PROVE  pc[cur[n]] \in Parking
  <2>1. cur[n] \in OwedAt(next, pc[n], cur[n], nxt[n])
    BY <1>9 DEF OwedAt
  <2> QED BY <2>1, SleepersSleep DEF Asleep
<1>10. ASSUME NEW n \in Notifiers, UnparkSignal(n) PROVE Parked'
  BY <1>1, <1>9, <1>10 DEF UnparkSignal, Parking, NextInChain
<1>11. ASSUME NEW n \in Notifiers, UnparkWake(n) PROVE Parked'
  BY <1>1, <1>11 DEF UnparkWake
<1>12. CASE UNCHANGED vars
  BY <1>1, <1>12 DEF vars
<1> QED
  BY <1>2, <1>3, <1>4, <1>6, <1>7, <1>8, <1>10, <1>11, <1>12 DEF Next, WaiterRuns, NotifierRuns

\* Every step keeps what the notifiers' variables hold.
LEMMA LoopsNext ==
  ASSUME IInv, [Next]_vars
  PROVE  Loops'
<1>1. /\ Loops /\ m_state \in Word /\ Size \in Nat /\ Size >= 1
      /\ \A w \in Waiters : w \in Threads /\ w \notin Notifiers
      /\ \A n \in Notifiers : n \in Threads /\ n \notin Waiters
      /\ pc = [t \in Threads |-> pc[t]]
      /\ quota \in [Notifiers -> 0..Size]
      /\ cur \in [Notifiers -> Waiters \cup {Nil}] /\ nxt \in [Notifiers -> Waiters \cup {Nil}]
      /\ next \in [Waiters -> Waiters \cup {Nil}]
      /\ reg \in [Threads -> Word]
  BY TypesAre DEF IInv, Typed, TypeOK, Threads
<1>2. m_state.top \in Waiters \cup {Nil} /\ m_state.pre \in Nat
  BY <1>1 DEF Word
<1> USE DEF Loops, LoopAt, Goto, Load, Leave, notifierVars, waiterVars
<1>3. ASSUME NEW w \in Waiters,
             \/ PrepareWait(w) \/ CancelWait(w) \/ CancelSettle(w) \/ PassedOver(w)
             \/ CommitWait(w) \/ CommitLink(w) \/ CommitPush(w) \/ ParkCas(w) \/ ParkWait(w)
      PROVE  Loops'
  <2>1. /\ UNCHANGED <<quota, cur>>
        /\ \A n \in Notifiers : pc'[n] = pc[n] /\ reg'[n] = reg[n]
    BY <1>1, <1>3
    DEF PrepareWait, CancelWait, CancelSettle, PassedOver, CommitWait, CommitLink, CommitPush,
        ParkCas, ParkWait
  <2> QED BY <1>1, <2>1
<1>4. ASSUME NEW n \in Notifiers, NotifyOne(n) \/ NotifyAll(n) \/ NotifyN(n) PROVE Loops'
  <2>1. PICK at \in {"popTry", "allTry"}, k \in 0..Size :
          NotifyCall(n, at, k) /\ (at = "popTry" => k > 0)
    BY <1>1, <1>4 DEF NotifyOne, NotifyAll, NotifyN
  <2> QED BY <1>1, <2>1 DEF NotifyCall
<1>5. ASSUME NEW n \in Notifiers,
             \/ NotifyNobody(n) \/ PopLoad(n) \/ PopRead(n) \/ Unlink(n) \/ UnparkRead(n)
      PROVE  Loops'
  BY <1>1, <1>2, <1>5 DEF NotifyNobody, PopLoad, PopRead, Unlink, UnparkRead
<1>6. ASSUME NEW n \in Notifiers, ReleaseTickets(n) PROVE Loops'
  <2>1. PICK k \in 0..quota[n] :
          /\ quota' = [quota EXCEPT ![n] = @ - k]
          /\ pc' = [pc EXCEPT ![n] = Again(quota[n] - k)]
          /\ UNCHANGED <<reg, cur>>
    <3>1. m_state.pre \in Nat /\ quota[n] \in Nat
      BY <1>1, <1>2
    <3> DEFINE c == IF quota[n] < m_state.pre THEN quota[n] ELSE m_state.pre
    <3>2. c \in 0..quota[n]
      BY <3>1
    <3>3. /\ quota' = [quota EXCEPT ![n] = @ - c]
          /\ pc' = [pc EXCEPT ![n] = Again(quota[n] - c)]
          /\ UNCHANGED <<reg, cur>>
      BY <1>6, Zenon DEF ReleaseTickets
    <3> HIDE DEF c
    <3> QED BY <3>1, <3>2, <3>3, Zenon
  <2>2. quota[n] - k \in 0..Size /\ (Again(quota[n] - k) = "popTry" => quota[n] - k > 0)
    BY <1>1 DEF Again
  <2>3. Again(quota[n] - k) \in {"idle", "popTry"} /\ pc[n] = "popTry"
    BY <1>6 DEF Again, ReleaseTickets
  <2>4. /\ quota'[n] = quota[n] - k /\ pc'[n] = Again(quota[n] - k)
        /\ \A m \in Notifiers : m # n => pc'[m] = pc[m] /\ quota'[m] = quota[m]
        /\ UNCHANGED <<reg, cur>>
    BY <1>1, <2>1
  <2>5. LoopAt(pc'[n], quota'[n], cur[n], reg[n])
    <3>1. PICK j : j = quota[n] - k
      OBVIOUS
    <3> QED BY <1>1, <2>2, <2>3, <2>4, <3>1
  <2> QED BY <1>1, <2>4, <2>5
<1>7. ASSUME NEW n \in Notifiers, PopCas(n) \/ TakeAll(n) PROVE Loops'
  <2>1. /\ pc'[n] \notin {"popRead", "popCas"} /\ (pc'[n] = "popTry" => quota'[n] > 0)
        /\ pc'[n] \in {"unlink", "unpark", "signal", "wake"} => cur'[n] \in Waiters
    <3>1. CASE PopCas(n)
      BY <1>1, <1>2, <3>1 DEF PopCas
    <3>2. CASE TakeAll(n)
      BY <1>1, <1>2, <3>2 DEF TakeAll
    <3> QED BY <1>7, <3>1, <3>2
  <2>2. \A m \in Notifiers : m # n =>
          pc'[m] = pc[m] /\ quota'[m] = quota[m] /\ cur'[m] = cur[m] /\ reg'[m] = reg[m]
    BY <1>1, <1>7 DEF PopCas, TakeAll
  <2> QED BY <1>1, <2>1, <2>2
<1>8. ASSUME NEW n \in Notifiers, UnparkSignal(n) PROVE Loops'
  BY <1>1, <1>8, SMTT(30) DEF UnparkSignal, NextInChain, AfterUnpark, Again
<1>9. ASSUME NEW n \in Notifiers, UnparkWake(n) PROVE Loops'
  BY <1>1, <1>9, SMTT(30) DEF UnparkWake, NextInChain, AfterUnpark, Again
<1>10. CASE UNCHANGED vars
  BY <1>1, <1>10 DEF vars
<1> QED
  BY <1>3, <1>4, <1>5, <1>6, <1>7, <1>8, <1>9, <1>10 DEF Next, WaiterRuns, NotifierRuns

-----------------------------------------------------------------------------
(* The tickets.                                                            *)

\* k tickets settle.
LEMMA LineSettles ==
  ASSUME IInv, Typed', NEW k \in 0..m_state.pre,
         m_state'.epoch = (m_state.epoch + k) % EpochModulus,
         m_state'.pre = m_state.pre - k,
         rounds' = rounds,
         \A w \in Waiters : pc'[w] \in TicketPCs => pc[w] \in TicketPCs /\ snap'[w] = snap[w],
         \A w \in Waiters : pc[w] \in TicketPCs /\ pc'[w] \notin TicketPCs => Turn(w) + k > 0
  PROVE  /\ Lined'
         /\ Tickets' = Without(Tickets, k)
<1> DEFINE left == Total(rounds, Waiters)
<1>1. /\ m_state.epoch \in Epochs /\ m_state.pre \in Nat /\ left \in Nat
      /\ snap \in [Waiters -> Word] /\ snap' \in [Waiters -> Word]
      /\ InLine(m_state.epoch, m_state.pre, pc, snap, left)
  BY LineTypes DEF IInv, Lined, Typed, TypeOK
<1>2. Total(rounds', Waiters) = left
  OBVIOUS
<1>3. \A w \in Waiters : pc[w] \in TicketPCs /\ pc'[w] \notin TicketPCs =>
        Past(m_state.epoch, snap[w]) + k > 0
  BY TurnIs
<1> HIDE DEF left
<1>4. InLine((m_state.epoch + k) % EpochModulus, m_state.pre - k, pc', snap', left)
  BY <1>1, <1>3, LineMoves
<1>5. QueueOf((m_state.epoch + k) % EpochModulus, m_state.pre - k, pc', snap') =
        Without(QueueOf(m_state.epoch, m_state.pre, pc, snap), k)
  BY <1>1, <1>3, QueueMoves
<1>6. Lined'
  BY <1>2, <1>4 DEF Lined
<1> QED BY <1>5, <1>6, TicketsAre

\* A step that settles nobody.
LEMMA LineStays ==
  ASSUME IInv, Typed',
         m_state'.epoch = m_state.epoch, m_state'.pre = m_state.pre, rounds' = rounds,
         \A w \in Waiters : pc'[w] \in TicketPCs => pc[w] \in TicketPCs /\ snap'[w] = snap[w],
         \A w \in Waiters : pc[w] \in TicketPCs /\ pc'[w] \notin TicketPCs => Turn(w) > 0
  PROVE  Lined' /\ Tickets' = Tickets
<1>1. /\ m_state.epoch \in Epochs /\ m_state.pre \in Nat
      /\ Total(rounds, Waiters) \in Nat /\ snap \in [Waiters -> Word]
      /\ InLine(m_state.epoch, m_state.pre, pc, snap, Total(rounds, Waiters))
  BY LineTypes DEF IInv, Lined
<1>2. (m_state.epoch + 0) % EpochModulus = m_state.epoch /\ m_state.pre - 0 = m_state.pre
  BY <1>1, NoDistance
<1>3. 0 \in 0..m_state.pre
  BY <1>1
<1>4. \A w \in Waiters : pc[w] \in TicketPCs /\ pc'[w] \notin TicketPCs => Turn(w) + 0 > 0
  <2> SUFFICES ASSUME NEW w \in Waiters, pc[w] \in TicketPCs /\ pc'[w] \notin TicketPCs
               PROVE  Turn(w) + 0 > 0
    OBVIOUS
  <2>1. Turn(w) = Past(m_state.epoch, snap[w]) /\ Past(m_state.epoch, snap[w]) \in Int
    BY <1>1, TurnIs, PastType
  <2> QED BY <2>1
<1>5. Lined' /\ Tickets' = Without(Tickets, 0)
  BY <1>2, <1>3, <1>4, LineSettles
<1>6. Tickets \in Seq(Waiters) /\ Len(Tickets) = m_state.pre
  BY <1>1, QueueIs, TicketsAre
<1>7. Without(Tickets, 0) = Tickets
  <2>1. PICK q \in Seq(Waiters) : q = Tickets
    BY <1>6
  <2>2. SubSeq(q, 1, Len(q)) = q
    BY SubSeqFull
  <2> QED BY <2>1, <2>2 DEF Without
<1> QED BY <1>5, <1>7

\* A waiter draws a ticket.
LEMMA PrepareLines ==
  ASSUME IInv, Typed', NEW w \in Waiters, PrepareWait(w)
  PROVE  /\ Lined' /\ Tickets' = Append(Tickets, w)
         /\ m_state'.epoch = m_state.epoch
         /\ m_state'.pre + Total(rounds', Waiters) = m_state.pre + Total(rounds, Waiters)
<1> DEFINE left == Total(rounds, Waiters)
<1>1. /\ m_state.epoch \in Epochs /\ m_state.pre \in Nat /\ left \in Nat
      /\ snap \in [Waiters -> Word] /\ snap' \in [Waiters -> Word]
      /\ InLine(m_state.epoch, m_state.pre, pc, snap, left)
  BY LineTypes DEF IInv, Lined, Typed, TypeOK
<1>2. /\ w \in Threads /\ rounds \in [Waiters -> Nat] /\ rounds[w] > 0
      /\ m_state \in Word /\ pc = [t \in Threads |-> pc[t]]
      /\ \A v \in Waiters : v \in Threads
      /\ rounds' = [rounds EXCEPT ![w] = @ - 1]
  BY TypesAre DEF IInv, Typed, TypeOK, PrepareWait, Threads
<1>3. left > 0 /\ Total(rounds', Waiters) = left - 1
  <2>1. IsFiniteSet(Units(rounds, Waiters))
    BY <1>2, NotifierAssumption, UnitsFinite
  <2>2. /\ rounds[w] \in Nat /\ rounds'[w] = rounds[w] - 1 /\ rounds'[w] \in Nat
        /\ \A v \in Waiters \ {w} : rounds'[v] = rounds[v]
    BY <1>2
  <2>3. Cardinality(Units(rounds', Waiters)) =
          Cardinality(Units(rounds, Waiters)) - rounds[w] + rounds'[w]
    BY <2>1, <2>2, UnitsUpdate
  <2>4. rounds[w] <= left
    BY <2>1, <2>2, UnitsPart DEF Total
  <2> QED BY <1>1, <1>2, <2>2, <2>3, <2>4 DEF Total
<1> HIDE DEF left
<1>4. /\ m_state'.epoch = m_state.epoch /\ m_state'.pre = m_state.pre + 1
      /\ pc[w] \notin TicketPCs /\ pc'[w] \in TicketPCs
      /\ \A v \in Waiters \ {w} : pc'[v] = pc[v] /\ snap'[v] = snap[v]
      /\ snap'[w].epoch = m_state.epoch /\ snap'[w].pre = m_state.pre
  BY <1>1, <1>2 DEF PrepareWait, Goto, TicketPCs, Word
<1>5. InLine(m_state.epoch, m_state.pre + 1, pc', snap', left - 1)
  BY <1>1, <1>3, <1>4, LineGrows
<1>6. QueueOf(m_state.epoch, m_state.pre + 1, pc', snap') =
        Append(QueueOf(m_state.epoch, m_state.pre, pc, snap), w)
  BY <1>1, <1>3, <1>4, QueueGrows
<1>7. Lined'
  BY <1>3, <1>4, <1>5 DEF Lined
<1>8. m_state'.pre + Total(rounds', Waiters) = m_state.pre + Total(rounds, Waiters)
  BY <1>1, <1>3, <1>4 DEF left
<1> QED BY <1>4, <1>6, <1>7, <1>8, TicketsAre

\* The compare-exchange of commit_wait finds the word it expects on the waiter's turn.
LEMMA PushOnTurn ==
  ASSUME IInv, NEW w \in Waiters, CommitPush(w), m_state = reg[w]
  PROVE  /\ pc[w] = "commitCas" /\ Turn(w) = 0
         /\ next[w] = m_state.top /\ wstate[w] = "NotSignaled"
         /\ m_state' = [Advance(m_state, 1) EXCEPT !.top = w]
<1>1. /\ pc[w] = "commitCas" /\ m_state' = [Advance(m_state, 1) EXCEPT !.top = w]
  BY DEF CommitPush, Goto
<1>2. /\ m_state.epoch = TurnIn(snap[w]) /\ next[w] = m_state.top /\ wstate[w] = "NotSignaled"
  BY <1>1 DEF IInv, Parked, ParkedAt
<1>3. Turn(w) = 0
  BY <1>2, LineTypes, NoDistance, TurnIs DEF IInv, Past
<1> QED BY <1>1, <1>2, <1>3

\* The words that the steps write, but for the top.
LEMMA WordAdvances ==
  ASSUME IInv, NEW k \in 0..m_state.pre, NEW x \in Waiters \cup {Nil},
         m_state' = Advance(m_state, k) \/ m_state' = [Advance(m_state, k) EXCEPT !.top = x]
  PROVE  /\ m_state'.epoch = (m_state.epoch + k) % EpochModulus
         /\ m_state'.pre = m_state.pre - k
         /\ m_state' = Advance(m_state, k) => m_state'.top = m_state.top
         /\ m_state' = [Advance(m_state, k) EXCEPT !.top = x] => m_state'.top = x
<1>1. m_state \in Word /\ m_state.pre \in Nat
  BY LineTypes DEF IInv, Typed, TypeOK
<1>2. 2 * k < EpochModulus
  <2>1. 2 * (m_state.pre + Total(rounds, Waiters)) < EpochModulus
    BY DEF IInv, Lined, InLine
  <2> QED BY <1>1, <2>1, LineTypes, NotifierAssumption DEF IInv
<1>3. /\ Advance(m_state, k).epoch = (m_state.epoch + k) % EpochModulus
      /\ Advance(m_state, k).pre = m_state.pre - k
      /\ Advance(m_state, k).top = m_state.top
      /\ [Advance(m_state, k) EXCEPT !.top = x].epoch = (m_state.epoch + k) % EpochModulus
      /\ [Advance(m_state, k) EXCEPT !.top = x].pre = m_state.pre - k
      /\ [Advance(m_state, k) EXCEPT !.top = x].top = x
  BY <1>1, <1>2, AdvanceIs
<1> DEFINE a == Advance(m_state, k)
           b == [Advance(m_state, k) EXCEPT !.top = x]
<1>4. m_state' = a \/ m_state' = b
  OBVIOUS
<1> HIDE DEF a, b
<1>5. /\ a.epoch = (m_state.epoch + k) % EpochModulus /\ a.pre = m_state.pre - k
      /\ a.top = m_state.top
      /\ b.epoch = (m_state.epoch + k) % EpochModulus /\ b.pre = m_state.pre - k
      /\ b.top = x
  BY <1>3 DEF a, b
<1> QED BY <1>4, <1>5 DEF a, b

\* A waiter settles its ticket on its turn: it is the oldest.
LEMMA TurnSettles ==
  ASSUME IInv, Typed', NEW w \in Waiters,
         CancelSettle(w) \/ (CommitPush(w) /\ m_state = reg[w])
  PROVE  /\ Lined'
         /\ Tickets # <<>> /\ Head(Tickets) = w /\ Tickets' = Tail(Tickets)
         /\ 1 \in 0..m_state.pre
         /\ m_state'.epoch = (m_state.epoch + 1) % EpochModulus
         /\ m_state'.pre = m_state.pre - 1
<1>1. /\ pc[w] \in TicketPCs /\ Turn(w) = 0
      /\ m_state' = Advance(m_state, 1) \/ m_state' = [Advance(m_state, 1) EXCEPT !.top = w]
  BY PushOnTurn DEF CancelSettle, Goto, TicketPCs
<1>2. m_state.pre >= 1 /\ HoldsTicket(w) /\ m_state.pre \in Nat
  BY <1>1, TurnComes, LineTypes DEF IInv
<1>3. 1 \in 0..m_state.pre
  BY <1>2
<1>4. m_state'.epoch = (m_state.epoch + 1) % EpochModulus /\ m_state'.pre = m_state.pre - 1
  BY <1>1, <1>3, WordAdvances
<1>5. /\ pc = [t \in Threads |-> pc[t]] /\ snap \in [Waiters -> Word]
      /\ \A v \in Waiters : v \in Threads
  BY TypesAre DEF IInv, Typed, TypeOK
<1>6. /\ rounds' = rounds /\ pc'[w] \notin TicketPCs
      /\ \A v \in Waiters : v # w => pc'[v] = pc[v] /\ snap'[v] = snap[v]
  BY <1>5 DEF CancelSettle, CommitPush, Goto, Settled, TicketPCs
<1>7. /\ \A v \in Waiters : pc'[v] \in TicketPCs => pc[v] \in TicketPCs /\ snap'[v] = snap[v]
      /\ \A v \in Waiters : pc[v] \in TicketPCs /\ pc'[v] \notin TicketPCs => Turn(v) + 1 > 0
  BY <1>1, <1>6
<1>8. Lined' /\ Tickets' = Without(Tickets, 1)
  BY <1>3, <1>4, <1>6, <1>7, LineSettles
<1>9. /\ Tickets \in Seq(Waiters) /\ Len(Tickets) = m_state.pre /\ Tickets[1] = w
  <2>1. /\ m_state.epoch \in Epochs /\ m_state.pre \in Nat /\ Total(rounds, Waiters) \in Nat
        /\ InLine(m_state.epoch, m_state.pre, pc, snap, Total(rounds, Waiters))
    BY LineTypes DEF IInv, Lined
  <2> DEFINE q == QueueOf(m_state.epoch, m_state.pre, pc, snap)
  <2>2. /\ q \in Seq(Waiters) /\ Len(q) = m_state.pre
        /\ \A k \in 1..m_state.pre, v \in Waiters :
             q[k] = v <=> Open(m_state.epoch, pc[v], snap[v])
                            /\ Past(m_state.epoch, snap[v]) = 1 - k
    BY <1>5, <2>1, QueueIs
  <2> HIDE DEF q
  <2>3. Open(m_state.epoch, pc[w], snap[w]) /\ Past(m_state.epoch, snap[w]) = 1 - 1
    BY <1>1, <1>2, TurnIs
  <2>4. 1 \in 1..m_state.pre
    BY <1>2
  <2>5. q[1] = w
    BY <2>2, <2>3, <2>4
  <2> QED BY <2>2, <2>5, TicketsAre DEF q
<1>10. PICK q \in Seq(Waiters) : q = Tickets
  BY <1>9
<1>11. q # <<>> /\ Head(q) = w
  BY <1>2, <1>9, <1>10, EmptySeq, HeadTailProperties
<1>12. Without(q, 1) = Tail(q)
  BY <1>11, TailIsSubSeq DEF Without
<1> QED BY <1>3, <1>4, <1>8, <1>10, <1>11, <1>12

\* A notification settles the oldest tickets, all of them if there are no more.
LEMMA ReleaseSettles ==
  ASSUME IInv, Typed', NEW n \in Notifiers, NEW k \in 0..m_state.pre,
         NEW x \in Waiters \cup {Nil},
         m_state' = Advance(m_state, k) \/ m_state' = [Advance(m_state, k) EXCEPT !.top = x],
         UNCHANGED waiterVars, \A w \in Waiters : pc'[w] = pc[w]
  PROVE  /\ Lined' /\ Tickets' = Without(Tickets, k)
         /\ m_state'.epoch = (m_state.epoch + k) % EpochModulus
         /\ m_state'.pre = m_state.pre - k
<1>1. m_state'.epoch = (m_state.epoch + k) % EpochModulus /\ m_state'.pre = m_state.pre - k
  BY WordAdvances
<1>2. UNCHANGED <<snap, rounds>>
  BY DEF waiterVars
<1>3. Lined' /\ Tickets' = Without(Tickets, k)
  BY <1>1, <1>2, LineSettles
<1> QED BY <1>1, <1>3

\* The steps at which no ticket is drawn or settled, or only by the waiter that
\* leaves with a settled one.
OtherSteps ==
  \/ \E w \in Waiters :
       \/ CancelWait(w) \/ PassedOver(w) \/ CommitWait(w) \/ CommitLink(w)
       \/ ParkCas(w) \/ ParkWait(w)
       \/ CommitPush(w) /\ m_state # reg[w]
  \/ \E n \in Notifiers :
       \/ NotifyOne(n) \/ NotifyAll(n) \/ NotifyN(n) \/ NotifyNobody(n)
       \/ PopLoad(n) \/ PopRead(n) \/ PopCas(n)
       \/ Unlink(n) \/ UnparkRead(n) \/ UnparkSignal(n) \/ UnparkWake(n)
  \/ UNCHANGED vars

\* They leave the tickets as they are.
LEMMA OthersSettleNone ==
  ASSUME IInv, Typed', OtherSteps
  PROVE  /\ Lined' /\ Tickets' = Tickets
         /\ rounds' = rounds /\ m_state'.epoch = m_state.epoch /\ m_state'.pre = m_state.pre
<1>1. /\ pc = [t \in Threads |-> pc[t]] /\ snap \in [Waiters -> Word] /\ m_state \in Word
      /\ \A w \in Waiters : w \in Threads /\ w \notin Notifiers
      /\ \A n \in Notifiers : n \in Threads /\ n \notin Waiters
  BY TypesAre DEF IInv, Typed, TypeOK
<1>2. ASSUME /\ m_state'.epoch = m_state.epoch /\ m_state'.pre = m_state.pre
             /\ UNCHANGED <<snap, rounds>>
             /\ \A w \in Waiters : pc'[w] \in TicketPCs <=> pc[w] \in TicketPCs
      PROVE  /\ Lined' /\ Tickets' = Tickets
             /\ rounds' = rounds /\ m_state'.epoch = m_state.epoch /\ m_state'.pre = m_state.pre
  BY <1>2, LineStays
<1> USE DEF Goto, Settled, notifierVars, waiterVars, TicketPCs
<1>3. ASSUME NEW w \in Waiters,
             \/ CancelWait(w) \/ CommitWait(w) \/ CommitLink(w) \/ ParkCas(w) \/ ParkWait(w)
             \/ CommitPush(w) /\ m_state # reg[w]
      PROVE  /\ m_state'.epoch = m_state.epoch /\ m_state'.pre = m_state.pre
             /\ UNCHANGED <<snap, rounds>>
             /\ \A v \in Waiters : pc'[v] \in TicketPCs <=> pc[v] \in TicketPCs
  BY <1>1, <1>3 DEF CancelWait, CommitWait, CommitLink, CommitPush, ParkCas, ParkWait
<1>4. ASSUME NEW w \in Waiters, PassedOver(w)
      PROVE  /\ Lined' /\ Tickets' = Tickets
             /\ rounds' = rounds /\ m_state'.epoch = m_state.epoch /\ m_state'.pre = m_state.pre
  <2>1. /\ rounds' = rounds /\ m_state' = m_state /\ Turn(w) > 0 /\ pc'[w] \notin TicketPCs
        /\ \A v \in Waiters : v # w => pc'[v] = pc[v] /\ snap'[v] = snap[v]
    BY <1>1, <1>4 DEF PassedOver
  <2> QED BY <2>1, LineStays
<1>5. ASSUME NEW n \in Notifiers,
             \/ NotifyNobody(n) \/ PopLoad(n) \/ PopRead(n) \/ PopCas(n) \/ Unlink(n)
             \/ UnparkRead(n) \/ UnparkSignal(n)
      PROVE  /\ m_state'.epoch = m_state.epoch /\ m_state'.pre = m_state.pre
             /\ UNCHANGED <<snap, rounds>>
             /\ \A v \in Waiters : pc'[v] \in TicketPCs <=> pc[v] \in TicketPCs
  BY <1>1, <1>5
  DEF NotifyNobody, PopLoad, PopRead, PopCas, Unlink, UnparkRead, UnparkSignal, Word
<1>6. ASSUME NEW n \in Notifiers,
             NotifyOne(n) \/ NotifyAll(n) \/ NotifyN(n) \/ UnparkWake(n)
      PROVE  /\ m_state'.epoch = m_state.epoch /\ m_state'.pre = m_state.pre
             /\ UNCHANGED <<snap, rounds>>
             /\ \A v \in Waiters : pc'[v] \in TicketPCs <=> pc[v] \in TicketPCs
  BY <1>1, <1>6 DEF NotifyOne, NotifyAll, NotifyN, NotifyCall, UnparkWake
<1>7. CASE UNCHANGED vars
  BY <1>2, <1>7 DEF vars
<1> QED BY <1>2, <1>3, <1>4, <1>5, <1>6, <1>7 DEF OtherSteps

-----------------------------------------------------------------------------
(* The stack and the sleepers taken off it.                                *)

\* Where a notifier owes nobody a signal.
FreePCs == {"idle", "popTry", "allTry", "popRead", "popCas"}

\* What a notifier owes stays as it is while no waiter it owes is linked elsewhere.
LEMMA OwedKept ==
  ASSUME NEW links, NEW new, NEW at, NEW c, NEW x, LinkedAt(links, at, c, x),
         \A w \in OwedAt(links, at, c, x) : new[w] = links[w]
  PROVE  LinkedAt(new, at, c, x) /\ OwedAt(new, at, c, x) = OwedAt(links, at, c, x)
<1>1. CASE at = "unpark"
  <2>1. Chained(links, c) /\ OwedAt(links, at, c, x) = Range(Chain(links, c))
    BY <1>1 DEF LinkedAt, OwedAt, OnChain
  <2>2. Chained(new, c) /\ Chain(new, c) = Chain(links, c)
    BY <2>1, ChainKept
  <2> QED BY <1>1, <2>2 DEF LinkedAt, OwedAt, OnChain
<1>2. CASE at \in {"signal", "wake"}
  <2>1. Chained(links, x) /\ Range(Chain(links, x)) \subseteq OwedAt(links, at, c, x)
    BY <1>2 DEF LinkedAt, OwedAt, OnChain
  <2>2. Chained(new, x) /\ Chain(new, x) = Chain(links, x)
    BY <2>1, ChainKept
  <2> QED BY <1>2, <2>2 DEF LinkedAt, OwedAt, OnChain
<1>3. CASE at \notin {"unpark", "signal", "wake"}
  BY <1>3 DEF LinkedAt, OwedAt
<1> QED BY <1>1, <1>2, <1>3

\* Who owes nobody a signal has no chain.
LEMMA OwesNobody ==
  ASSUME NEW links, NEW at \in FreePCs, NEW c, NEW x
  PROVE  LinkedAt(links, at, c, x) /\ OwedAt(links, at, c, x) = {}
  BY DEF FreePCs, LinkedAt, OwedAt

\* A waiter falls asleep on the stack.
LEMMA PartitionPush ==
  ASSUME NEW S, NEW O, NEW A, Partition(S, O, A), NEW w, w \notin A
  PROVE  Partition({w} \cup S, O, {w} \cup A)
<1>1. \A n \in Notifiers : w \notin O[n]
  BY DEF Partition
<1> QED BY <1>1 DEF Partition

\* A notifier takes sleepers off the stack.
LEMMA PartitionTake ==
  ASSUME NEW S, NEW O, NEW A, Partition(S, O, A), NEW n \in Notifiers, O[n] = {},
         NEW T, NEW O2, S = T \cup O2[n], T \cap O2[n] = {},
         \A m \in Notifiers \ {n} : O2[m] = O[m]
  PROVE  Partition(T, O2, A)
<1>1. A = T \cup UNION {O2[m] : m \in Notifiers}
  <2>1. ASSUME NEW x \in A PROVE x \in T \cup UNION {O2[m] : m \in Notifiers}
    <3>1. x \in S \/ \E m \in Notifiers : x \in O[m]
      BY DEF Partition
    <3>2. ASSUME NEW m \in Notifiers, x \in O[m] PROVE x \in O2[m]
      BY <3>2
    <3> QED BY <3>1, <3>2
  <2>2. ASSUME NEW x, x \in T \cup UNION {O2[m] : m \in Notifiers} PROVE x \in A
    <3>1. x \in S \/ \E m \in Notifiers : x \in O[m]
      BY <2>2
    <3> QED BY <3>1 DEF Partition
  <2> QED BY <2>1, <2>2
<1>2. \A m \in Notifiers : O2[m] \cap T = {}
  BY DEF Partition
<1>3. \A l, m \in Notifiers : l # m => O2[l] \cap O2[m] = {}
  BY DEF Partition
<1> QED BY <1>1, <1>2, <1>3 DEF Partition

\* A notifier signals one of those it owes.
LEMMA PartitionSignal ==
  ASSUME NEW S, NEW O, NEW A, Partition(S, O, A), NEW n \in Notifiers, NEW c,
         NEW O2, O[n] = {c} \cup O2[n], c \notin O2[n],
         \A m \in Notifiers \ {n} : O2[m] = O[m]
  PROVE  Partition(S, O2, A \ {c})
<1>1. c \notin S /\ \A m \in Notifiers : c \notin O2[m]
  BY DEF Partition
<1>2. A \ {c} = S \cup UNION {O2[m] : m \in Notifiers}
  <2>1. ASSUME NEW x \in A, x # c PROVE x \in S \cup UNION {O2[m] : m \in Notifiers}
    <3>1. x \in S \/ \E m \in Notifiers : x \in O[m]
      BY DEF Partition
    <3>2. ASSUME NEW m \in Notifiers, x \in O[m] PROVE x \in O2[m]
      BY <2>1, <3>2
    <3> QED BY <3>1, <3>2
  <2>2. ASSUME NEW x, x \in S \cup UNION {O2[m] : m \in Notifiers} PROVE x \in A /\ x # c
    <3>1. x \in S \/ \E m \in Notifiers : x \in O[m]
      BY <2>2
    <3>2. x # c
      BY <1>1, <2>2
    <3> QED BY <3>1, <3>2 DEF Partition
  <2> QED BY <2>1, <2>2
<1>3. /\ \A m \in Notifiers : O2[m] \subseteq O[m]
      /\ \A m \in Notifiers : O2[m] \cap S = {}
  BY DEF Partition
<1>4. \A l, m \in Notifiers : l # m => O2[l] \cap O2[m] = {}
  BY <1>3 DEF Partition
<1> QED BY <1>2, <1>3, <1>4 DEF Partition

\* A step after which the same waiters sleep, on the same chains.
LEMMA StackStays ==
  ASSUME IInv, m_state'.top = m_state.top, Sleepers' = Sleepers,
         \A w \in Sleepers : next'[w] = next[w],
         \A n \in Notifiers :
           \/ pc'[n] = pc[n] /\ cur'[n] = cur[n] /\ nxt'[n] = nxt[n]
           \/ pc[n] \in FreePCs /\ pc'[n] \in FreePCs
  PROVE  /\ Linked' /\ Claimed'
         /\ Chain(next', m_state'.top) = Chain(next, m_state.top)
<1>1. /\ \A w \in OnChain(next, m_state.top) : w \in Sleepers
      /\ \A n \in Notifiers : \A w \in OwedAt(next, pc[n], cur[n], nxt[n]) : w \in Sleepers
  BY SleepersSleep DEF Sleepers
<1>2. /\ Chained(next', m_state'.top)
      /\ Chain(next', m_state'.top) = Chain(next, m_state.top)
  <2>1. Chained(next, m_state.top)
    BY DEF IInv, Linked
  <2> QED BY <1>1, <2>1, ChainKept DEF OnChain
<1>3. ASSUME NEW n \in Notifiers
      PROVE  /\ LinkedAt(next', pc'[n], cur'[n], nxt'[n])
             /\ OwedAt(next', pc'[n], cur'[n], nxt'[n]) = OwedAt(next, pc[n], cur[n], nxt[n])
  <2>1. CASE pc'[n] = pc[n] /\ cur'[n] = cur[n] /\ nxt'[n] = nxt[n]
    <3>1. LinkedAt(next, pc[n], cur[n], nxt[n])
      BY DEF IInv, Linked
    <3> QED BY <1>1, <2>1, <3>1, OwedKept
  <2>2. CASE pc[n] \in FreePCs /\ pc'[n] \in FreePCs
    BY <2>2, OwesNobody
  <2> QED BY <2>1, <2>2
<1>4. Linked'
  BY <1>2, <1>3 DEF Linked
<1>5. Owed' = Owed
  BY <1>3 DEF Owed
<1>6. Claimed'
  BY <1>2, <1>5 DEF IInv, Claimed, OnChain
<1> QED BY <1>2, <1>4, <1>6

\* A waiter pushes itself on the stack.
LEMMA PushLinks ==
  ASSUME IInv, NEW w \in Waiters, CommitPush(w), m_state = reg[w]
  PROVE  /\ Linked' /\ Claimed'
         /\ Chain(next', m_state'.top) = <<w>> \o Chain(next, m_state.top)
<1>1. /\ pc[w] = "commitCas" /\ wstate[w] = "NotSignaled" /\ next[w] = m_state.top
      /\ m_state'.top = w
  <2>1. m_state' = [Advance(m_state, 1) EXCEPT !.top = w] /\ m_state \in Word
    BY PushOnTurn DEF IInv, Typed, TypeOK
  <2>2. m_state'.top = w
    BY <2>1 DEF Advance, Word
  <2> QED BY <2>2, PushOnTurn
<1>2. /\ pc' = [pc EXCEPT ![w] = "parkCas"] /\ UNCHANGED <<next, wstate, cur, nxt>>
      /\ w \in Threads /\ w \notin Notifiers /\ pc = [t \in Threads |-> pc[t]]
      /\ \A n \in Notifiers : n \in Threads
      /\ \A v \in Waiters : v \in Threads
  BY TypesAre DEF CommitPush, Goto, notifierVars, IInv, Typed, TypeOK
<1>3. w \notin Sleepers /\ Sleepers' = {w} \cup Sleepers
  BY <1>1, <1>2 DEF Sleepers, Asleep, Parking
<1>4. w \notin OnChain(next, m_state.top) /\ Chained(next, m_state.top)
  BY <1>3, SleepersSleep DEF Sleepers, IInv, Linked
<1>5. /\ Chained(next, w) /\ OnChain(next, w) = {w} \cup OnChain(next, m_state.top)
      /\ Chain(next, w) = <<w>> \o Chain(next, m_state.top)
  BY <1>1, <1>4, ChainPush DEF OnChain
<1>6. Linked'
  BY <1>1, <1>2, <1>5 DEF IInv, Linked
<1>7. Owed' = Owed
  BY <1>2 DEF Owed
<1>8. Partition({w} \cup OnChain(next, m_state.top), Owed, {w} \cup Sleepers)
  BY <1>3, PartitionPush DEF IInv, Claimed
<1>9. Claimed'
  BY <1>1, <1>2, <1>3, <1>5, <1>7, <1>8 DEF Claimed
<1> QED BY <1>1, <1>2, <1>5, <1>6, <1>9

\* When the compare-exchange of the pop succeeds, the successor it writes is the
\* link of the top as it is now: nobody popped and pushed it again meanwhile.
LEMMA PopFinds ==
  ASSUME IInv, NEW n \in Notifiers, PopCas(n), m_state = reg[n]
  PROVE  /\ m_state.top \in Waiters /\ m_state.pre = 0 /\ pc[n] = "popCas"
         /\ nxt[n] = next[m_state.top]
<1>1. pc[n] = "popCas"
  BY DEF PopCas, Goto
<1>2. m_state.top \in Waiters /\ m_state.pre = 0
  BY <1>1 DEF IInv, Loops, LoopAt
<1>3. Distance(m_state.epoch, reg[n].epoch) = 0
  BY LineTypes, NoDistance DEF IInv
<1>4. reg[n].top \in OnChain(next, m_state.top)
  <2>1. Chained(next, m_state.top)
    BY DEF IInv, Linked
  <2> QED BY <1>2, <2>1, ChainStep DEF OnChain
<1>5. nxt[n] = next[reg[n].top]
  BY <1>1, <1>3, <1>4 DEF IInv, Vouched, VouchedAt
<1> QED BY <1>1, <1>2, <1>5

\* A step of a notifier that concerns what it owes, and nobody else's.
LEMMA NotifierOwes ==
  ASSUME IInv, NEW n \in Notifiers,
         \A m \in Notifiers \ {n} : pc'[m] = pc[m] /\ cur'[m] = cur[m] /\ nxt'[m] = nxt[m],
         \A m \in Notifiers \ {n} : \A w \in OwedAt(next, pc[m], cur[m], nxt[m]) :
           next'[w] = next[w]
  PROVE  \A m \in Notifiers \ {n} :
           /\ LinkedAt(next', pc'[m], cur'[m], nxt'[m])
           /\ Owed'[m] = Owed[m]
<1> SUFFICES ASSUME NEW m \in Notifiers \ {n}
             PROVE  /\ LinkedAt(next', pc'[m], cur'[m], nxt'[m])
                    /\ Owed'[m] = Owed[m]
  OBVIOUS
<1>1. LinkedAt(next, pc[m], cur[m], nxt[m])
  BY DEF IInv, Linked
<1>2. /\ LinkedAt(next', pc[m], cur[m], nxt[m])
      /\ OwedAt(next', pc[m], cur[m], nxt[m]) = OwedAt(next, pc[m], cur[m], nxt[m])
  BY <1>1, OwedKept
<1>3. Owed[m] = OwedAt(next, pc[m], cur[m], nxt[m])
  BY DEF Owed
<1>4. Owed'[m] = OwedAt(next', pc'[m], cur'[m], nxt'[m])
  BY DEF Owed
<1> QED BY <1>2, <1>3, <1>4

\* A notifier pops the top of the stack.
LEMMA PopLinks ==
  ASSUME IInv, NEW n \in Notifiers, PopCas(n), m_state = reg[n]
  PROVE  /\ Linked' /\ Claimed'
         /\ Chain(next, m_state.top) # <<>>
         /\ Chain(next', m_state'.top) = Tail(Chain(next, m_state.top))
<1> DEFINE t == m_state.top
<1>1. t \in Waiters /\ pc[n] = "popCas" /\ nxt[n] = next[t]
  BY PopFinds
<1>2. /\ pc' = [pc EXCEPT ![n] = "unlink"] /\ cur' = [cur EXCEPT ![n] = t]
      /\ nxt' = [nxt EXCEPT ![n] = Nil] /\ UNCHANGED <<next, wstate>>
      /\ m_state' = [m_state EXCEPT !.top = nxt[n]]
  BY DEF PopCas, Goto
<1>3. /\ n \in Threads /\ n \notin Waiters /\ pc = [x \in Threads |-> pc[x]]
      /\ m_state \in Word
      /\ cur \in [Notifiers -> Waiters \cup {Nil}] /\ nxt \in [Notifiers -> Waiters \cup {Nil}]
      /\ \A m \in Notifiers : m \in Threads
      /\ \A v \in Waiters : v \in Threads
  BY TypesAre DEF IInv, Typed, TypeOK
<1>4. m_state'.top = next[t]
  BY <1>1, <1>2, <1>3 DEF Word
<1>5. /\ Chained(next, next[t]) /\ Chain(next, t) # <<>>
      /\ Chain(next, next[t]) = Tail(Chain(next, t))
      /\ OnChain(next, t) = {t} \cup OnChain(next, next[t])
      /\ t \notin OnChain(next, next[t])
  BY <1>1, ChainStep DEF IInv, Linked, OnChain
<1> HIDE DEF t
<1>6. \A m \in Notifiers \ {n} :
        /\ LinkedAt(next', pc'[m], cur'[m], nxt'[m])
        /\ Owed'[m] = Owed[m]
  BY <1>2, <1>3, NotifierOwes
<1>7. /\ pc'[n] = "unlink" /\ cur'[n] = t
      /\ LinkedAt(next', pc'[n], cur'[n], nxt'[n]) /\ Owed'[n] = {t} /\ Owed[n] = {}
  BY <1>1, <1>2, <1>3 DEF LinkedAt, OwedAt, Owed
<1>8. Linked'
  BY <1>2, <1>4, <1>5, <1>6, <1>7 DEF Linked
<1>9. Sleepers' = Sleepers
  BY <1>2, <1>3 DEF Sleepers, Asleep
<1>10. Partition(OnChain(next, next[t]), Owed', Sleepers)
  <2>1. Partition(OnChain(next, t), Owed, Sleepers)
    BY DEF IInv, Claimed, t
  <2>2. OnChain(next, t) = OnChain(next, next[t]) \cup Owed'[n]
    BY <1>5, <1>7
  <2>3. OnChain(next, next[t]) \cap Owed'[n] = {}
    BY <1>5, <1>7
  <2> DEFINE O2 == Owed'
  <2>4. /\ OnChain(next, t) = OnChain(next, next[t]) \cup O2[n]
        /\ OnChain(next, next[t]) \cap O2[n] = {}
        /\ \A m \in Notifiers \ {n} : O2[m] = Owed[m]
        /\ Owed[n] = {}
    BY <1>6, <1>7, <2>2, <2>3
  <2> HIDE DEF O2
  <2>5. Partition(OnChain(next, next[t]), O2, Sleepers)
    BY <2>1, <2>4, PartitionTake
  <2> QED BY <2>5 DEF O2
<1>11. Claimed'
  BY <1>2, <1>4, <1>9, <1>10 DEF Claimed
<1> QED BY <1>2, <1>4, <1>5, <1>8, <1>11 DEF t

\* A notifier takes the whole stack.
LEMMA TakeAllLinks ==
  ASSUME IInv, NEW n \in Notifiers, TakeAll(n)
  PROVE  /\ Linked' /\ Claimed'
         /\ Chain(next', m_state'.top) = <<>>
<1> DEFINE t == m_state.top
<1>1. t \in Waiters \cup {Nil} /\ pc[n] = "allTry"
  BY DEF IInv, Typed, TypeOK, Word, TakeAll, Goto
<1>2. /\ pc' = [pc EXCEPT ![n] = IF t = Nil THEN "idle" ELSE "unpark"]
      /\ cur' = [cur EXCEPT ![n] = t] /\ UNCHANGED <<next, wstate, nxt>>
      /\ m_state' = [Advance(m_state, m_state.pre) EXCEPT !.top = Nil]
  BY DEF TakeAll, Goto
<1>3. /\ n \in Threads /\ n \notin Waiters /\ pc = [x \in Threads |-> pc[x]]
      /\ m_state \in Word
      /\ cur \in [Notifiers -> Waiters \cup {Nil}]
      /\ \A m \in Notifiers : m \in Threads
      /\ \A v \in Waiters : v \in Threads
  BY TypesAre DEF IInv, Typed, TypeOK
<1>4. m_state'.top = Nil
  BY <1>2, <1>3 DEF Word, Advance
<1>5. /\ Chained(next, t) /\ Chained(next, Nil) /\ Chain(next, Nil) = <<>>
      /\ OnChain(next, Nil) = {}
  BY ChainOfNil, RangeOfEmpty DEF IInv, Linked, OnChain
<1> HIDE DEF t
<1>6. \A m \in Notifiers \ {n} :
        /\ LinkedAt(next', pc'[m], cur'[m], nxt'[m])
        /\ Owed'[m] = Owed[m]
  BY <1>2, <1>3, NotifierOwes
<1>7. /\ LinkedAt(next', pc'[n], cur'[n], nxt'[n])
      /\ Owed'[n] = OnChain(next, t) /\ Owed[n] = {}
  <2>1. Owed'[n] = OwedAt(next, pc'[n], cur'[n], nxt[n]) /\ Owed[n] = {}
    BY <1>1, <1>2 DEF Owed, OwedAt
  <2>2. CASE t = Nil
    BY <1>1, <1>2, <1>3, <1>5, <2>1, <2>2 DEF LinkedAt, OwedAt
  <2>3. CASE t # Nil
    BY <1>1, <1>2, <1>3, <1>5, <2>1, <2>3 DEF LinkedAt, OwedAt
  <2> QED BY <2>2, <2>3
<1>8. Linked'
  BY <1>2, <1>4, <1>5, <1>6, <1>7 DEF Linked
<1>9. Sleepers' = Sleepers
  BY <1>2, <1>3 DEF Sleepers, Asleep
<1>10. Partition(OnChain(next, Nil), Owed', Sleepers)
  <2>1. Partition(OnChain(next, t), Owed, Sleepers)
    BY DEF IInv, Claimed, t
  <2> DEFINE O2 == Owed'
  <2>2. /\ OnChain(next, t) = OnChain(next, Nil) \cup O2[n]
        /\ OnChain(next, Nil) \cap O2[n] = {}
        /\ \A m \in Notifiers \ {n} : O2[m] = Owed[m]
        /\ Owed[n] = {}
    BY <1>5, <1>6, <1>7
  <2> HIDE DEF O2
  <2>3. Partition(OnChain(next, Nil), O2, Sleepers)
    BY <2>1, <2>2, PartitionTake
  <2> QED BY <2>3 DEF O2
<1>11. Claimed'
  BY <1>2, <1>4, <1>9, <1>10 DEF Claimed
<1> QED BY <1>2, <1>4, <1>5, <1>8, <1>11

\* A step of a notifier with the sleepers it has taken: the stack stays.
LEMMA OwedChanges ==
  ASSUME IInv, NEW n \in Notifiers, m_state' = m_state,
         \A m \in Notifiers \ {n} : pc'[m] = pc[m] /\ cur'[m] = cur[m] /\ nxt'[m] = nxt[m],
         \A w \in Sleepers \ Owed[n] : next'[w] = next[w],
         LinkedAt(next', pc'[n], cur'[n], nxt'[n]),
         \/ Owed'[n] = Owed[n] /\ Sleepers' = Sleepers
         \/ \E c : /\ Owed[n] = {c} \cup Owed'[n] /\ c \notin Owed'[n]
                   /\ Sleepers' = Sleepers \ {c}
  PROVE  /\ Linked' /\ Claimed'
         /\ Chain(next', m_state'.top) = Chain(next, m_state.top)
<1> DEFINE O2 == Owed'
<1>1. \A m \in Notifiers : Owed[m] = OwedAt(next, pc[m], cur[m], nxt[m])
  BY DEF Owed
<1>2. Partition(OnChain(next, m_state.top), Owed, Sleepers)
  BY DEF IInv, Claimed
<1>3. /\ \A w \in OnChain(next, m_state.top) : w \in Sleepers /\ w \notin Owed[n]
      /\ \A m \in Notifiers \ {n} : \A w \in Owed[m] : w \in Sleepers /\ w \notin Owed[n]
  <2>1. \A w \in OnChain(next, m_state.top) : w \in Sleepers /\ w \notin Owed[n]
    BY <1>2 DEF Partition
  <2>2. ASSUME NEW m \in Notifiers \ {n}, NEW w \in Owed[m]
        PROVE  w \in Sleepers /\ w \notin Owed[n]
    <3>1. Owed[m] \cap Owed[n] = {}
      BY <1>2 DEF Partition
    <3>2. w \in UNION {Owed[k] : k \in Notifiers}
      OBVIOUS
    <3> QED BY <1>2, <3>1, <3>2 DEF Partition
  <2> QED BY <2>1, <2>2
<1>4. /\ Chained(next', m_state.top)
      /\ Chain(next', m_state.top) = Chain(next, m_state.top)
  <2>1. Chained(next, m_state.top)
    BY DEF IInv, Linked
  <2>2. \A w \in Range(Chain(next, m_state.top)) : next'[w] = next[w]
    BY <1>3 DEF OnChain
  <2> QED BY <2>1, <2>2, ChainKept
<1>5. \A m \in Notifiers \ {n} :
        /\ LinkedAt(next', pc'[m], cur'[m], nxt'[m])
        /\ O2[m] = Owed[m]
  <2>1. \A m \in Notifiers \ {n} : \A w \in OwedAt(next, pc[m], cur[m], nxt[m]) :
          next'[w] = next[w]
    BY <1>1, <1>3
  <2> QED BY <2>1, NotifierOwes
<1>6. Linked'
  BY <1>4, <1>5 DEF Linked
<1>7. O2 = [m \in Notifiers |-> O2[m]] /\ Owed = [m \in Notifiers |-> Owed[m]]
  BY DEF Owed
<1> HIDE DEF O2
<1>8. Partition(OnChain(next, m_state.top), O2, Sleepers')
  <2>1. CASE O2[n] = Owed[n] /\ Sleepers' = Sleepers
    <3>1. O2 = Owed
      BY <1>5, <1>7, <2>1
    <3> QED BY <1>2, <2>1, <3>1
  <2>2. ASSUME NEW c, Owed[n] = {c} \cup O2[n], c \notin O2[n], Sleepers' = Sleepers \ {c}
        PROVE  Partition(OnChain(next, m_state.top), O2, Sleepers')
    BY <1>2, <1>5, <2>2, PartitionSignal
  <2> QED BY <2>1, <2>2 DEF O2
<1>9. Claimed'
  BY <1>4, <1>8 DEF Claimed, OnChain, O2
<1> QED BY <1>4, <1>6, <1>9

\* A popped waiter is unlinked: it is then a chain of its own.
LEMMA UnlinkLinks ==
  ASSUME IInv, NEW n \in Notifiers, Unlink(n)
  PROVE  /\ Linked' /\ Claimed'
         /\ Chain(next', m_state'.top) = Chain(next, m_state.top)
<1> DEFINE c == cur[n]
<1>1. c \in Waiters /\ pc[n] = "unlink"
  BY DEF IInv, Loops, LoopAt, Unlink, Goto
<1>2. /\ pc' = [pc EXCEPT ![n] = "unpark"] /\ next' = [next EXCEPT ![c] = Nil]
      /\ UNCHANGED <<m_state, wstate, cur, nxt>>
  BY DEF Unlink, Goto
<1>3. /\ n \in Threads /\ n \notin Waiters /\ pc = [x \in Threads |-> pc[x]]
      /\ next \in [Waiters -> Waiters \cup {Nil}]
      /\ \A m \in Notifiers : m \in Threads
      /\ \A v \in Waiters : v \in Threads
  BY TypesAre DEF IInv, Typed, TypeOK
<1> HIDE DEF c
<1>4. /\ next'[c] = Nil /\ pc'[n] = "unpark" /\ cur'[n] = c
      /\ \A w \in Waiters : w # c => next'[w] = next[w]
  BY <1>1, <1>2, <1>3 DEF c
<1>5. Chained(next', c) /\ OnChain(next', c) = {c}
  <2>1. Chained(next', Nil) /\ Range(Chain(next', Nil)) = {}
    BY ChainOfNil, RangeOfEmpty
  <2>2. /\ Chained(next', next'[c]) /\ c \notin Range(Chain(next', next'[c]))
        /\ Range(Chain(next', next'[c])) = {}
    BY <1>4, <2>1
  <2>3. /\ Chained(next', c)
        /\ Range(Chain(next', c)) = {c} \cup Range(Chain(next', next'[c]))
    BY <1>1, <2>2, ChainPush
  <2> QED BY <2>2, <2>3 DEF OnChain
<1>6. LinkedAt(next', pc'[n], cur'[n], nxt'[n])
  BY <1>4, <1>5 DEF LinkedAt
<1>7. Owed[n] = {c} /\ Owed'[n] = {c}
  BY <1>1, <1>4, <1>5 DEF Owed, OwedAt, c
<1>8. Sleepers' = Sleepers /\ Sleepers \subseteq Waiters
  BY <1>2, <1>3 DEF Sleepers, Asleep
<1>9. /\ \A m \in Notifiers \ {n} : pc'[m] = pc[m] /\ cur'[m] = cur[m] /\ nxt'[m] = nxt[m]
      /\ \A w \in Sleepers \ Owed[n] : next'[w] = next[w]
  BY <1>2, <1>3, <1>4, <1>7, <1>8
<1> QED BY <1>2, <1>6, <1>7, <1>8, <1>9, OwedChanges

\* _unpark reads the link of the waiter it is about to signal.
LEMMA ReadLinks ==
  ASSUME IInv, NEW n \in Notifiers, UnparkRead(n)
  PROVE  /\ Linked' /\ Claimed'
         /\ Chain(next', m_state'.top) = Chain(next, m_state.top)
<1> DEFINE c == cur[n]
<1>1. c \in Waiters /\ pc[n] = "unpark"
  BY DEF IInv, Loops, LoopAt, UnparkRead, Goto
<1>2. /\ pc' = [pc EXCEPT ![n] = "signal"] /\ nxt' = [nxt EXCEPT ![n] = next[c]]
      /\ UNCHANGED <<m_state, next, wstate, cur>>
  BY DEF UnparkRead, Goto
<1>3. /\ n \in Threads /\ n \notin Waiters /\ pc = [x \in Threads |-> pc[x]]
      /\ nxt \in [Notifiers -> Waiters \cup {Nil}]
      /\ \A m \in Notifiers : m \in Threads
      /\ \A v \in Waiters : v \in Threads
  BY TypesAre DEF IInv, Typed, TypeOK
<1>4. pc'[n] = "signal" /\ cur'[n] = c /\ nxt'[n] = next[c]
  BY <1>2, <1>3
<1>5. /\ Chained(next, next[c]) /\ OnChain(next, c) = {c} \cup OnChain(next, next[c])
      /\ c \notin OnChain(next, next[c])
  <2>1. Chained(next, c)
    BY <1>1 DEF IInv, Linked, LinkedAt
  <2> QED BY <1>1, <2>1, ChainStep DEF OnChain
<1>6. LinkedAt(next', pc'[n], cur'[n], nxt'[n])
  BY <1>2, <1>4, <1>5 DEF LinkedAt
<1>7. Owed'[n] = Owed[n]
  <2>1. Owed[n] = OnChain(next, c)
    BY <1>1 DEF Owed, OwedAt
  <2>2. Owed'[n] = {c} \cup OnChain(next, next[c])
    BY <1>2, <1>4 DEF Owed, OwedAt
  <2> QED BY <1>5, <2>1, <2>2
<1>8. Sleepers' = Sleepers
  BY <1>2, <1>3 DEF Sleepers, Asleep
<1>9. /\ \A m \in Notifiers \ {n} : pc'[m] = pc[m] /\ cur'[m] = cur[m] /\ nxt'[m] = nxt[m]
      /\ \A w \in Sleepers \ Owed[n] : next'[w] = next[w]
  BY <1>2, <1>3
<1> QED BY <1>2, <1>6, <1>7, <1>8, <1>9, OwedChanges

\* Where _unpark goes, it has the rest of the chain in hand.
LEMMA NextOwed ==
  ASSUME IInv, NEW n \in Notifiers, Chained(next, nxt[n]), NextInChain(n), next' = next,
         pc'[n] = AfterUnpark(n)
  PROVE  LinkedAt(next', pc'[n], cur'[n], nxt'[n]) /\ Owed'[n] = OnChain(next, nxt[n])
<1>1. cur'[n] = nxt[n]
  BY DEF NextInChain, IInv, Typed, TypeOK
<1>2. CASE nxt[n] = Nil
  <2>1. pc'[n] \in FreePCs
    BY <1>2 DEF AfterUnpark, Again, FreePCs
  <2>2. LinkedAt(next', pc'[n], cur'[n], nxt'[n]) /\ Owed'[n] = {}
    BY <2>1, OwesNobody DEF Owed
  <2>3. OnChain(next, Nil) = {}
    BY ChainOfNil, RangeOfEmpty DEF OnChain
  <2> QED BY <1>2, <2>2, <2>3
<1>3. CASE nxt[n] # Nil
  <2>1. pc'[n] = "unpark"
    BY <1>3 DEF AfterUnpark
  <2> QED BY <1>1, <2>1 DEF LinkedAt, Owed, OwedAt
<1> QED BY <1>2, <1>3

\* The exchange that lets a sleeper go.
LEMMA SignalLinks ==
  ASSUME IInv, NEW n \in Notifiers, UnparkSignal(n)
  PROVE  /\ Linked' /\ Claimed'
         /\ Chain(next', m_state'.top) = Chain(next, m_state.top)
<1> DEFINE c == cur[n]
<1>1. /\ c \in Waiters /\ pc[n] = "signal" /\ Chained(next, nxt[n])
      /\ c \notin OnChain(next, nxt[n])
      /\ Owed[n] = {c} \cup OnChain(next, nxt[n])
  BY DEF IInv, Loops, LoopAt, UnparkSignal, Linked, LinkedAt, Owed, OwedAt
<1>2. /\ wstate' = [wstate EXCEPT ![c] = "Signaled"] /\ UNCHANGED <<m_state, next>>
      /\ \/ pc' = [pc EXCEPT ![n] = "wake"] /\ UNCHANGED <<cur, nxt>>
         \/ pc' = [pc EXCEPT ![n] = AfterUnpark(n)] /\ NextInChain(n)
  BY DEF UnparkSignal, Goto
<1>3. /\ n \in Threads /\ n \notin Waiters /\ pc = [x \in Threads |-> pc[x]]
      /\ wstate = [x \in Waiters |-> wstate[x]]
      /\ cur \in [Notifiers -> Waiters \cup {Nil}] /\ nxt \in [Notifiers -> Waiters \cup {Nil}]
      /\ \A m \in Notifiers : m \in Threads
      /\ \A v \in Waiters : v \in Threads
  BY TypesAre DEF IInv, Typed, TypeOK
<1> HIDE DEF c
<1>4. LinkedAt(next', pc'[n], cur'[n], nxt'[n]) /\ Owed'[n] = OnChain(next, nxt[n])
  <2>1. CASE pc' = [pc EXCEPT ![n] = "wake"] /\ UNCHANGED <<cur, nxt>>
    BY <1>1, <1>2, <1>3, <2>1 DEF LinkedAt, Owed, OwedAt
  <2>2. CASE pc' = [pc EXCEPT ![n] = AfterUnpark(n)] /\ NextInChain(n)
    BY <1>1, <1>2, <1>3, <2>2, NextOwed
  <2> QED BY <1>2, <2>1, <2>2
<1>5. /\ \A m \in Notifiers \ {n} : pc'[m] = pc[m] /\ cur'[m] = cur[m] /\ nxt'[m] = nxt[m]
      /\ \A v \in Waiters : pc'[v] = pc[v]
  BY <1>2, <1>3 DEF NextInChain
<1>6. Sleepers' = Sleepers \ {c}
  BY <1>1, <1>2, <1>3, <1>5 DEF Sleepers, Asleep
<1>7. \A w \in Sleepers \ Owed[n] : next'[w] = next[w]
  BY <1>2
<1> QED BY <1>1, <1>2, <1>4, <1>5, <1>6, <1>7, OwedChanges

\* The wake-up of a thread that blocks.
LEMMA WakeLinks ==
  ASSUME IInv, NEW n \in Notifiers, UnparkWake(n)
  PROVE  /\ Linked' /\ Claimed'
         /\ Chain(next', m_state'.top) = Chain(next, m_state.top)
<1>1. /\ pc[n] = "wake" /\ Chained(next, nxt[n]) /\ Owed[n] = OnChain(next, nxt[n])
  BY DEF IInv, UnparkWake, Linked, LinkedAt, Owed, OwedAt
<1>2. /\ UNCHANGED <<m_state, next, wstate>> /\ NextInChain(n)
      /\ pc' = [t \in Threads |->
                  CASE t = n -> AfterUnpark(n)
                    [] t = cur[n] /\ pc[t] = "blocked" -> "parkWait"
                    [] OTHER -> pc[t]]
  BY DEF UnparkWake
<1>3. /\ n \in Threads /\ n \notin Waiters /\ pc = [x \in Threads |-> pc[x]]
      /\ cur \in [Notifiers -> Waiters \cup {Nil}] /\ nxt \in [Notifiers -> Waiters \cup {Nil}]
      /\ \A m \in Notifiers : m \in Threads /\ m \notin Waiters /\ pc[m] # "blocked"
      /\ \A v \in Waiters : v \in Threads
  BY TypesAre DEF IInv, Typed, TypeOK, NotifierPCs
<1>4. pc'[n] = AfterUnpark(n)
  BY <1>2, <1>3
<1>5. LinkedAt(next', pc'[n], cur'[n], nxt'[n]) /\ Owed'[n] = OnChain(next, nxt[n])
  BY <1>1, <1>2, <1>4, NextOwed
<1>6. /\ \A m \in Notifiers \ {n} : pc'[m] = pc[m] /\ cur'[m] = cur[m] /\ nxt'[m] = nxt[m]
      /\ \A v \in Waiters : pc'[v] \in Parking <=> pc[v] \in Parking
  BY <1>2, <1>3 DEF NextInChain, Parking
<1>7. Sleepers' = Sleepers
  BY <1>2, <1>6 DEF Sleepers, Asleep
<1>8. \A w \in Sleepers \ Owed[n] : next'[w] = next[w]
  BY <1>2
<1> QED BY <1>1, <1>2, <1>5, <1>6, <1>7, <1>8, OwedChanges

\* The steps that move no sleeper and change no link of one.
QuietSteps ==
  \/ \E w \in Waiters :
       \/ PrepareWait(w) \/ CancelWait(w) \/ CancelSettle(w) \/ PassedOver(w)
       \/ CommitWait(w) \/ CommitLink(w) \/ ParkCas(w) \/ ParkWait(w)
       \/ CommitPush(w) /\ m_state # reg[w]
  \/ \E n \in Notifiers :
       \/ NotifyOne(n) \/ NotifyAll(n) \/ NotifyN(n) \/ NotifyNobody(n) \/ ReleaseTickets(n)
       \/ PopLoad(n) \/ PopRead(n)
       \/ PopCas(n) /\ m_state # reg[n]
  \/ UNCHANGED vars

\* The top of the stack is one of its words.
LEMMA QuietTop ==
  ASSUME IInv, QuietSteps
  PROVE  m_state'.top = m_state.top
<1>1. m_state \in Word
  BY DEF IInv, Typed, TypeOK
<1>2. ASSUME NEW w \in Waiters, PrepareWait(w) \/ CancelSettle(w)
      PROVE  m_state'.top = m_state.top
  BY <1>1, <1>2 DEF PrepareWait, CancelSettle, Advance, Word
<1>3. ASSUME NEW n \in Notifiers, ReleaseTickets(n) PROVE m_state'.top = m_state.top
  BY <1>1, <1>3 DEF ReleaseTickets, Advance, Word
<1> QED
  BY <1>2, <1>3
  DEF QuietSteps, vars, CancelWait, PassedOver, CommitWait, CommitLink, CommitPush, ParkCas,
      ParkWait, NotifyOne, NotifyAll, NotifyN, NotifyCall, NotifyNobody, PopLoad, PopRead, PopCas

\* They leave the sleepers and the chains as they are.
LEMMA QuietLinks ==
  ASSUME IInv, QuietSteps
  PROVE  /\ Linked' /\ Claimed'
         /\ Chain(next', m_state'.top) = Chain(next, m_state.top)
<1>1. m_state'.top = m_state.top
  BY QuietTop
<1>2. /\ pc = [t \in Threads |-> pc[t]]
      /\ next \in [Waiters -> Waiters \cup {Nil}]
      /\ wstate \in [Waiters -> {"NotSignaled", "Waiting", "Signaled"}]
      /\ cur = [n \in Notifiers |-> cur[n]] /\ nxt = [n \in Notifiers |-> nxt[n]]
      /\ \A w \in Waiters : w \in Threads /\ w \notin Notifiers
      /\ \A n \in Notifiers : n \in Threads /\ n \notin Waiters
      /\ \A w \in Waiters : /\ pc[w] = "parkCas" => wstate[w] # "Waiting"
                            /\ pc[w] = "parkWait" => wstate[w] # "NotSignaled"
  BY TypesAre DEF IInv, Typed, TypeOK, Parked, ParkedAt
<1> USE <1>2 DEF Goto, notifierVars, waiterVars
<1>3. ASSUME /\ UNCHANGED <<pc, wstate, next, cur, nxt>>
      PROVE  /\ Linked' /\ Claimed'
             /\ Chain(next', m_state'.top) = Chain(next, m_state.top)
  <2>1. Sleepers' = Sleepers
    BY <1>3 DEF Sleepers, Asleep
  <2> QED BY <1>1, <1>3, <2>1, StackStays
<1>4. ASSUME NEW w \in Waiters,
             \/ PrepareWait(w) \/ CancelWait(w) \/ CancelSettle(w) \/ PassedOver(w)
             \/ CommitWait(w) \/ CommitLink(w) \/ ParkCas(w) \/ ParkWait(w)
             \/ CommitPush(w) /\ m_state # reg[w]
      PROVE  /\ Linked' /\ Claimed'
             /\ Chain(next', m_state'.top) = Chain(next, m_state.top)
  <2> USE DEF PrepareWait, CancelWait, CancelSettle, PassedOver, CommitWait, CommitLink,
              CommitPush, ParkCas, ParkWait
  <2>1. /\ UNCHANGED <<cur, nxt>> /\ \A n \in Notifiers : pc'[n] = pc[n]
        /\ \A v \in Waiters : v # w =>
             pc'[v] = pc[v] /\ wstate'[v] = wstate[v] /\ next'[v] = next[v]
    BY <1>4
  <2>2. /\ Asleep(w)' <=> Asleep(w)
        /\ Asleep(w) => next'[w] = next[w]
    BY <1>4 DEF Asleep, Parking
  <2>3. /\ Sleepers' = Sleepers
        /\ \A v \in Sleepers : next'[v] = next[v]
    BY <2>1, <2>2 DEF Sleepers, Asleep
  <2> QED BY <1>1, <2>1, <2>3, StackStays
<1>5. ASSUME NEW n \in Notifiers,
             \/ NotifyOne(n) \/ NotifyAll(n) \/ NotifyN(n) \/ NotifyNobody(n)
             \/ ReleaseTickets(n) \/ PopLoad(n) \/ PopRead(n)
             \/ PopCas(n) /\ m_state # reg[n]
      PROVE  /\ Linked' /\ Claimed'
             /\ Chain(next', m_state'.top) = Chain(next, m_state.top)
  <2>1. /\ UNCHANGED <<next, wstate>>
        /\ \A t \in Threads : t # n => pc'[t] = pc[t]
        /\ \A m \in Notifiers : m # n => cur'[m] = cur[m] /\ nxt'[m] = nxt[m]
        /\ pc[n] \in FreePCs /\ pc'[n] \in FreePCs
    BY <1>5
    DEF NotifyOne, NotifyAll, NotifyN, NotifyCall, NotifyNobody, ReleaseTickets, PopLoad,
        PopRead, PopCas, FreePCs, Again
  <2>2. Sleepers' = Sleepers
    BY <2>1 DEF Sleepers, Asleep
  <2> QED BY <1>1, <2>1, <2>2, StackStays
<1> QED BY <1>3, <1>4, <1>5 DEF QuietSteps, vars

\* Every step keeps the chains, and each sleeper in one place.
LEMMA StackNext ==
  ASSUME IInv, [Next]_vars
  PROVE  Linked' /\ Claimed'
<1>1. QuietSteps => Linked' /\ Claimed'
  BY QuietLinks
<1>2. ASSUME NEW w \in Waiters, CommitPush(w) PROVE (Linked' /\ Claimed') \/ QuietSteps
  BY <1>2, PushLinks DEF QuietSteps
<1>3. ASSUME NEW n \in Notifiers, PopCas(n) PROVE (Linked' /\ Claimed') \/ QuietSteps
  BY <1>3, PopLinks DEF QuietSteps
<1>4. ASSUME NEW n \in Notifiers,
             TakeAll(n) \/ Unlink(n) \/ UnparkRead(n) \/ UnparkSignal(n) \/ UnparkWake(n)
      PROVE  Linked' /\ Claimed'
  BY <1>4, TakeAllLinks, UnlinkLinks, ReadLinks, SignalLinks, WakeLinks
<1>5. ASSUME NEW w \in Waiters, PrepareWait(w) \/ WaiterRuns(w)
      PROVE  Linked' /\ Claimed'
  BY <1>1, <1>2, <1>5, Zenon DEF WaiterRuns, QuietSteps
<1>6. ASSUME NEW n \in Notifiers, NotifyOne(n) \/ NotifyAll(n) \/ NotifyN(n) \/ NotifierRuns(n)
      PROVE  Linked' /\ Claimed'
  BY <1>1, <1>3, <1>4, <1>6, Zenon DEF NotifierRuns, QuietSteps
<1> QED BY <1>1, <1>5, <1>6, Zenon DEF Next, QuietSteps

-----------------------------------------------------------------------------
(* What a notifier may rely on when it pops.                               *)

\* The word moves on: either a ticket settles, and what was loaded is older than
\* that, or nobody is pushed, and the top that was popped is not on the stack.
LEMMA VouchedMoves ==
  ASSUME NEW word \in Word, NEW word2 \in Word, NEW left \in Nat, NEW left2 \in Nat,
         NEW links, NEW new, NEW at, NEW r \in Word, NEW x,
         VouchedAt(word, links, left, at, r, x),
         NEW k \in 0..word.pre, word2.epoch = (word.epoch + k) % EpochModulus,
         word2.pre + left2 = word.pre - k + left,
         k = 0 =>
           \/ OnChain(new, word2.top) = {}
           \/ /\ word2.top = word.top /\ OnChain(new, word2.top) = OnChain(links, word.top)
              /\ \A w \in OnChain(links, word.top) : new[w] = links[w]
           \/ OnChain(new, word2.top) \subseteq OnChain(links, word.top) \ {word.top}
  PROVE  VouchedAt(word2, new, left2, at, r, x)
<1> SUFFICES ASSUME at \in {"popRead", "popCas"}
             PROVE  VouchedAt(word2, new, left2, at, r, x)
  BY DEF VouchedAt
<1> DEFINE age == Distance(word.epoch, r.epoch)
           age2 == Distance(word2.epoch, r.epoch)
<1>1. /\ word.epoch \in Epochs /\ r.epoch \in Epochs /\ word2.epoch \in Epochs
      /\ word.pre \in Nat /\ word2.pre \in Nat /\ EpochModulus \in Nat /\ k \in Nat /\ k <= word.pre
  BY NotifierAssumption, SizeType DEF Word, Epochs
<1>2. /\ age \in Int /\ age >= 0 /\ 2 * (age + word.pre + left) < EpochModulus
  BY <1>1, DistanceType DEF VouchedAt
<1>3. age2 = age + k
  <2>1. 2 * (age + k) < EpochModulus
    BY <1>1, <1>2
  <2>2. Distance((word.epoch + k) % EpochModulus, r.epoch) = Distance(word.epoch, r.epoch) + k
    BY <1>1, <2>1, DistanceGrows
  <2> QED BY <2>2
<1> HIDE DEF age, age2
<1>4. age2 >= 0 /\ 2 * (age2 + word2.pre + left2) < EpochModulus /\ (age2 = 0 => age = 0 /\ k = 0)
  BY <1>1, <1>2, <1>3
<1>5. ASSUME age2 = 0, r.top \in OnChain(new, word2.top)
      PROVE  word2.top = r.top /\ (at = "popCas" => x = new[r.top])
  <2>1. age = 0 /\ k = 0
    BY <1>4, <1>5
  <2>2. r.top \in OnChain(links, word.top)
    BY <1>5, <2>1
  <2>3. word.top = r.top /\ (at = "popCas" => x = links[r.top])
    BY <2>1, <2>2 DEF VouchedAt, age
  <2> QED BY <1>5, <2>1, <2>2, <2>3
<1> QED BY <1>4, <1>5 DEF VouchedAt, age2

\* So it is for every notifier that the step leaves where it is.
LEMMA VouchedStays ==
  ASSUME IInv, Typed', NEW n \in Notifiers,
         pc'[n] = pc[n], reg'[n] = reg[n], nxt'[n] = nxt[n],
         NEW k \in 0..m_state.pre,
         m_state'.epoch = (m_state.epoch + k) % EpochModulus,
         m_state'.pre + Total(rounds', Waiters) = m_state.pre - k + Total(rounds, Waiters),
         k = 0 =>
           \/ OnChain(next', m_state'.top) = {}
           \/ /\ m_state'.top = m_state.top
              /\ OnChain(next', m_state'.top) = OnChain(next, m_state.top)
              /\ \A w \in OnChain(next, m_state.top) : next'[w] = next[w]
           \/ OnChain(next', m_state'.top) \subseteq OnChain(next, m_state.top) \ {m_state.top}
  PROVE  VouchedAt(m_state', next', Total(rounds', Waiters), pc'[n], reg'[n], nxt'[n])
<1>1. /\ m_state \in Word /\ m_state' \in Word /\ reg[n] \in Word
      /\ Total(rounds, Waiters) \in Nat /\ Total(rounds', Waiters) \in Nat
  <2>1. \A w \in Waiters : rounds[w] \in Nat /\ rounds'[w] \in Nat
    BY DEF IInv, Typed, TypeOK
  <2>2. Total(rounds, Waiters) \in Nat /\ Total(rounds', Waiters) \in Nat
    BY <2>1, NotifierAssumption, UnitsFinite
  <2> QED BY <2>2, TypesAre DEF IInv, Typed, TypeOK
<1>2. VouchedAt(m_state, next, Total(rounds, Waiters), pc[n], reg[n], nxt[n])
  BY DEF IInv, Vouched
<1>3. VouchedAt(m_state', next', Total(rounds', Waiters), pc[n], reg[n], nxt[n])
  BY <1>1, <1>2, VouchedMoves
<1> QED BY <1>3

\* A notifier that is not about to pop relies on nothing.
LEMMA VouchesNothing ==
  ASSUME NEW word, NEW links, NEW left, NEW at, NEW r, NEW x, at \notin {"popRead", "popCas"}
  PROVE  VouchedAt(word, links, left, at, r, x)
  BY DEF VouchedAt

\* The links of the sleepers on the stack change at no step.
LEMMA LinksStay ==
  ASSUME IInv, [Next]_vars
  PROVE  \A w \in OnChain(next, m_state.top) : next'[w] = next[w]
<1>1. \A w \in OnChain(next, m_state.top) : w \in Waiters /\ Asleep(w)
  BY SleepersSleep
<1>2. next \in [Waiters -> Waiters \cup {Nil}]
  BY TypesAre
<1>3. ASSUME NEW w \in Waiters, CommitLink(w)
      PROVE  \A v \in OnChain(next, m_state.top) : next'[v] = next[v]
  <2>1. w \notin OnChain(next, m_state.top)
    BY <1>1, <1>3 DEF Asleep, Parking, CommitLink, Goto
  <2> QED BY <1>1, <1>2, <1>3, <2>1 DEF CommitLink
<1>4. ASSUME NEW n \in Notifiers, Unlink(n)
      PROVE  \A v \in OnChain(next, m_state.top) : next'[v] = next[v]
  <2>1. cur[n] \in OwedAt(next, pc[n], cur[n], nxt[n])
    BY <1>4 DEF OwedAt, Unlink, Goto
  <2>2. cur[n] \notin OnChain(next, m_state.top)
    BY <2>1, SleepersSleep
  <2> QED BY <1>1, <1>2, <1>4, <2>2 DEF Unlink
<1>5. CASE next' = next
  BY <1>5
<1> QED
  BY <1>3, <1>4, <1>5
  DEF Next, vars, WaiterRuns, NotifierRuns, PrepareWait, CancelWait, CancelSettle, PassedOver,
      CommitWait, CommitPush, ParkCas, ParkWait, NotifyOne, NotifyAll, NotifyN, NotifyCall,
      NotifyNobody, ReleaseTickets, PopLoad, PopRead, PopCas, TakeAll, UnparkRead, UnparkSignal,
      UnparkWake

\* A notifier goes on popping only by its own steps.
Reads(n) ==
  \/ PopLoad(n) \/ PopRead(n)
  \/ pc'[n] \notin {"popRead", "popCas"}
  \/ pc'[n] = pc[n] /\ reg'[n] = reg[n] /\ nxt'[n] = nxt[n]

LEMMA ReadersStay ==
  ASSUME IInv, [Next]_vars, NEW n \in Notifiers
  PROVE  Reads(n)
<1>1. /\ pc = [t \in Threads |-> pc[t]] /\ reg \in [Threads -> Word]
      /\ nxt = [m \in Notifiers |-> nxt[m]]
      /\ \A w \in Waiters : w \in Threads /\ w \notin Notifiers
      /\ \A m \in Notifiers : m \in Threads /\ m \notin Waiters
  BY TypesAre DEF IInv, Typed, TypeOK
<1> USE <1>1 DEF Reads, Goto, Load, Leave, notifierVars, NextInChain, AfterUnpark, Again
<1>2. ASSUME NEW w \in Waiters, PrepareWait(w) \/ WaiterRuns(w) PROVE Reads(n)
  BY <1>2
  DEF WaiterRuns, PrepareWait, CancelWait, CancelSettle, PassedOver, CommitWait, CommitLink,
      CommitPush, ParkCas, ParkWait
<1>3. ASSUME NEW m \in Notifiers, NotifyOne(m) \/ NotifyAll(m) \/ NotifyN(m) PROVE Reads(n)
  BY <1>3 DEF NotifyOne, NotifyAll, NotifyN, NotifyCall
<1>4. ASSUME NEW m \in Notifiers,
             \/ NotifyNobody(m) \/ ReleaseTickets(m) \/ PopLoad(m) \/ PopRead(m) \/ PopCas(m)
      PROVE  Reads(n)
  BY <1>4 DEF NotifyNobody, ReleaseTickets, PopLoad, PopRead, PopCas
<1>5. ASSUME NEW m \in Notifiers,
             TakeAll(m) \/ Unlink(m) \/ UnparkRead(m) \/ UnparkSignal(m) \/ UnparkWake(m)
      PROVE  Reads(n)
  BY <1>5 DEF TakeAll, Unlink, UnparkRead, UnparkSignal, UnparkWake
<1>6. CASE UNCHANGED vars
  BY <1>6 DEF vars
<1> QED BY <1>2, <1>3, <1>4, <1>5, <1>6 DEF Next, NotifierRuns

\* How a step moves the word and the stack: as VouchedStays needs it.
Moves(k) ==
  /\ m_state'.epoch = (m_state.epoch + k) % EpochModulus
  /\ m_state'.pre + Total(rounds', Waiters) = m_state.pre - k + Total(rounds, Waiters)
  /\ k = 0 =>
       \/ OnChain(next', m_state'.top) = {}
       \/ /\ m_state'.top = m_state.top
          /\ OnChain(next', m_state'.top) = OnChain(next, m_state.top)
          /\ \A w \in OnChain(next, m_state.top) : next'[w] = next[w]
       \/ OnChain(next', m_state'.top) \subseteq OnChain(next, m_state.top) \ {m_state.top}

\* It either settles a ticket or leaves the epoch and pushes nobody.
LEMMA WordMoves ==
  ASSUME IInv, Typed', [Next]_vars
  PROVE  \E k \in 0..m_state.pre : Moves(k)
<1>1. /\ m_state.epoch \in Epochs /\ m_state.pre \in Nat
      /\ (m_state.epoch + 0) % EpochModulus = m_state.epoch
      /\ 0 \in 0..m_state.pre /\ m_state.pre - 0 = m_state.pre
      /\ Total(rounds, Waiters) \in Nat
      /\ m_state \in Word
  BY LineTypes, NoDistance DEF IInv, Typed, TypeOK
<1>2. \A w \in OnChain(next, m_state.top) : next'[w] = next[w]
  BY LinksStay
<1>3. ASSUME m_state'.epoch = m_state.epoch, m_state'.top = m_state.top,
             m_state'.pre + Total(rounds', Waiters) = m_state.pre + Total(rounds, Waiters),
             Chain(next', m_state'.top) = Chain(next, m_state.top)
      PROVE  Moves(0)
  BY <1>1, <1>2, <1>3 DEF Moves, OnChain
<1>4. ASSUME NEW k \in 0..m_state.pre, k > 0, rounds' = rounds,
             m_state'.epoch = (m_state.epoch + k) % EpochModulus,
             m_state'.pre = m_state.pre - k
      PROVE  Moves(k)
  BY <1>4 DEF Moves
<1>5. ASSUME NEW w \in Waiters, PrepareWait(w) PROVE Moves(0)
  <2>1. QuietSteps
    BY <1>5 DEF QuietSteps
  <2> QED BY <1>3, <1>5, <2>1, PrepareLines, QuietTop, QuietLinks
<1>6. ASSUME NEW w \in Waiters, CancelSettle(w) \/ (CommitPush(w) /\ m_state = reg[w])
      PROVE  1 \in 0..m_state.pre /\ Moves(1)
  <2>1. rounds' = rounds
    BY <1>6 DEF CancelSettle, CommitPush
  <2> QED BY <1>4, <1>6, <2>1, TurnSettles
<1>7. ASSUME NEW n \in Notifiers, ReleaseTickets(n)
      PROVE  \E k \in 0..m_state.pre : Moves(k)
  <2> DEFINE k == IF quota[n] < m_state.pre THEN quota[n] ELSE m_state.pre
  <2>1. quota[n] \in Nat /\ quota[n] > 0 /\ m_state.pre > 0
    BY <1>7, SizeType DEF ReleaseTickets, Goto, IInv, Typed, TypeOK, Loops, LoopAt
  <2>2. k \in 0..m_state.pre /\ k > 0
    BY <1>1, <2>1
  <2>3. m_state' = Advance(m_state, k) /\ rounds' = rounds
    BY <1>7 DEF ReleaseTickets, waiterVars
  <2> HIDE DEF k
  <2>4. m_state'.epoch = (m_state.epoch + k) % EpochModulus /\ m_state'.pre = m_state.pre - k
    BY <2>2, <2>3, WordAdvances
  <2> QED BY <1>4, <2>2, <2>3, <2>4
<1>8. ASSUME NEW n \in Notifiers, TakeAll(n) PROVE Moves(m_state.pre)
  <2>1. m_state' = [Advance(m_state, m_state.pre) EXCEPT !.top = Nil] /\ rounds' = rounds
    BY <1>8 DEF TakeAll, waiterVars
  <2>2. m_state.pre \in 0..m_state.pre
    BY <1>1
  <2>3. /\ m_state'.epoch = (m_state.epoch + m_state.pre) % EpochModulus
        /\ m_state'.pre = m_state.pre - m_state.pre
    BY <2>1, <2>2, WordAdvances
  <2>4. OnChain(next', m_state'.top) = {}
    BY <1>8, TakeAllLinks, RangeOfEmpty DEF OnChain
  <2> QED BY <2>1, <2>3, <2>4 DEF Moves
<1>9. ASSUME NEW n \in Notifiers, PopCas(n), m_state = reg[n] PROVE Moves(0)
  <2>1. /\ m_state' = [m_state EXCEPT !.top = nxt[n]] /\ rounds' = rounds /\ next' = next
        /\ m_state.top \in Waiters /\ nxt[n] = next[m_state.top]
    BY <1>9, PopFinds DEF PopCas, waiterVars
  <2>2. /\ m_state'.epoch = m_state.epoch /\ m_state'.pre = m_state.pre
        /\ m_state'.top = next[m_state.top]
    BY <1>1, <2>1 DEF Word
  <2>3. OnChain(next', m_state'.top) \subseteq OnChain(next, m_state.top) \ {m_state.top}
    BY <2>1, <2>2, ChainStep DEF IInv, Linked, OnChain
  <2> QED BY <1>1, <2>1, <2>2, <2>3 DEF Moves
<1>10. ASSUME NEW n \in Notifiers,
              Unlink(n) \/ UnparkRead(n) \/ UnparkSignal(n) \/ UnparkWake(n)
       PROVE  Moves(0)
  <2>1. UNCHANGED <<m_state, rounds>>
    BY <1>10 DEF Unlink, UnparkRead, UnparkSignal, UnparkWake, waiterVars
  <2>2. Chain(next', m_state'.top) = Chain(next, m_state.top)
    BY <1>10, UnlinkLinks, ReadLinks, SignalLinks, WakeLinks
  <2> QED BY <1>3, <2>1, <2>2
<1>11. ASSUME QuietSteps, OtherSteps PROVE Moves(0)
  BY <1>3, <1>11, QuietTop, QuietLinks, OthersSettleNone
<1>12. ASSUME NEW w \in Waiters, WaiterRuns(w)
       PROVE  \/ CancelSettle(w) \/ (CommitPush(w) /\ m_state = reg[w])
              \/ (QuietSteps /\ OtherSteps)
  BY <1>12, Zenon DEF WaiterRuns, QuietSteps, OtherSteps
<1>13. ASSUME NEW n \in Notifiers,
              NotifyOne(n) \/ NotifyAll(n) \/ NotifyN(n) \/ NotifierRuns(n)
       PROVE  \/ ReleaseTickets(n) \/ TakeAll(n) \/ (PopCas(n) /\ m_state = reg[n])
              \/ Unlink(n) \/ UnparkRead(n) \/ UnparkSignal(n) \/ UnparkWake(n)
              \/ (QuietSteps /\ OtherSteps)
  BY <1>13, Zenon DEF NotifierRuns, QuietSteps, OtherSteps
<1>14. UNCHANGED vars => QuietSteps /\ OtherSteps
  BY Zenon DEF QuietSteps, OtherSteps
<1>15. m_state.pre \in 0..m_state.pre
  BY <1>1
<1>16. ASSUME NEW w \in Waiters, PrepareWait(w) \/ WaiterRuns(w)
       PROVE  \E k \in 0..m_state.pre : Moves(k)
  BY <1>1, <1>5, <1>6, <1>11, <1>12, <1>16
<1>17. ASSUME NEW n \in Notifiers,
              NotifyOne(n) \/ NotifyAll(n) \/ NotifyN(n) \/ NotifierRuns(n)
       PROVE  \E k \in 0..m_state.pre : Moves(k)
  BY <1>1, <1>7, <1>8, <1>9, <1>10, <1>11, <1>13, <1>15, <1>17
<1> QED BY <1>1, <1>11, <1>14, <1>16, <1>17 DEF Next

\* Every step keeps what a notifier relies on when it pops.
LEMMA VouchedNext ==
  ASSUME IInv, Typed', [Next]_vars
  PROVE  Vouched'
<1> SUFFICES ASSUME NEW n \in Notifiers
             PROVE  VouchedAt(m_state', next', Total(rounds', Waiters), pc'[n], reg'[n], nxt'[n])
  BY DEF Vouched
<1>1. CASE pc'[n] = pc[n] /\ reg'[n] = reg[n] /\ nxt'[n] = nxt[n]
  <2>1. PICK k \in 0..m_state.pre : Moves(k)
    BY WordMoves
  <2> QED BY <1>1, <2>1, VouchedStays DEF Moves
<1>2. CASE pc'[n] \notin {"popRead", "popCas"}
  BY <1>2, VouchesNothing
<1>3. ASSUME PopLoad(n)
      PROVE  VouchedAt(m_state', next', Total(rounds', Waiters), pc'[n], reg'[n], nxt'[n])
  <2>1. /\ UNCHANGED <<m_state, next, rounds>> /\ reg'[n] = m_state /\ pc'[n] = "popRead"
    BY <1>3, TypesAre DEF PopLoad, Goto, Load, waiterVars, IInv, Typed, TypeOK
  <2>2. /\ Distance(m_state.epoch, m_state.epoch) = 0
        /\ 2 * (0 + m_state.pre + Total(rounds, Waiters)) < EpochModulus
    <3>1. 2 * (m_state.pre + Total(rounds, Waiters)) < EpochModulus
      BY DEF IInv, Lined, InLine
    <3>2. /\ m_state.pre \in Nat /\ Total(rounds, Waiters) \in Nat
          /\ Distance(m_state.epoch, m_state.epoch) = 0
      BY LineTypes, NoDistance DEF IInv
    <3> QED BY <3>1, <3>2
  <2> QED BY <2>1, <2>2 DEF VouchedAt
<1>4. ASSUME PopRead(n)
      PROVE  VouchedAt(m_state', next', Total(rounds', Waiters), pc'[n], reg'[n], nxt'[n])
  <2>1. /\ UNCHANGED <<m_state, next, rounds, reg>> /\ pc[n] = "popRead" /\ pc'[n] = "popCas"
        /\ nxt'[n] = next[reg[n].top]
    BY <1>4, TypesAre DEF PopRead, Goto, waiterVars, IInv, Typed, TypeOK
  <2>2. VouchedAt(m_state, next, Total(rounds, Waiters), pc[n], reg[n], nxt[n])
    BY DEF IInv, Vouched
  <2> QED BY <2>1, <2>2 DEF VouchedAt
<1>5. Reads(n)
  BY ReadersStay
<1> QED BY <1>1, <1>2, <1>3, <1>4, <1>5 DEF Reads

-----------------------------------------------------------------------------
(* The invariant.                                                          *)

\* The oldest tickets, as many as a notification wants, settle.
LEMMA ReleasedNow ==
  ASSUME IInv, Typed', NEW n \in Notifiers, ReleaseTickets(n)
  PROVE  /\ Lined' /\ m_state.pre > 0
         /\ \E k \in 1..m_state.pre : Tickets' = Without(Tickets, k)
<1> DEFINE k == IF quota[n] < m_state.pre THEN quota[n] ELSE m_state.pre
<1>1. quota[n] \in Nat /\ quota[n] > 0 /\ m_state.pre > 0 /\ m_state.pre \in Nat
  BY SizeType, LineTypes DEF ReleaseTickets, Goto, IInv, Typed, TypeOK, Loops, LoopAt
<1>2. k \in 0..m_state.pre /\ k \in 1..m_state.pre
  BY <1>1
<1>3. m_state' = Advance(m_state, k) /\ UNCHANGED waiterVars
  BY DEF ReleaseTickets
<1>4. \A w \in Waiters : pc'[w] = pc[w]
  BY TypesAre DEF ReleaseTickets, Goto, IInv, Typed, TypeOK
<1> HIDE DEF k
<1>5. Lined' /\ Tickets' = Without(Tickets, k)
  BY <1>2, <1>3, <1>4, ReleaseSettles
<1> QED BY <1>1, <1>2, <1>5

\* notify_all settles every ticket.
LEMMA AllReleased ==
  ASSUME IInv, Typed', NEW n \in Notifiers, TakeAll(n)
  PROVE  Lined' /\ Tickets' = Without(Tickets, m_state.pre)
<1>1. m_state.pre \in 0..m_state.pre /\ Nil \in Waiters \cup {Nil}
  BY LineTypes DEF IInv
<1>2. m_state' = [Advance(m_state, m_state.pre) EXCEPT !.top = Nil] /\ UNCHANGED waiterVars
  BY DEF TakeAll
<1>3. \A w \in Waiters : pc'[w] = pc[w]
  BY TypesAre DEF TakeAll, Goto, IInv, Typed, TypeOK
<1> QED BY <1>1, <1>2, <1>3, ReleaseSettles

\* How a step concerns the tickets.
LEMMA TicketSteps ==
  ASSUME [Next]_vars
  PROVE  \/ \E w \in Waiters :
              PrepareWait(w) \/ CancelSettle(w) \/ (CommitPush(w) /\ m_state = reg[w])
         \/ \E n \in Notifiers : ReleaseTickets(n) \/ TakeAll(n)
         \/ OtherSteps
<1>1. ASSUME NEW w \in Waiters, PrepareWait(w) \/ WaiterRuns(w)
      PROVE  \/ PrepareWait(w) \/ CancelSettle(w) \/ (CommitPush(w) /\ m_state = reg[w])
             \/ OtherSteps
  BY <1>1, Zenon DEF WaiterRuns, OtherSteps
<1>2. ASSUME NEW n \in Notifiers,
             NotifyOne(n) \/ NotifyAll(n) \/ NotifyN(n) \/ NotifierRuns(n)
      PROVE  ReleaseTickets(n) \/ TakeAll(n) \/ OtherSteps
  BY <1>2, Zenon DEF NotifierRuns, OtherSteps
<1>3. UNCHANGED vars => OtherSteps
  BY Zenon DEF OtherSteps
<1> QED BY <1>1, <1>2, <1>3, Zenon DEF Next

\* Every step keeps the line of the tickets.
LEMMA LinedNext ==
  ASSUME IInv, Typed', [Next]_vars
  PROVE  Lined'
BY TicketSteps, PrepareLines, TurnSettles, ReleasedNow, AllReleased, OthersSettleNone

\* It holds at the start: there are no tickets, no sleepers and no notification.
LEMMA InitIInv == Init => IInv
<1> SUFFICES ASSUME Init PROVE IInv
  OBVIOUS
<1>1. PICK b \in Budgets :
        rounds = [w \in Waiters |-> b[w]] /\ calls = [n \in Notifiers |-> b[n]]
  BY DEF Init
<1>2. /\ b \in [Waiters \cup Notifiers -> Nat] /\ 2 * Total(b, Waiters) < EpochModulus
      /\ EpochModulus \in Nat /\ StartEpoch \in 0..(EpochModulus - 1)
      /\ Waiters \cap Notifiers = {}
  BY <1>1, NotifierAssumption
<1>3. /\ m_state = Blank /\ next = [w \in Waiters |-> Nil]
      /\ wstate = [w \in Waiters |-> "NotSignaled"] /\ snap = [w \in Waiters |-> Blank]
      /\ pc = [t \in Threads |-> IF t \in Waiters THEN "out" ELSE "idle"]
      /\ reg = [t \in Threads |-> Blank] /\ quota = [n \in Notifiers |-> 0]
      /\ cur = [n \in Notifiers |-> Nil] /\ nxt = [n \in Notifiers |-> Nil]
  BY DEF Init
<1>4. Blank \in Word /\ Blank.pre = 0 /\ Blank.top = Nil
  BY <1>2, SizeType DEF Blank, Word
<1>5. /\ \A w \in Waiters : w \in Threads /\ pc[w] = "out"
      /\ \A n \in Notifiers : n \in Threads /\ pc[n] = "idle"
  BY <1>2, <1>3 DEF Threads
<1>6. Typed
  <2>1. TypeOK
    BY <1>1, <1>2, <1>3, <1>4, SizeType DEF TypeOK
  <2> QED BY <1>5, <2>1 DEF Typed, WaiterPCs, NotifierPCs
<1>7. Lined
  <2>1. Total(rounds, Waiters) = Total(b, Waiters)
    <3>1. \A w \in Waiters : rounds[w] = b[w]
      BY <1>1
    <3> QED BY <3>1, UnitsSame DEF Total
  <2>2. m_state.pre = 0 /\ 2 * (m_state.pre + Total(rounds, Waiters)) < EpochModulus
    <3>1. Total(rounds, Waiters) \in Nat
      BY <1>6, LineTypes
    <3> QED BY <1>2, <1>3, <1>4, <2>1, <3>1
  <2>3. \A w \in Waiters : pc[w] \notin TicketPCs
    BY <1>5 DEF TicketPCs
  <2> QED BY <2>2, <2>3 DEF Lined, InLine, Open
<1>8. Parked /\ Loops /\ Vouched
  BY <1>5 DEF Parked, ParkedAt, Loops, LoopAt, Vouched, VouchedAt
<1>9. Chained(next, m_state.top) /\ OnChain(next, m_state.top) = {}
  BY <1>3, <1>4, ChainOfNil, RangeOfEmpty DEF OnChain
<1>10. Linked
  BY <1>5, <1>9 DEF Linked, LinkedAt
<1>11. Claimed
  <2>1. Sleepers = {}
    BY <1>5 DEF Sleepers, Asleep, Parking
  <2>2. \A n \in Notifiers : Owed[n] = {}
    BY <1>5 DEF Owed, OwedAt
  <2> QED BY <1>9, <2>1, <2>2 DEF Claimed, Partition
<1> QED BY <1>6, <1>7, <1>8, <1>10, <1>11 DEF IInv

\* Every step keeps it.
LEMMA NextIInv == IInv /\ [Next]_vars => IInv'
<1> SUFFICES ASSUME IInv, [Next]_vars PROVE IInv'
  OBVIOUS
<1>1. Typed'
  BY TypedNext
<1>2. Lined' /\ Vouched'
  BY <1>1, LinedNext, VouchedNext
<1>3. Parked' /\ Loops' /\ Linked' /\ Claimed'
  BY ParkedNext, LoopsNext, StackNext
<1> QED BY <1>1, <1>2, <1>3 DEF IInv

\* The inductive invariant holds.
THEOREM NotifierInvariant == Spec => []IInv
BY InitIInv, NextIInv, PTL DEF Spec

-----------------------------------------------------------------------------
(* What the notifier promises.                                             *)

\* The model's sets of sleepers are those of the invariant.
LEMMA OwedIs ==
  /\ ChainSet(m_state.top) = OnChain(next, m_state.top)
  /\ \A n \in Notifiers : OwedBy(n) = Owed[n]
<1>1. \A x : ChainSet(x) = OnChain(next, x)
  BY DEF ChainSet, ChainFrom, OnChain, Range
<1> QED BY <1>1 DEF OwedBy, Owed, OwedAt

\* No sleeper of commit_wait is lost, no two notifiers hold the same one, and
\* nobody that a notifier may still read through next has left its sleep.
THEOREM SleepersAccountedHolds == Spec => []SleepersAccounted
<1>1. ASSUME IInv PROVE SleepersAccounted
  <2> DEFINE S == OnChain(next, m_state.top)
             All == S \cup UNION {Owed[n] : n \in Notifiers}
  <2>1. ChainSet(m_state.top) = S /\ \A n \in Notifiers : OwedBy(n) = Owed[n]
    BY OwedIs
  <2>2. Partition(S, Owed, Sleepers)
    BY <1>1 DEF IInv, Claimed
  <2>3. ChainSet(m_state.top) \cup UNION {OwedBy(n) : n \in Notifiers} = All
    BY <2>1
  <2> HIDE DEF S, All
  <2>4. Sleepers = All
    BY <2>2 DEF Partition, All
  <2>5. NoneStranded
    BY <2>3, <2>4 DEF NoneStranded, Sleepers
  <2>6. ClaimedOnce
    BY <2>1, <2>2, <2>3, <2>4 DEF ClaimedOnce, Partition, Sleepers
  <2> QED BY <1>1, <2>5, <2>6 DEF SleepersAccounted, IInv, Typed
<1> QED BY <1>1, NotifierInvariant, PTL

\* The live tickets are the next turns, one waiter each: what commit_wait and
\* cancel_wait assert of prewaiter when a waiter's turn comes is true.
THEOREM TicketsConsecutiveHolds == Spec => []TicketsConsecutive
<1>1. ASSUME IInv PROVE TicketsConsecutive
  <2>1. {w \in Waiters : HoldsTicket(w)} = Holders(m_state.epoch, pc, snap)
    BY TurnIs DEF Holders
  <2>2. \A w \in Waiters : Target(w) = TurnIn(snap[w])
    BY DEF Target, TurnIn
  <2>3. /\ m_state.epoch \in Epochs /\ m_state.pre \in Nat
        /\ Total(rounds, Waiters) \in Nat /\ snap \in [Waiters -> Word]
        /\ InLine(m_state.epoch, m_state.pre, pc, snap, Total(rounds, Waiters))
    BY <1>1, LineTypes DEF IInv, Lined
  <2> DEFINE H == Holders(m_state.epoch, pc, snap)
  <2>4. Cardinality(H) = m_state.pre
    BY <2>3, LineCounted
  <2>5. {Distance(TurnIn(snap[w]), m_state.epoch) : w \in H} = 0..(m_state.pre - 1)
    BY <2>3, LineCounted
  <2>6. H \subseteq Waiters
    BY DEF Holders
  <2> HIDE DEF H
  <2>7. {Distance(Target(w), m_state.epoch) : w \in H} =
          {Distance(TurnIn(snap[w]), m_state.epoch) : w \in H}
    BY <2>2, <2>6
  <2>8. {w \in Waiters : HoldsTicket(w)} = H
    BY <2>1 DEF H
  <2> QED BY <2>4, <2>5, <2>7, <2>8, Zenon DEF TicketsConsecutive
<1> QED BY <1>1, NotifierInvariant, PTL

-----------------------------------------------------------------------------
(* The notifier implements the event count.                                *)

\* What the queue of the live tickets is.
LEMMA TicketsType ==
  ASSUME IInv
  PROVE  /\ Tickets \in Seq(Waiters) /\ Len(Tickets) = m_state.pre /\ m_state.pre \in Nat
         /\ \A w \in Waiters : w \in Range(Tickets) => pc[w] \in TicketPCs
<1>1. /\ m_state.epoch \in Epochs /\ m_state.pre \in Nat
      /\ Total(rounds, Waiters) \in Nat /\ snap \in [Waiters -> Word]
      /\ InLine(m_state.epoch, m_state.pre, pc, snap, Total(rounds, Waiters))
  BY LineTypes DEF IInv, Lined
<1> DEFINE q == QueueOf(m_state.epoch, m_state.pre, pc, snap)
<1>2. /\ q \in Seq(Waiters) /\ Len(q) = m_state.pre
      /\ Range(q) = {w \in Waiters : Open(m_state.epoch, pc[w], snap[w])}
  BY <1>1, QueueIs
<1> HIDE DEF q
<1>3. \A w \in Waiters : w \in Range(q) => pc[w] \in TicketPCs
  BY <1>2 DEF Open
<1> QED BY <1>1, <1>2, <1>3, TicketsAre DEF q

\* The stack of the model is the chain from the top of the word.
LEMMA StackIs ==
  /\ Stack = Chain(next, m_state.top)
  /\ Stack' = Chain(next', m_state'.top)
BY DEF Stack, ChainFrom

\* There is a sleeper on the stack if and only if the word has a top.
LEMMA StackEmpty ==
  ASSUME IInv
  PROVE  Stack = <<>> <=> m_state.top = Nil
<1>1. Chained(next, m_state.top)
  BY DEF IInv, Linked
<1>2. m_state.top # Nil => m_state.top \in Waiters
  BY <1>1, ChainFacts
<1>3. m_state.top = Nil => Chain(next, m_state.top) = <<>>
  BY ChainOfNil
<1>4. m_state.top # Nil => Chain(next, m_state.top) # <<>>
  BY <1>1, <1>2, ChainStep
<1> QED BY <1>3, <1>4, StackIs

\* prepare_wait draws the youngest ticket.
LEMMA PrepareImplements ==
  ASSUME IInv, Typed', NEW w \in Waiters, PrepareWait(w)
  PROVE  EC!Prepare(w)
<1>1. pc[w] = "out"
  BY DEF PrepareWait, Goto
<1>2. Tickets' = Append(Tickets, w)
  BY PrepareLines
<1>3. Stack' = Stack
  <2>1. QuietSteps
    BY DEF QuietSteps
  <2> QED BY <2>1, QuietLinks, StackIs
<1>4. w \notin Range(Tickets)
  BY <1>1, TicketsType DEF TicketPCs
<1>5. w \notin Range(Stack)
  <2>1. ~Asleep(w)
    BY <1>1 DEF Asleep, Parking
  <2> QED BY <2>1, SleepersSleep, StackIs DEF OnChain
<1> QED BY <1>2, <1>3, <1>4, <1>5 DEF EC!Prepare, EC!Free, EC!Range, Range

\* cancel_wait settles the oldest ticket, and so does commit_wait, which sleeps.
LEMMA SettleImplements ==
  ASSUME IInv, Typed', NEW w \in Waiters,
         CancelSettle(w) \/ (CommitPush(w) /\ m_state = reg[w])
  PROVE  EC!Cancel(w) \/ EC!Commit(w)
<1>1. Tickets # <<>> /\ Head(Tickets) = w /\ Tickets' = Tail(Tickets)
  BY TurnSettles
<1>2. CASE CancelSettle(w)
  <2>1. QuietSteps
    BY <1>2 DEF QuietSteps
  <2>2. Stack' = Stack
    BY <2>1, QuietLinks, StackIs
  <2> QED BY <1>1, <2>2 DEF EC!Cancel
<1>3. CASE CommitPush(w) /\ m_state = reg[w]
  <2>1. Stack' = <<w>> \o Stack
    BY <1>3, PushLinks, StackIs
  <2> QED BY <1>1, <2>1 DEF EC!Commit
<1> QED BY <1>2, <1>3

\* notify_one and notify_n release the oldest tickets.
LEMMA ReleaseImplements ==
  ASSUME IInv, Typed', NEW n \in Notifiers, ReleaseTickets(n)
  PROVE  \E k \in 1..Len(Tickets) : EC!ReleaseTickets(k)
<1>1. Tickets \in Seq(Waiters) /\ Len(Tickets) = m_state.pre /\ m_state.pre \in Nat
  BY TicketsType
<1>2. PICK k \in 1..m_state.pre : Tickets' = Without(Tickets, k)
  BY ReleasedNow
<1>3. Tickets # <<>> /\ k \in 1..Len(Tickets)
  BY <1>1, <1>2, EmptySeq
<1>4. (IF k < Len(Tickets) THEN k ELSE Len(Tickets)) = k
  BY <1>1, <1>2
<1>5. Tickets' = SubSeq(Tickets, k + 1, Len(Tickets))
  BY <1>2, Zenon DEF Without
<1>6. Stack' = Stack
  <2>1. QuietSteps
    BY DEF QuietSteps
  <2> QED BY <2>1, QuietLinks, StackIs
<1>7. EC!ReleaseTickets(k)
  BY <1>3, <1>4, <1>5, <1>6, Zenon DEF EC!ReleaseTickets
<1> QED BY <1>3, <1>7

\* notify_all releases every ticket and takes every sleeper.
LEMMA TakeAllImplements ==
  ASSUME IInv, Typed', NEW n \in Notifiers, TakeAll(n)
  PROVE  EC!ReleaseAll
<1>1. Tickets \in Seq(Waiters) /\ Len(Tickets) = m_state.pre /\ m_state.pre \in Nat
  BY TicketsType
<1>2. m_state.pre > 0 \/ m_state.top # Nil
  BY DEF TakeAll
<1>3. Tickets # <<>> \/ Stack # <<>>
  BY <1>1, <1>2, StackEmpty, EmptySeq
<1>4. Tickets' = <<>>
  <2>1. Tickets' = Without(Tickets, Len(Tickets))
    BY <1>1, AllReleased
  <2>2. PICK q \in Seq(Waiters) : q = Tickets
    BY <1>1
  <2>3. SubSeq(q, Len(q) + 1, Len(q)) = <<>>
    BY SubSeqEmpty, LenProperties
  <2> QED BY <2>1, <2>2, <2>3 DEF Without
<1>5. Stack' = <<>>
  BY TakeAllLinks, StackIs
<1> QED BY <1>3, <1>4, <1>5 DEF EC!ReleaseAll, EC!AnyWaiter

\* A notification without tickets to release takes the newest sleeper.
LEMMA PopImplements ==
  ASSUME IInv, Typed', NEW n \in Notifiers, PopCas(n), m_state = reg[n]
  PROVE  EC!ReleaseSleeper
<1>1. Tickets = <<>>
  BY PopFinds, TicketsType, EmptySeq
<1>2. Tickets' = Tickets
  <2>1. OtherSteps
    BY DEF OtherSteps
  <2> QED BY <2>1, OthersSettleNone
<1>3. Stack # <<>> /\ Stack' = Tail(Stack)
  BY PopLinks, StackIs
<1> QED BY <1>1, <1>2, <1>3 DEF EC!ReleaseSleeper

\* The other steps are invisible to it.
LEMMA OthersStutter ==
  ASSUME IInv, Typed', OtherSteps
  PROVE  EC!ReleaseSleeper \/ UNCHANGED <<Tickets, Stack>>
<1>1. Tickets' = Tickets
  BY OthersSettleNone
<1>2. ASSUME QuietSteps PROVE Stack' = Stack
  BY <1>2, QuietLinks, StackIs
<1>3. ASSUME NEW n \in Notifiers,
             Unlink(n) \/ UnparkRead(n) \/ UnparkSignal(n) \/ UnparkWake(n)
      PROVE  Stack' = Stack
  BY <1>3, UnlinkLinks, ReadLinks, SignalLinks, WakeLinks, StackIs
<1>4. ASSUME NEW n \in Notifiers, PopCas(n), m_state = reg[n] PROVE EC!ReleaseSleeper
  BY <1>4, PopImplements
<1>5. \/ QuietSteps
      \/ \E n \in Notifiers :
           \/ Unlink(n) \/ UnparkRead(n) \/ UnparkSignal(n) \/ UnparkWake(n)
           \/ PopCas(n) /\ m_state = reg[n]
  BY Zenon DEF OtherSteps, QuietSteps
<1> QED BY <1>1, <1>2, <1>3, <1>4, <1>5

\* Every change of the state word is a step of the event count, and every other
\* step is none: the notifier's operations are its atomic operations.
THEOREM NotifierImplementsEventCount == Spec => ImplementsEventCount
<1>1. ASSUME Init PROVE EC!ECInit
  <2>1. IInv /\ m_state = Blank
    BY <1>1, InitIInv DEF Init
  <2>2. m_state.pre = 0 /\ m_state.top = Nil
    BY <2>1 DEF Blank
  <2>3. Tickets = <<>> /\ Stack = <<>>
    BY <2>1, <2>2, TicketsType, StackEmpty, EmptySeq
  <2> QED BY <2>3 DEF EC!ECInit
<1>2. ASSUME IInv, IInv', [Next]_vars PROVE [EC!ECNext]_(EC!ecVars)
  <2>1. Typed'
    BY <1>2 DEF IInv
  <2>2. \/ \E w \in Waiters : EC!Prepare(w) \/ EC!Cancel(w) \/ EC!Commit(w)
        \/ \E k \in 1..Len(Tickets) : EC!ReleaseTickets(k)
        \/ EC!ReleaseAll \/ EC!ReleaseSleeper
        \/ UNCHANGED <<Tickets, Stack>>
    BY <1>2, <2>1, TicketSteps, PrepareImplements, SettleImplements, ReleaseImplements,
       TakeAllImplements, OthersStutter
  <2> QED BY <2>2, Zenon DEF EC!ECNext, EC!ecVars
<1> QED BY <1>1, <1>2, NotifierInvariant, PTL DEF Spec, ImplementsEventCount, EC!ECSpec
===============================================================================
