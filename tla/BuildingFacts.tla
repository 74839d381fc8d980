---------------------------- MODULE BuildingFacts ----------------------------
(***************************************************************************)
(* What the proofs about graph building rest on.                           *)
(*                                                                         *)
(* The object pool, for any number of threads, buckets and slabs: every    *)
(* block has one owner, by an invariant of the pool's own.  Then what the  *)
(* operators of WorkEdges do to Works and to sequences of blocks, for any  *)
(* Works: edges put in and taken out, requests kept in order, targets      *)
(* chosen, the loops of a search and of a clearing, and when a digraph has *)
(* a path.  At last the inductive invariant IInv of the graphs, and what   *)
(* of it the step of one thread cannot touch in another.                   *)
(***************************************************************************)
EXTENDS GraphBuilding, SequenceFacts, FiniteSetTheorems, TLAPS

-----------------------------------------------------------------------------
(* The object pool.                                                        *)
(*                                                                         *)
(* The inductive invariant.  OneOwner alone is not inductive: that an      *)
(* exchange which succeeds takes the block it read the link of rests on    *)
(* the tag, which has grown since whenever the head is another one.        *)

\* Heads of the free lists.
Heads == [top : Blocks \cup {None}, tag : Nat]

\* Where a call stands that takes a block, and one that gives blocks back.
Popping == {"load", "link", "take", "lock", "slab"}
Pushing == {"push", "publish"}

\* What a call keeps.
CallRecords ==
  [pc : {"idle", "got"} \cup Popping \cup Pushing,
   bucket : Buckets \cup {None}, locked : BOOLEAN, seen : Heads,
   link : Blocks \cup {None}, block : Blocks \cup {None}, chain : Seq(Blocks)]

\* What a call has in hand, by where it is.
Fits(c) ==
  /\ c.pc \in Popping \cup Pushing => c.bucket \in Buckets
  /\ c.pc \in {"idle"} \cup Popping => c.block = None
  /\ c.pc = "got" => c.block # None
  /\ c.pc \notin Pushing => c.chain = <<>>
  /\ c.pc \in Pushing =>
       /\ c.chain # <<>>
       /\ IsInjective(c.chain)
       /\ c.block \notin Range(c.chain)
       /\ \A b \in Range(c.chain) : Home(b) = c.bucket
  /\ c.pc \in {"link", "take"} => c.seen.top # None

\* What a call knows of the heads hd and the links nx: a chain is threaded as
\* far as its links are set, a tag that has not grown vouches for the whole
\* head, and the link read under it is still that of the top.
Knows(c, hd, nx) ==
  /\ c.pc \in Pushing =>
       \A i \in 1 .. Len(c.chain) - 1 : nx[c.chain[i]] = c.chain[i + 1]
  /\ c.pc = "publish" => nx[c.chain[Len(c.chain)]] = c.seen.top
  /\ c.pc \in {"link", "take"} =>
       /\ c.seen.tag <= hd[c.bucket].tag
       /\ c.seen.tag = hd[c.bucket].tag => c.seen = hd[c.bucket]
  /\ c.pc = "take" => (c.seen = hd[c.bucket] => c.link = nx[c.seen.top])

\* What it knows of the pool as it is.
Follows(c) == Knows(c, head, next)

\* The types.
PoolTyped ==
  /\ head \in [Buckets -> Heads]
  /\ next \in [Blocks -> Blocks \cup {None}]
  /\ slabs \in [Buckets -> Nat]
  /\ call \in [Threads -> CallRecords]
  /\ live \subseteq Blocks
  /\ free \in [Buckets -> Seq(Blocks)]

\* The invariant of the pool.
PoolIInv ==
  /\ PoolTyped
  /\ \A t \in Threads : Fits(call[t]) /\ Follows(call[t])
  /\ FreeIsLinked
  /\ Partitioned

-----------------------------------------------------------------------------
(* Slabs.                                                                  *)

\* No block is twice in the slabs (PoolAssumption).
LEMMA BlocksApart ==
  \A k, l \in Buckets : \A i \in DOMAIN Slabs[k], j \in DOMAIN Slabs[l] :
    \A m \in DOMAIN Slabs[k][i], n \in DOMAIN Slabs[l][j] :
      Slabs[k][i][m] = Slabs[l][j][n] => k = l /\ i = j /\ m = n
  BY PoolAssumption

\* A slab is a chain of distinct blocks of its bucket.
LEMMA SlabIsChain ==
  ASSUME NEW k \in Buckets, NEW i \in DOMAIN Slabs[k]
  PROVE  /\ Slabs[k][i] \in Seq(Blocks) /\ Slabs[k][i] # <<>>
         /\ IsInjective(Slabs[k][i])
         /\ \A b \in Range(Slabs[k][i]) : b \in Blocks /\ Home(b) = k
<1> DEFINE s == Slabs[k][i]
<1>1. s \in Seq(Blocks) /\ s # <<>>
  <2>1. Slabs[k] \in Seq(Seq(Blocks)) /\ s # <<>>
    BY PoolAssumption
  <2> QED BY <2>1, ElementOfSeq, LenProperties
<1>2. IsInjective(s)
  BY PoolAssumption DEF IsInjective
<1>3. ASSUME NEW b \in Range(s) PROVE b \in Blocks /\ Home(b) = k
  <2>1. PICK m \in DOMAIN s : b = s[m]
    BY <1>3 DEF Range
  <2>2. ASSUME NEW l \in Buckets, NEW j \in DOMAIN Slabs[l], b \in Range(Slabs[l][j])
        PROVE  l = k
    <3>1. PICK n \in DOMAIN Slabs[l][j] : b = Slabs[l][j][n]
      BY <2>2 DEF Range
    <3>2. Slabs[k][i][m] = Slabs[l][j][n]
      BY <2>1, <3>1
    <3> QED BY <2>1, <2>2, <3>1, <3>2, BlocksApart
  <2>3. Home(b) = k
    BY <1>3, <2>2 DEF Home
  <2> QED BY <1>1, <1>3, <2>3, RangeOfSeq
<1> QED BY <1>1, <1>2, <1>3

\* No block is in two slabs.
LEMMA SlabsApart ==
  ASSUME NEW k \in Buckets, NEW i \in DOMAIN Slabs[k],
         NEW l \in Buckets, NEW j \in DOMAIN Slabs[l],
         NEW b, b \in Range(Slabs[k][i]), b \in Range(Slabs[l][j])
  PROVE  k = l /\ i = j
<1>1. PICK m \in DOMAIN Slabs[k][i] : b = Slabs[k][i][m]
  BY DEF Range
<1>2. PICK n \in DOMAIN Slabs[l][j] : b = Slabs[l][j][n]
  BY DEF Range
<1>3. Slabs[k][i][m] = Slabs[l][j][n]
  BY <1>1, <1>2
<1> QED BY <1>1, <1>2, <1>3, BlocksApart

\* The links a new slab gets.
LEMMA LinkedLinks ==
  ASSUME NEW s \in Seq(Blocks), IsInjective(s), NEW i \in 1 .. Len(s)
  PROVE  /\ s[i] \in Range(s)
         /\ Linked(s)[s[i]] = IF i < Len(s) THEN s[i + 1] ELSE None
<1>1. DOMAIN s = 1 .. Len(s)
  BY LenProperties
<1>2. s[i] \in Range(s)
  BY <1>1 DEF Range
<1>3. \A j \in DOMAIN s : s[j] = s[i] => j = i
  BY <1>1 DEF IsInjective
<1>4. (CHOOSE j \in DOMAIN s : s[j] = s[i]) = i
  BY <1>1, <1>3
<1>5. Linked(s)[s[i]] =
        LET m == CHOOSE j \in DOMAIN s : s[j] = s[i]
        IN  IF m < Len(s) THEN s[m + 1] ELSE None
  BY <1>2 DEF Linked
<1> QED BY <1>2, <1>4, <1>5

\* The link of a block of s is a block or None.
LEMMA LinkedType ==
  ASSUME NEW s \in Seq(Blocks), IsInjective(s), NEW b \in Range(s)
  PROVE  Linked(s)[b] \in Blocks \cup {None}
<1>1. DOMAIN s = 1 .. Len(s) /\ Len(s) \in Nat
  BY LenProperties
<1>2. PICK i \in 1 .. Len(s) : b = s[i]
  BY <1>1 DEF Range
<1>3. Linked(s)[b] = IF i < Len(s) THEN s[i + 1] ELSE None
  BY <1>2, LinkedLinks
<1>4. i < Len(s) => s[i + 1] \in Blocks
  BY <1>1, ElementOfSeq
<1> QED BY <1>3, <1>4
-----------------------------------------------------------------------------
(* Steps that move no block.                                               *)

\* The blocks of a call.
HeldBy(c) == Range(c.chain) \cup ({c.block} \ {None})

\* What nobody has moved is where it was.
LEMMA PartitionKept ==
  ASSUME Partitioned, UNCHANGED <<slabs, live, free>>,
         \A t \in Threads : Held(t)' = Held(t)
  PROVE  Partitioned'
<1>1. \A k \in Buckets : Free(k)' = Free(k) /\ Raw(k)' = Raw(k)
  BY DEF Free, Raw
<1> QED BY <1>1 DEF Partitioned

\* A thread goes on with the blocks it has.
LEMMA QuietStep ==
  ASSUME PoolIInv, NEW t \in Threads, NEW d \in CallRecords, Fits(d), Follows(d),
         HeldBy(d) = HeldBy(call[t]), call' = [call EXCEPT ![t] = d],
         UNCHANGED <<head, next, slabs, live, free>>
  PROVE  PoolIInv'
<1>1. \A u \in Threads : call'[u] = IF u = t THEN d ELSE call[u]
  BY DEF PoolIInv, PoolTyped
<1>2. PoolTyped'
  BY DEF PoolIInv, PoolTyped
<1>3. \A u \in Threads : Fits(call[u])' /\ Follows(call[u])'
  BY <1>1 DEF PoolIInv, Follows
<1>4. FreeIsLinked'
  BY DEF PoolIInv, FreeIsLinked
<1>5. Partitioned'
  BY <1>1, PartitionKept DEF PoolIInv, Held, HeldBy
<1> QED BY <1>2, <1>3, <1>4, <1>5 DEF PoolIInv

\* Idle threads have nothing.
LEMMA IdleFits ==
  Idle \in CallRecords /\ Fits(Idle) /\ Follows(Idle) /\ HeldBy(Idle) = {}
<1>1. Idle \in CallRecords
  BY DEF Idle, CallRecords, Heads, NoHead
<1>2. Range(<<>>) = {}
  BY RangeOfEmpty
<1> QED BY <1>1, <1>2 DEF Idle, Fits, Follows, Knows, HeldBy, Popping, Pushing
\* What is known of each call when a step begins.
LEMMA CallFacts ==
  ASSUME PoolIInv, NEW t \in Threads
  PROVE  /\ call[t] \in CallRecords
         /\ Fits(call[t]) /\ Follows(call[t])
         /\ \A k \in Buckets : head[k] \in Heads
  BY DEF PoolIInv, PoolTyped

\* create picks a bucket.
LEMMA CreateIInv ==
  ASSUME PoolIInv, NEW t \in Threads, Create(t)
  PROVE  PoolIInv'
<1>1. PICK k \in Buckets :
        call' = [call EXCEPT ![t] = [Idle EXCEPT !.pc = "load", !.bucket = k]]
  BY DEF Create
<1> DEFINE d == [Idle EXCEPT !.pc = "load", !.bucket = k]
<1>2. d \in CallRecords /\ Fits(d) /\ Follows(d) /\ HeldBy(d) = {}
  <2>1. Range(<<>>) = {}
    BY RangeOfEmpty
  <2>2. d \in CallRecords
    BY <1>1, IdleFits DEF CallRecords, Popping
  <2>3. d.pc = "load" /\ d.bucket = k /\ d.chain = <<>> /\ d.block = None
    BY DEF Idle
  <2> QED BY <1>1, <2>1, <2>2, <2>3 DEF Fits, Follows, Knows, HeldBy, Popping, Pushing
<1>3. HeldBy(call[t]) = {}
  BY IdleFits DEF Create
<1> QED BY <1>1, <1>2, <1>3, QuietStep DEF Create

\* A head that was just read leads to a state that fits.
LEMMA SeenFits ==
  ASSUME PoolIInv, NEW c \in CallRecords, Fits(c), c.pc \in Popping
  PROVE  LET d == Seen(c, head[c.bucket])
         IN  d \in CallRecords /\ Fits(d) /\ Follows(d) /\ HeldBy(d) = HeldBy(c)
<1> DEFINE h == head[c.bucket]
           d == Seen(c, h)
<1>1. c.bucket \in Buckets /\ h \in Heads
  BY DEF Fits, PoolIInv, PoolTyped
<1>2. CASE h.top # None
  <2>1. d = [c EXCEPT !.pc = "link", !.seen = h]
    BY <1>2 DEF Seen
  <2>2. d \in CallRecords /\ d.pc = "link" /\ d.seen = h /\ d.bucket = c.bucket
        /\ d.chain = c.chain /\ d.block = c.block
    BY <1>1, <2>1 DEF CallRecords, Popping
  <2>3. Fits(d) /\ HeldBy(d) = HeldBy(c)
    BY <1>1, <1>2, <2>2 DEF Fits, HeldBy, Popping, Pushing
  <2>4. Follows(d)
    BY <1>1, <2>2 DEF Follows, Knows, Pushing, Heads
  <2> QED BY <2>2, <2>3, <2>4
<1>3. CASE h.top = None
  <2> DEFINE p == IF c.locked THEN "slab" ELSE "lock"
  <2>1. p \in {"slab", "lock"} /\ NoHead \in Heads
    BY DEF Heads, NoHead
  <2>2. d = [c EXCEPT !.pc = p, !.seen = NoHead]
    BY <1>3 DEF Seen
  <2> HIDE DEF p
  <2>3. d \in CallRecords /\ d.pc = p /\ d.bucket = c.bucket
        /\ d.chain = c.chain /\ d.block = c.block
    BY <2>1, <2>2 DEF CallRecords, Popping
  <2>4. Fits(d) /\ HeldBy(d) = HeldBy(c)
    BY <1>1, <2>1, <2>3 DEF Fits, HeldBy, Popping, Pushing
  <2>5. Follows(d)
    BY <2>1, <2>3 DEF Follows, Knows, Pushing
  <2> QED BY <2>3, <2>4, <2>5
<1> QED BY <1>2, <1>3

\* Loading the head of a bucket keeps the invariant.
LEMMA LoadIInv ==
  ASSUME PoolIInv, NEW t \in Threads, Load(t)
  PROVE  PoolIInv'
<1>1. call[t] \in CallRecords /\ Fits(call[t]) /\ call[t].pc \in Popping
  BY CallFacts DEF Load, Popping
<1>2. call' = [call EXCEPT ![t] = Seen(call[t], head[call[t].bucket])]
  BY DEF Load
<1> QED BY <1>1, <1>2, SeenFits, QuietStep DEF Load

\* The link of the block on top is read: it is still right if the head is
\* still the same, tag included.
LEMMA ReadLinkIInv ==
  ASSUME PoolIInv, NEW t \in Threads, ReadLink(t)
  PROVE  PoolIInv'
<1> DEFINE c == call[t]
           d == [c EXCEPT !.pc = "take", !.link = next[c.seen.top]]
<1>1. c \in CallRecords /\ Fits(c) /\ Follows(c) /\ c.pc = "link"
  BY CallFacts DEF ReadLink
<1>2. c.seen.top \in Blocks /\ c.bucket \in Buckets
  BY <1>1 DEF Fits, CallRecords, Heads, Popping
<1>3. next[c.seen.top] \in Blocks \cup {None}
  BY <1>2 DEF PoolIInv, PoolTyped
<1>4. call' = [call EXCEPT ![t] = d]
  BY <1>1 DEF ReadLink, PoolIInv, PoolTyped
<1>5. d \in CallRecords /\ d.pc = "take" /\ d.seen = c.seen /\ d.bucket = c.bucket
      /\ d.link = next[c.seen.top] /\ d.chain = c.chain /\ d.block = c.block
  BY <1>1, <1>3 DEF CallRecords, Popping
<1>6. Fits(d) /\ HeldBy(d) = HeldBy(c)
  BY <1>1, <1>2, <1>5 DEF Fits, HeldBy, Popping, Pushing
<1>7. Follows(d)
  BY <1>1, <1>5 DEF Follows, Knows, Pushing
<1> QED BY <1>4, <1>5, <1>6, <1>7, QuietStep DEF ReadLink

\* Taking the lock of a bucket keeps the invariant.
LEMMA LockBucketIInv ==
  ASSUME PoolIInv, NEW t \in Threads, LockBucket(t)
  PROVE  PoolIInv'
<1> DEFINE c == call[t]
           d == [c EXCEPT !.pc = "load", !.locked = TRUE]
<1>1. c \in CallRecords /\ Fits(c) /\ c.pc = "lock"
  BY CallFacts DEF LockBucket
<1>2. call' = [call EXCEPT ![t] = d]
  BY <1>1 DEF LockBucket, PoolIInv, PoolTyped
<1>3. d \in CallRecords /\ d.pc = "load" /\ d.bucket = c.bucket
      /\ d.chain = c.chain /\ d.block = c.block
  BY <1>1 DEF CallRecords, Popping
<1>4. Fits(d) /\ HeldBy(d) = HeldBy(c) /\ Follows(d)
  BY <1>1, <1>3 DEF Fits, Follows, Knows, HeldBy, Popping, Pushing
<1> QED BY <1>2, <1>3, <1>4, QuietStep DEF LockBucket

\* A refill that gets no memory keeps the invariant.
LEMMA NoMemoryIInv ==
  ASSUME PoolIInv, NEW t \in Threads, NoMemory(t)
  PROVE  PoolIInv'
<1>1. call[t] \in CallRecords /\ Fits(call[t]) /\ call[t].pc = "slab"
  BY CallFacts DEF NoMemory
<1>2. HeldBy(call[t]) = {}
  BY <1>1, RangeOfEmpty DEF Fits, HeldBy, Popping, Pushing
<1> QED BY <1>2, IdleFits, QuietStep DEF NoMemory
-----------------------------------------------------------------------------
(* Objects come and go.                                                    *)

\* A block that goes back has a bucket to go to.
LEMMA HomeIsBucket ==
  ASSUME NEW b \in Blocks
  PROVE  Home(b) \in Buckets
<1>1. PICK k \in Buckets : b \in UNION {Range(Slabs[k][i]) : i \in DOMAIN Slabs[k]}
  BY DEF Blocks
<1>2. PICK i \in DOMAIN Slabs[k] : b \in Range(Slabs[k][i])
  BY <1>1
<1>3. Home(b) = k
  BY <1>1, <1>2, SlabIsChain
<1> QED BY <1>1, <1>3

\* The call that gives b back starts well-formed and holds only b.
LEMMA RecycleFits ==
  ASSUME NEW b \in Blocks
  PROVE  LET d == [Idle EXCEPT !.pc = "push", !.bucket = Home(b), !.chain = <<b>>]
         IN  d \in CallRecords /\ Fits(d) /\ Follows(d) /\ HeldBy(d) = {b}
<1> DEFINE d == [Idle EXCEPT !.pc = "push", !.bucket = Home(b), !.chain = <<b>>]
<1>1. /\ <<b>> \in Seq(Blocks) /\ Len(<<b>>) = 1 /\ <<b>> # <<>>
      /\ Range(<<b>>) = {b} /\ IsInjective(<<b>>)
  BY RangeOfSingleton
<1>2. d \in CallRecords
  BY <1>1, IdleFits, HomeIsBucket DEF CallRecords, Pushing
<1>3. d.pc = "push" /\ d.bucket = Home(b) /\ d.chain = <<b>> /\ d.block = None
  BY DEF Idle
<1>4. None # b
  BY PoolAssumption
<1>5. Fits(d)
  BY <1>1, <1>3, <1>4, HomeIsBucket DEF Fits, Popping, Pushing
<1>6. Follows(d)
  BY <1>1, <1>3 DEF Follows, Knows
<1>7. HeldBy(d) = {b}
  BY <1>1, <1>3 DEF HeldBy
<1> QED BY <1>2, <1>5, <1>6, <1>7

\* A constructor throws: the block is on its way back in the same hands.
LEMMA ConstructThrowsIInv ==
  ASSUME PoolIInv, NEW t \in Threads, ConstructThrows(t)
  PROVE  PoolIInv'
<1> DEFINE b == call[t].block
<1>1. call[t] \in CallRecords /\ Fits(call[t]) /\ call[t].pc = "got"
  BY CallFacts DEF ConstructThrows
<1>2. b \in Blocks /\ HeldBy(call[t]) = {b}
  <2>1. b \in Blocks /\ b # None /\ call[t].chain = <<>>
    BY <1>1 DEF Fits, CallRecords, Popping, Pushing
  <2> QED BY <2>1, RangeOfEmpty DEF HeldBy
<1> QED BY <1>2, RecycleFits, QuietStep DEF ConstructThrows, Recycle

\* The effect of a step on one thread's blocks and the objects, when the
\* stacks and the links stay.
LEMMA HandsAndObjects ==
  ASSUME PoolIInv, NEW t \in Threads, NEW d \in CallRecords, Fits(d), Follows(d),
         call' = [call EXCEPT ![t] = d],
         UNCHANGED <<head, next, slabs, free>>,
         live' \subseteq Blocks,
         live' \cup HeldBy(d) = live \cup HeldBy(call[t]),
         live' \cap HeldBy(d) = {}
  PROVE  PoolIInv'
<1>1. \A u \in Threads : call'[u] = IF u = t THEN d ELSE call[u]
  BY DEF PoolIInv, PoolTyped
<1>2. PoolTyped'
  BY DEF PoolIInv, PoolTyped
<1>3. \A u \in Threads : Fits(call[u])' /\ Follows(call[u])'
  BY <1>1 DEF PoolIInv, Follows
<1>4. FreeIsLinked'
  BY DEF PoolIInv, FreeIsLinked
<1>5. Partitioned'
  <2>1. /\ Held(t)' = HeldBy(d) /\ Held(t) = HeldBy(call[t])
        /\ \A u \in Threads : u # t => Held(u)' = Held(u)
        /\ \A k \in Buckets : Free(k)' = Free(k) /\ Raw(k)' = Raw(k)
    BY <1>1 DEF Held, HeldBy, Free, Raw
  <2>2. Partitioned
    BY DEF PoolIInv
  <2>3. \A b \in Blocks :
          \/ b \in live'
          \/ \E u \in Threads : b \in Held(u)'
          \/ \E k \in Buckets : b \in Free(k)' \cup Raw(k)'
    BY <2>1, <2>2 DEF Partitioned
  <2>4. \A u \in Threads : Held(u)' \cap live' = {}
    BY <2>1, <2>2 DEF Partitioned
  <2>5. \A u, v \in Threads : u # v => Held(u)' \cap Held(v)' = {}
    BY <2>1, <2>2 DEF Partitioned
  <2>6. ASSUME NEW k \in Buckets
        PROVE  /\ Free(k)' \cap live' = {}
               /\ Raw(k)' \cap (live' \cup Free(k)') = {}
               /\ \A u \in Threads : Held(u)' \cap (Free(k)' \cup Raw(k)') = {}
               /\ IsInjective(free'[k])
               /\ \A b \in Free(k)' : Home(b) = k
    BY <2>1, <2>2 DEF Partitioned
  <2> QED BY <2>3, <2>4, <2>5, <2>6 DEF Partitioned
<1> QED BY <1>2, <1>3, <1>4, <1>5 DEF PoolIInv

\* The object is there, and its block is no longer in the thread's hands.
LEMMA ConstructIInv ==
  ASSUME PoolIInv, NEW t \in Threads, Construct(t)
  PROVE  PoolIInv'
<1> DEFINE b == call[t].block
<1>1. call[t] \in CallRecords /\ Fits(call[t]) /\ call[t].pc = "got"
  BY CallFacts DEF Construct
<1>2. b \in Blocks /\ HeldBy(call[t]) = {b}
  <2>1. b \in Blocks /\ b # None /\ call[t].chain = <<>>
    BY <1>1 DEF Fits, CallRecords, Popping, Pushing
  <2> QED BY <2>1, RangeOfEmpty DEF HeldBy
<1>3. live' \subseteq Blocks /\ live' = live \cup {b}
  BY <1>2 DEF Construct, PoolIInv, PoolTyped
<1> QED BY <1>2, <1>3, IdleFits, HandsAndObjects DEF Construct

\* The object is gone, and its block is on its way back.
LEMMA DestroyIInv ==
  ASSUME PoolIInv, NEW t \in Threads, NEW b \in Blocks, Destroy(t, b)
  PROVE  PoolIInv'
<1> DEFINE d == [Idle EXCEPT !.pc = "push", !.bucket = Home(b), !.chain = <<b>>]
<1>1. HeldBy(call[t]) = {}
  BY IdleFits DEF Destroy
<1>2. live' = live \ {b} /\ b \in live /\ live' \subseteq Blocks
  BY DEF Destroy, PoolIInv, PoolTyped
<1>3. d \in CallRecords /\ Fits(d) /\ Follows(d) /\ HeldBy(d) = {b}
  BY RecycleFits
<1>4. call' = [call EXCEPT ![t] = d] /\ UNCHANGED <<head, next, slabs, free>>
  BY DEF Destroy, Recycle
<1> HIDE DEF d
<1>5. live' \cup HeldBy(d) = live \cup HeldBy(call[t]) /\ live' \cap HeldBy(d) = {}
  BY <1>1, <1>2, <1>3
<1> QED BY <1>2, <1>3, <1>4, <1>5, HandsAndObjects
-----------------------------------------------------------------------------
(* A block is taken from the top of a stack.                               *)

\* A head that has moved on is not taken for the one seen before.
LEMMA HeadMovesOn ==
  ASSUME PoolIInv, NEW u \in Threads, call'[u] = call[u],
         NEW k \in Buckets, NEW h \in Heads, h.tag = head[k].tag + 1,
         head' = [head EXCEPT ![k] = h], next' = next
  PROVE  Fits(call[u])' /\ Follows(call[u])'
<1> DEFINE c == call[u]
<1>1. c \in CallRecords /\ Fits(c) /\ Follows(c)
  BY CallFacts
<1>2. Fits(call[u])'
  BY <1>1 DEF Fits
<1>3. \A l \in Buckets : head[l] \in Heads /\ head'[l] = IF l = k THEN h ELSE head[l]
  BY DEF PoolIInv, PoolTyped
<1>4. ASSUME c.pc \in {"link", "take"}
      PROVE  /\ c.seen.tag <= head'[c.bucket].tag
             /\ c.seen.tag = head'[c.bucket].tag => c.seen = head'[c.bucket]
             /\ c.pc = "take" => (c.seen = head'[c.bucket] => c.link = next[c.seen.top])
  <2>1. c.bucket \in Buckets /\ c.seen \in Heads /\ c.seen.tag \in Nat
    BY <1>1, <1>4 DEF Fits, Popping, CallRecords, Heads
  <2>2. CASE c.bucket = k
    <3>1. c.seen.tag <= head[k].tag /\ head[k].tag \in Nat
      BY <1>1, <1>3, <1>4, <2>2 DEF Follows, Knows, Heads
    <3>2. head'[k].tag = head[k].tag + 1
      BY <1>3
    <3>3. c.seen.tag < head'[k].tag
      BY <2>1, <3>1, <3>2
    <3> QED BY <2>1, <2>2, <3>1, <3>2, <3>3
  <2>3. CASE c.bucket # k
    <3>1. head'[c.bucket] = head[c.bucket]
      BY <1>3, <2>1, <2>3
    <3> QED BY <1>1, <1>4, <3>1 DEF Follows, Knows
  <2> QED BY <2>2, <2>3
<1>5. Follows(call[u])'
  BY <1>1, <1>4 DEF Follows, Knows
<1> QED BY <1>2, <1>5

\* A chain, its first block and the one behind it.
LEMMA SecondOfChain ==
  ASSUME NEW s \in Seq(Blocks), s # <<>>
  PROVE  /\ Len(s) \in Nat \ {0} /\ DOMAIN s = 1 .. Len(s)
         /\ Top(s) = s[1] /\ Head(s) = s[1] /\ s[1] \in Blocks
         /\ Tail(s) \in Seq(Blocks) /\ Len(Tail(s)) = Len(s) - 1
         /\ \A i \in 1 .. Len(s) - 1 : Tail(s)[i] = s[i + 1]
         /\ Top(Tail(s)) = IF 1 < Len(s) THEN s[2] ELSE None
<1>1. Len(s) \in Nat \ {0} /\ DOMAIN s = 1 .. Len(s)
  BY EmptySeq, LenProperties
<1>2. Head(s) = s[1]
  OBVIOUS
<1>3. s[1] \in Blocks
  BY <1>1, ElementOfSeq
<1> DEFINE r == Tail(s)
<1>4. /\ r \in Seq(Blocks) /\ Len(r) = Len(s) - 1
      /\ \A i \in 1 .. Len(r) : r[i] = s[i + 1]
  BY HeadTailProperties
<1>5. Top(s) = s[1]
  BY <1>2 DEF Top
<1> HIDE DEF r
<1>6. ASSUME Len(s) = 1 PROVE Top(r) = None
  <2>1. r = <<>>
    BY <1>4, <1>6, EmptySeq
  <2> QED BY <2>1 DEF Top
<1>7. ASSUME 1 < Len(s) PROVE Top(r) = s[2]
  <2>1. r # <<>>
    BY <1>1, <1>4, <1>7, EmptySeq
  <2>2. Head(r) = r[1]
    BY <1>4, <2>1
  <2>3. r[1] = s[2]
    BY <1>1, <1>4, <1>7
  <2> QED BY <2>1, <2>2, <2>3 DEF Top
<1>8. Top(r) = IF 1 < Len(s) THEN s[2] ELSE None
  BY <1>1, <1>6, <1>7
<1> QED BY <1>1, <1>2, <1>3, <1>4, <1>5, <1>8 DEF r

\* What the top of a stack leads to.
LEMMA TopOfStack ==
  ASSUME PoolIInv, NEW k \in Buckets, head[k].top # None
  PROVE  /\ free[k] \in Seq(Blocks) /\ free[k] # <<>> /\ IsInjective(free[k])
         /\ head[k].top = Head(free[k])
         /\ next[head[k].top] = Top(Tail(free[k]))
<1> DEFINE f == free[k]
<1>1. f \in Seq(Blocks) /\ IsInjective(f) /\ head[k].top = Top(f)
  BY DEF PoolIInv, PoolTyped, Partitioned, FreeIsLinked
<1>2. f # <<>> /\ head[k].top = Head(f)
  BY <1>1 DEF Top
<1>3. 1 \in DOMAIN f /\ Head(f) = f[1]
  BY <1>1, <1>2, SecondOfChain
<1>4. next[f[1]] = IF 1 < Len(f) THEN f[2] ELSE None
  <2>1. \A i \in DOMAIN f : next[f[i]] = IF i < Len(f) THEN f[i + 1] ELSE None
    BY DEF PoolIInv, FreeIsLinked
  <2> QED BY <1>3, <2>1
<1>5. next[f[1]] = Top(Tail(f))
  BY <1>1, <1>2, <1>4, SecondOfChain
<1> QED BY <1>1, <1>2, <1>3, <1>5
\* The blocks of slabs to come belong to their bucket, too.
LEMMA RawIsHome ==
  ASSUME PoolIInv, NEW k \in Buckets, NEW b \in Raw(k)
  PROVE  Home(b) = k /\ b \in Blocks
<1>1. PICK i \in slabs[k] + 1 .. Len(Slabs[k]) : b \in Range(Slabs[k][i])
  BY DEF Raw
<1>2. slabs[k] \in Nat /\ Slabs[k] \in Seq(Seq(Blocks))
  BY PoolAssumption DEF PoolIInv, PoolTyped
<1>3. i \in DOMAIN Slabs[k]
  BY <1>1, <1>2, LenProperties
<1> QED BY <1>1, <1>3, SlabIsChain
\* The effect of a step on one thread's blocks and one stack.
LEMMA HandsAndStack ==
  ASSUME PoolIInv, NEW t \in Threads, NEW d \in CallRecords,
         \A u \in Threads : call'[u] = IF u = t THEN d ELSE call[u],
         NEW k \in Buckets, NEW f \in Seq(Blocks),
         \A l \in Buckets : free'[l] = IF l = k THEN f ELSE free[l],
         UNCHANGED <<slabs, live>>,
         IsInjective(f), \A b \in Range(f) : Home(b) = k,
         Range(f) \cup HeldBy(d) = Range(free[k]) \cup HeldBy(call[t]),
         Range(f) \cap HeldBy(d) = {}
  PROVE  Partitioned'
<1>1. /\ Held(t)' = HeldBy(d) /\ Held(t) = HeldBy(call[t])
      /\ \A u \in Threads : u # t => Held(u)' = Held(u)
  BY DEF Held, HeldBy, PoolIInv, PoolTyped
<1>2. /\ Free(k)' = Range(f) /\ Free(k) = Range(free[k]) /\ free'[k] = f
      /\ \A l \in Buckets : l # k => Free(l)' = Free(l) /\ free'[l] = free[l]
      /\ \A l \in Buckets : Raw(l)' = Raw(l)
  BY DEF Free, Raw, PoolIInv, PoolTyped
<1>3. Partitioned
  BY DEF PoolIInv
<1>4. \A b \in Blocks :
        \/ b \in live'
        \/ \E u \in Threads : b \in Held(u)'
        \/ \E l \in Buckets : b \in Free(l)' \cup Raw(l)'
  <2> SUFFICES ASSUME NEW b \in Blocks
               PROVE  \/ b \in live'
                      \/ \E u \in Threads : b \in Held(u)'
                      \/ \E l \in Buckets : b \in Free(l)' \cup Raw(l)'
    OBVIOUS
  <2>1. CASE b \in Range(free[k]) \cup HeldBy(call[t])
    BY <1>1, <1>2, <2>1
  <2>2. CASE b \notin Range(free[k]) \cup HeldBy(call[t])
    BY <1>1, <1>2, <1>3, <2>2 DEF Partitioned
  <2> QED BY <2>1, <2>2
<1>5. \A l \in Buckets : \A b \in Free(l) : b \in Free(k) => l = k
  BY <1>3 DEF Partitioned
<1>6. \A u \in Threads : Held(u)' \cap live' = {}
  BY <1>1, <1>2, <1>3 DEF Partitioned
<1>7. \A u, v \in Threads : u # v => Held(u)' \cap Held(v)' = {}
  BY <1>1, <1>2, <1>3 DEF Partitioned
<1>8. ASSUME NEW l \in Buckets
      PROVE  /\ Free(l)' \cap live' = {}
             /\ Raw(l)' \cap (live' \cup Free(l)') = {}
             /\ \A u \in Threads : Held(u)' \cap (Free(l)' \cup Raw(l)') = {}
             /\ IsInjective(free'[l])
             /\ \A b \in Free(l)' : Home(b) = l
  <2>1. CASE l = k
    <3>1. Free(l)' \cap live' = {}
      BY <1>1, <1>2, <1>3, <2>1 DEF Partitioned
    <3>2. Raw(l)' \cap (live' \cup Free(l)') = {}
      BY <1>1, <1>2, <1>3, <2>1 DEF Partitioned
    <3>3. \A u \in Threads : Held(u)' \cap (Free(l)' \cup Raw(l)') = {}
      BY <1>1, <1>2, <1>3, <2>1 DEF Partitioned
    <3> QED BY <1>2, <2>1, <3>1, <3>2, <3>3
  <2>2. CASE l # k
    <3>1. Held(t)' \cap (Free(l)' \cup Raw(l)') = {}
      <4>1. Held(t)' \subseteq Free(k) \cup Held(t)
        BY <1>1, <1>2
      <4>2. Free(k) \cap Free(l) = {}
        BY <1>5, <2>2
      <4>3. Free(k) \cap Raw(l) = {}
        BY <1>3, <2>2, RawIsHome DEF Partitioned
      <4> QED BY <1>2, <1>3, <2>2, <4>1, <4>2, <4>3 DEF Partitioned
    <3> QED BY <1>1, <1>2, <1>3, <2>2, <3>1 DEF Partitioned
  <2> QED BY <2>1, <2>2
<1> QED BY <1>4, <1>6, <1>7, <1>8 DEF Partitioned

\* The exchange of a pop succeeds: the block on top is the thread's.
LEMMA TakeSucceeds ==
  ASSUME PoolIInv, NEW t \in Threads, NEW c, c = call[t], c.pc = "take",
         NEW k, k = c.bucket, head[k] = c.seen,
         head' = [head EXCEPT ![k] = [top |-> c.link, tag |-> c.seen.tag + 1]],
         call' = [call EXCEPT ![t] = [Idle EXCEPT !.pc = "got", !.block = c.seen.top]],
         free' = [free EXCEPT ![k] = IF @ = <<>> THEN @ ELSE Tail(@)],
         UNCHANGED <<next, slabs, live>>
  PROVE  PoolIInv'
<1> DEFINE b == c.seen.top
           d == [Idle EXCEPT !.pc = "got", !.block = b]
           f == free[k]
           r == Tail(f)
           h == [top |-> c.link, tag |-> c.seen.tag + 1]
<1>1. c \in CallRecords /\ Fits(c) /\ Follows(c)
  BY CallFacts
<1>2. k \in Buckets /\ b \in Blocks /\ b # None /\ HeldBy(c) = {}
  <2>1. k \in Buckets /\ c.chain = <<>> /\ c.block = None /\ c.seen.top # None
        /\ c.seen \in Heads
    BY <1>1 DEF Fits, Popping, Pushing, CallRecords
  <2> QED BY <2>1, RangeOfEmpty DEF Heads, HeldBy
<1>3. /\ f \in Seq(Blocks) /\ f # <<>> /\ IsInjective(f) /\ b = Head(f)
      /\ c.link = Top(r)
  BY <1>1, <1>2, TopOfStack DEF Follows, Knows
<1>4. /\ r \in Seq(Blocks) /\ Range(r) = Range(f) \ {b} /\ b \in Range(f) /\ IsInjective(r)
  BY <1>3, RangeOfTail, SecondOfChain
<1>5. free' = [free EXCEPT ![k] = r]
  BY <1>2, <1>3 DEF PoolIInv, PoolTyped
<1>6. h \in Heads /\ h.tag = head[k].tag + 1
  BY <1>1, <1>2 DEF Heads, CallRecords
<1>7. d \in CallRecords /\ Fits(d) /\ HeldBy(d) = {b} /\ Follows(d)'
  <2>1. d \in CallRecords
    BY <1>2, IdleFits DEF CallRecords
  <2>2. d.pc = "got" /\ d.block = b /\ d.chain = <<>>
    BY DEF Idle
  <2> QED BY <1>2, <2>1, <2>2, RangeOfEmpty DEF Fits, Follows, Knows, HeldBy, Popping, Pushing
<1> HIDE DEF d, h
<1>8. \A u \in Threads : call'[u] = IF u = t THEN d ELSE call[u]
  BY DEF PoolIInv, PoolTyped, d
<1>9. PoolTyped'
  BY <1>2, <1>4, <1>5, <1>6, <1>7 DEF PoolIInv, PoolTyped, d, h
<1>10. ASSUME NEW u \in Threads PROVE Fits(call[u])' /\ Follows(call[u])'
  <2>1. CASE u = t
    BY <1>7, <1>8, <2>1, ZenonT(30) DEF Fits, Follows, Knows
  <2>2. CASE u # t
    BY <1>2, <1>6, <1>8, <2>2, HeadMovesOn DEF h
  <2> QED BY <2>1, <2>2
<1>11. FreeIsLinked'
  <2>1. ASSUME NEW l \in Buckets, l # k
        PROVE  head'[l] = head[l] /\ free'[l] = free[l]
    BY <2>1, <1>5 DEF PoolIInv, PoolTyped
  <2>2. head'[k].top = Top(r) /\ free'[k] = r
    BY <1>2, <1>3, <1>5 DEF PoolIInv, PoolTyped
  <2>3. \A i \in DOMAIN r : next[r[i]] = IF i < Len(r) THEN r[i + 1] ELSE None
    <3>1. /\ Len(f) \in Nat \ {0} /\ DOMAIN f = 1 .. Len(f)
          /\ Len(r) = Len(f) - 1 /\ \A i \in 1 .. Len(f) - 1 : r[i] = f[i + 1]
      BY <1>3, SecondOfChain
    <3>2. DOMAIN r = 1 .. Len(f) - 1
      BY <1>4, <3>1, LenProperties
    <3>3. \A i \in DOMAIN f : next[f[i]] = IF i < Len(f) THEN f[i + 1] ELSE None
      BY <1>2 DEF PoolIInv, FreeIsLinked
    <3> HIDE DEF r, f
    <3> QED BY <3>1, <3>2, <3>3
  <2> DEFINE Threaded(s) ==
        \A i \in DOMAIN s : next[s[i]] = IF i < Len(s) THEN s[i + 1] ELSE None
  <2>4. Threaded(r) /\ \A l \in Buckets : head[l].top = Top(free[l]) /\ Threaded(free[l])
    BY <2>3 DEF PoolIInv, FreeIsLinked
  <2> HIDE DEF Threaded, r
  <2>5. \A l \in Buckets : head'[l].top = Top(free'[l]) /\ Threaded(free'[l])
    BY <2>1, <2>2, <2>4
  <2> QED BY <2>5, Zenon DEF FreeIsLinked, Threaded
<1>12. Partitioned'
  <2>1. \A x \in Range(r) : Home(x) = k
    BY <1>2, <1>4 DEF PoolIInv, Partitioned, Free
  <2>2. /\ Range(r) \cup HeldBy(d) = Range(free[k]) \cup HeldBy(call[t])
        /\ Range(r) \cap HeldBy(d) = {}
    BY <1>2, <1>4, <1>7
  <2>3. \A l \in Buckets : free'[l] = IF l = k THEN r ELSE free[l]
    BY <1>2, <1>5 DEF PoolIInv, PoolTyped
  <2>4. k \in Buckets /\ d \in CallRecords /\ r \in Seq(Blocks) /\ IsInjective(r)
    BY <1>2, <1>4, <1>7
  <2> HIDE DEF r, f
  <2> QED BY <1>8, <2>1, <2>2, <2>3, <2>4, HandsAndStack
<1> QED BY <1>9, <1>10, <1>11, <1>12 DEF PoolIInv
\* A pop takes the block on top, or looks at the head again.
LEMMA TakeIInv ==
  ASSUME PoolIInv, NEW t \in Threads, Take(t)
  PROVE  PoolIInv'
<1> DEFINE c == call[t]
           k == c.bucket
           e == [c EXCEPT !.link = None]
<1>1. c.pc = "take"
  BY DEF Take, TakeIf
<1>2. CASE head[k] = c.seen
  <2>1. /\ head' = [head EXCEPT ![k] = [top |-> c.link, tag |-> c.seen.tag + 1]]
        /\ call' = [call EXCEPT ![t] = [Idle EXCEPT !.pc = "got", !.block = c.seen.top]]
        /\ free' = [free EXCEPT ![k] = IF @ = <<>> THEN @ ELSE Tail(@)]
        /\ UNCHANGED <<next, slabs, live>>
    BY <1>2 DEF Take, TakeIf
  <2> QED BY <1>1, <1>2, <2>1, TakeSucceeds
<1>3. CASE head[k] # c.seen
  <2>1. /\ call' = [call EXCEPT ![t] = Seen(e, head[k])]
        /\ UNCHANGED <<head, next, slabs, live, free>>
    BY <1>3 DEF Take, TakeIf
  <2>2. c \in CallRecords /\ Fits(c)
    BY CallFacts
  <2>3. e \in CallRecords /\ e.pc = "take" /\ e.bucket = k /\ e.chain = c.chain
        /\ e.block = c.block /\ e.seen = c.seen
    BY <1>1, <2>2 DEF CallRecords
  <2>4. Fits(e) /\ HeldBy(e) = HeldBy(c) /\ e.pc \in Popping
    BY <1>1, <2>2, <2>3 DEF Fits, HeldBy, Popping, Pushing
  <2> DEFINE d == Seen(e, head[k])
  <2>5. d \in CallRecords /\ Fits(d) /\ Follows(d) /\ HeldBy(d) = HeldBy(call[t])
    BY <2>3, <2>4, SeenFits
  <2> HIDE DEF d
  <2>6. call' = [call EXCEPT ![t] = d]
    BY <2>1 DEF d
  <2> QED BY <2>1, <2>5, <2>6, QuietStep
<1> QED BY <1>2, <1>3

-----------------------------------------------------------------------------
(* Chains are pushed.                                                      *)

\* Links that others may follow stay: those of their own chains, and those of
\* the stacks.
LEMMA LinksElsewhere ==
  ASSUME PoolIInv, NEW u \in Threads, call'[u] = call[u], head' = head,
         \A x \in Held(u) : next'[x] = next[x],
         \A l \in Buckets : \A x \in Free(l) : next'[x] = next[x]
  PROVE  Fits(call[u])' /\ Follows(call[u])'
<1> DEFINE c == call[u]
<1>1. c \in CallRecords /\ Fits(c) /\ Follows(c)
  BY CallFacts
<1>2. Fits(call[u])'
  BY <1>1 DEF Fits
<1>3. ASSUME c.pc \in Pushing
      PROVE  /\ \A i \in 1 .. Len(c.chain) - 1 : next'[c.chain[i]] = c.chain[i + 1]
             /\ c.pc = "publish" => next'[c.chain[Len(c.chain)]] = c.seen.top
  <2> DEFINE s == c.chain
  <2>1. s \in Seq(Blocks) /\ s # <<>>
    BY <1>1, <1>3 DEF CallRecords, Fits
  <2>2. DOMAIN s = 1 .. Len(s) /\ Len(s) \in Nat \ {0}
    BY <2>1, LenProperties, EmptySeq
  <2>3. \A i \in 1 .. Len(s) : s[i] \in Held(u)
    BY <2>2 DEF Held, Range
  <2>4. \A i \in 1 .. Len(s) : next'[s[i]] = next[s[i]]
    BY <2>3
  <2>5. /\ \A i \in 1 .. Len(s) - 1 : next[s[i]] = s[i + 1]
        /\ c.pc = "publish" => next[s[Len(s)]] = c.seen.top
    BY <1>1, <1>3 DEF Follows, Knows
  <2> HIDE DEF s
  <2>6. \A i \in 1 .. Len(s) - 1 : next'[s[i]] = s[i + 1]
    BY <2>2, <2>4, <2>5
  <2>7. c.pc = "publish" => next'[s[Len(s)]] = c.seen.top
    BY <2>2, <2>4, <2>5
  <2> QED BY <2>6, <2>7 DEF s
<1>4. ASSUME c.pc = "take", c.seen = head[c.bucket]
      PROVE  c.link = next'[c.seen.top]
  <2>1. c.bucket \in Buckets /\ c.seen.top # None
    BY <1>1, <1>4 DEF Fits, Popping
  <2>2. c.seen.top \in Free(c.bucket)
    <3>1. /\ free[c.bucket] \in Seq(Blocks) /\ free[c.bucket] # <<>>
          /\ IsInjective(free[c.bucket])
          /\ c.seen.top = Head(free[c.bucket])
      BY <1>4, <2>1, TopOfStack
    <3> QED BY <3>1, RangeOfTail DEF Free
  <2> QED BY <1>1, <1>4, <2>1, <2>2 DEF Follows, Knows
<1>5. Knows(c, head, next')
  <2> HIDE DEF c
  <2> QED BY <1>1, <1>3, <1>4 DEF Follows, Knows, Pushing
<1> QED BY <1>2, <1>5 DEF Follows

\* Where no head and no link of a free block changes, the free stacks stay linked.
LEMMA StacksKept ==
  ASSUME PoolIInv, head' = head, free' = free,
         \A l \in Buckets : \A x \in Free(l) : next'[x] = next[x]
  PROVE  FreeIsLinked'
<1> SUFFICES ASSUME NEW l \in Buckets
             PROVE  /\ head[l].top = Top(free[l])
                    /\ \A i \in DOMAIN free[l] :
                         next'[free[l][i]] = IF i < Len(free[l]) THEN free[l][i + 1] ELSE None
  BY DEF FreeIsLinked
<1>1. \A i \in DOMAIN free[l] : free[l][i] \in Free(l)
  BY DEF Free, Range
<1> QED BY <1>1 DEF PoolIInv, FreeIsLinked

\* The last link of a chain points to the head as it was just read.
LEMMA LinkIInv ==
  ASSUME PoolIInv, NEW t \in Threads, NEW c, c = call[t], c.pc \in Pushing,
         Link(t, head[c.bucket]), UNCHANGED <<head, slabs, live, free>>
  PROVE  PoolIInv'
<1> DEFINE s == c.chain
           b == s[Len(s)]
           h == head[c.bucket]
           d == [c EXCEPT !.pc = "publish", !.seen = h]
<1>1. c \in CallRecords /\ Fits(c) /\ Follows(c)
  BY CallFacts
<1>2. s \in Seq(Blocks) /\ s # <<>> /\ IsInjective(s) /\ c.bucket \in Buckets
  BY <1>1 DEF CallRecords, Fits, Pushing
<1>3. DOMAIN s = 1 .. Len(s) /\ Len(s) \in Nat \ {0}
  BY <1>2, LenProperties, EmptySeq
<1>4. h \in Heads
  BY <1>2 DEF PoolIInv, PoolTyped
<1>5. b \in Blocks /\ b \in Held(t) /\ Last(s) = b
  <2>1. b \in Range(s)
    BY <1>3 DEF Range
  <2> QED BY <1>2, <1>3, <2>1, ElementOfSeq DEF Held, Last
<1>6. d \in CallRecords /\ d.pc = "publish" /\ d.seen = h /\ d.bucket = c.bucket
      /\ d.chain = s /\ d.block = c.block
  BY <1>1, <1>4 DEF CallRecords, Pushing
<1>7. Fits(d) /\ HeldBy(d) = HeldBy(c)
  BY <1>1, <1>6 DEF Fits, HeldBy, Popping, Pushing
<1>8. next' = [next EXCEPT ![b] = h.top]
  BY <1>5 DEF Link
<1>9. /\ next' \in [Blocks -> Blocks \cup {None}]
      /\ \A x \in Blocks : next'[x] = IF x = b THEN h.top ELSE next[x]
  BY <1>4, <1>5, <1>8 DEF PoolIInv, PoolTyped, Heads
<1>10. \A u \in Threads : call'[u] = IF u = t THEN d ELSE call[u]
  BY DEF Link, PoolIInv, PoolTyped
<1>11. Knows(d, head', next')
  <2>1. ASSUME NEW i \in 1 .. Len(s) - 1 PROVE next'[s[i]] = s[i + 1]
    <3>1. i \in DOMAIN s /\ Len(s) \in DOMAIN s /\ i # Len(s)
      BY <1>3
    <3>2. s[i] # b /\ s[i] \in Blocks
      BY <1>2, <1>3, <3>1, ElementOfSeq DEF IsInjective
    <3>3. next[s[i]] = s[i + 1]
      BY <1>1 DEF Follows, Knows
    <3> QED BY <1>9, <3>2, <3>3
  <2>2. next'[b] = h.top
    BY <1>5, <1>9
  <2> HIDE DEF d, h, b
  <2> QED BY <1>6, <2>1, <2>2 DEF Knows, Pushing, b
<1>12. \A l \in Buckets : \A x \in Free(l) : next'[x] = next[x]
  <2>1. \A l \in Buckets : Free(l) \subseteq Blocks /\ b \notin Free(l)
    BY <1>5, RangeOfSeq DEF PoolIInv, PoolTyped, Partitioned, Free
  <2> QED BY <1>9, <2>1
<1>13. ASSUME NEW u \in Threads PROVE Fits(call[u])' /\ Follows(call[u])'
  <2>1. CASE u = t
    <3> HIDE DEF d
    <3> QED BY <1>7, <1>10, <1>11, <2>1 DEF Follows
  <2>2. CASE u # t
    <3>1. Held(u) \subseteq Blocks
      BY RangeOfSeq, CallFacts DEF Held, CallRecords
    <3>2. b \notin Held(u)
      BY <1>5, <2>2 DEF PoolIInv, Partitioned
    <3>3. \A x \in Held(u) : next'[x] = next[x]
      BY <1>9, <3>1, <3>2
    <3> QED BY <1>10, <1>12, <2>2, <3>3, LinksElsewhere
  <2> QED BY <2>1, <2>2
<1>14. PoolTyped'
  BY <1>6, <1>9, <1>10 DEF PoolIInv, PoolTyped, Link
<1>15. FreeIsLinked'
  BY <1>12, StacksKept
<1>16. Partitioned'
  <2>1. \A u \in Threads : Held(u)' = Held(u)
    <3> HIDE DEF d
    <3> QED BY <1>7, <1>10 DEF Held, HeldBy
  <2> QED BY <2>1, PartitionKept DEF PoolIInv
<1> QED BY <1>13, <1>14, <1>15, <1>16 DEF PoolIInv

\* Linking the next block of a chain keeps the invariant.
LEMMA PushChainIInv ==
  ASSUME PoolIInv, NEW t \in Threads, PushChain(t)
  PROVE  PoolIInv'
  BY LinkIInv DEF PushChain, Pushing

\* The links nx lead through s and then to last.
Threaded(s, last, nx) ==
  \A i \in DOMAIN s : nx[s[i]] = IF i < Len(s) THEN s[i + 1] ELSE last

\* A chain whose last link points to the top of a stack lengthens the stack.
LEMMA Spliced ==
  ASSUME NEW s \in Seq(Blocks), s # <<>>, NEW f \in Seq(Blocks), NEW nx,
         Threaded(s, Top(f), nx), Threaded(f, None, nx)
  PROVE  /\ s \o f \in Seq(Blocks) /\ Head(s) = Top(s \o f)
         /\ Range(s \o f) = Range(s) \cup Range(f)
         /\ Threaded(s \o f, None, nx)
<1> DEFINE g == s \o f
<1>1. /\ g \in Seq(Blocks) /\ Len(g) = Len(s) + Len(f)
      /\ \A i \in 1 .. Len(s) + Len(f) : g[i] = IF i <= Len(s) THEN s[i] ELSE f[i - Len(s)]
      /\ Range(g) = Range(s) \cup Range(f)
  BY ConcatProperties, RangeConcatenation
<1>2. /\ Len(s) \in Nat \ {0} /\ Len(f) \in Nat /\ Head(s) = s[1]
      /\ DOMAIN f = 1 .. Len(f)
      /\ f # <<>> => (Top(f) = f[1] /\ Len(f) \in Nat \ {0})
  BY SecondOfChain, LenProperties, EmptySeq
<1>3. f = <<>> => Top(f) = None /\ Len(f) = 0
  BY EmptySeq DEF Top
<1> HIDE DEF g
<1>4. DOMAIN g = 1 .. Len(g) /\ g # <<>>
  BY <1>1, <1>2, LenProperties, EmptySeq
<1>5. Head(s) = Top(g)
  BY <1>1, <1>2, <1>4, SecondOfChain
<1>6. ASSUME NEW i \in DOMAIN g
      PROVE  nx[g[i]] = IF i < Len(g) THEN g[i + 1] ELSE None
  <2>1. i \in 1 .. Len(s) + Len(f)
    BY <1>1, <1>4
  <2>2. CASE i < Len(s)
    <3>1. i \in 1 .. Len(s) - 1 /\ i + 1 \in 1 .. Len(s) + Len(f) /\ i < Len(g)
      BY <1>1, <1>2, <2>1, <2>2
    <3>2. g[i] = s[i] /\ g[i + 1] = s[i + 1]
      BY <1>1, <1>2, <2>1, <2>2, <3>1
    <3> QED BY <1>2, <3>1, <3>2 DEF Threaded
  <2>3. CASE i = Len(s)
    <3>1. g[i] = s[Len(s)]
      BY <1>1, <1>2, <2>1, <2>3
    <3>2. CASE f = <<>>
      BY <1>1, <1>2, <1>3, <2>3, <3>1, <3>2 DEF Threaded
    <3>3. CASE f # <<>>
      <4>1. i + 1 \in 1 .. Len(s) + Len(f) /\ i < Len(g) /\ (i + 1) - Len(s) = 1
        BY <1>1, <1>2, <2>3, <3>3
      <4>2. g[i + 1] = f[1]
        BY <1>1, <1>2, <2>3, <4>1
      <4>3. nx[s[Len(s)]] = Top(f)
        BY <1>2 DEF Threaded
      <4> QED BY <1>2, <3>1, <3>3, <4>1, <4>2, <4>3
    <3> QED BY <3>2, <3>3
  <2>4. CASE i > Len(s)
    <3> DEFINE m == i - Len(s)
    <3>1. m \in 1 .. Len(f) /\ g[i] = f[m] /\ (i < Len(g) <=> m < Len(f))
      BY <1>1, <1>2, <2>1, <2>4
    <3>2. i < Len(g) => g[i + 1] = f[m + 1]
      <4>1. i < Len(g) => i + 1 \in 1 .. Len(s) + Len(f) /\ ~(i + 1 <= Len(s))
                          /\ (i + 1) - Len(s) = m + 1
        BY <1>1, <1>2, <2>1, <2>4
      <4> HIDE DEF m
      <4> QED BY <1>1, <4>1
    <3> HIDE DEF m
    <3> QED BY <1>2, <3>1, <3>2 DEF Threaded
  <2> QED BY <1>2, <2>1, <2>2, <2>3, <2>4
<1> QED BY <1>1, <1>5, <1>6 DEF g, Threaded

\* What the exchange of a push that succeeds does: the chain s goes onto the
\* stack f of bucket k, and the call goes on as d, with the head h.
PublishedAs(t, k, s, f, d, h) ==
  /\ k = call[t].bucket /\ s = call[t].chain /\ f = free[k]
  /\ head' = [head EXCEPT ![k] = h]
  /\ call' = [call EXCEPT ![t] = d]
  /\ free' = [free EXCEPT ![k] = s \o f]
  /\ next' = next /\ slabs' = slabs /\ live' = live

\* The chain is on the stack, and what the thread still has is its own block,
\* if it is a refill.
LEMMA PublishSucceeds ==
  ASSUME PoolIInv, NEW t \in Threads, call[t].pc = "publish",
         NEW k \in Buckets, head[k] = call[t].seen,
         NEW s \in Seq(Blocks), NEW f \in Seq(Blocks),
         NEW d \in CallRecords, Fits(d), d.pc \in {"idle", "got"},
         HeldBy(d) = {call[t].block} \ {None},
         NEW h \in Heads, h.top = Head(s), h.tag = head[k].tag + 1,
         PublishedAs(t, k, s, f, d, h)
  PROVE  PoolIInv'
<1> DEFINE c == call[t]
           g == s \o f
<1>1. c \in CallRecords /\ Fits(c) /\ Follows(c)
  BY CallFacts
<1>2. /\ s # <<>> /\ IsInjective(s)
      /\ \A b \in Range(s) : Home(b) = k
      /\ c.block \notin Range(s) /\ c.block \in Blocks \cup {None}
  BY <1>1 DEF CallRecords, Fits, Pushing, PublishedAs
<1>3. /\ IsInjective(f) /\ head[k].top = Top(f)
      /\ Threaded(f, None, next)
      /\ \A b \in Range(f) : Home(b) = k
  BY DEF PoolIInv, PoolTyped, Partitioned, FreeIsLinked, Free, PublishedAs, Threaded
<1>4. Threaded(s, Top(f), next)
  <2>1. /\ \A i \in 1 .. Len(s) - 1 : next[s[i]] = s[i + 1]
        /\ next[s[Len(s)]] = Top(f)
    BY <1>1, <1>3 DEF Follows, Knows, Pushing, PublishedAs
  <2>2. DOMAIN s = 1 .. Len(s) /\ Len(s) \in Nat
    BY LenProperties
  <2> QED BY <2>1, <2>2 DEF Threaded
<1>5. HeldBy(c) = Range(s) \cup ({c.block} \ {None}) /\ HeldBy(c) \cap Range(f) = {}
  BY DEF HeldBy, Held, PoolIInv, Partitioned, Free, PublishedAs
<1>6. /\ \A u \in Threads : call'[u] = IF u = t THEN d ELSE call[u]
      /\ call' \in [Threads -> CallRecords]
  BY DEF PoolIInv, PoolTyped, PublishedAs
<1>7. /\ \A l \in Buckets : head'[l] = IF l = k THEN h ELSE head[l]
      /\ head' \in [Buckets -> Heads]
  BY DEF PoolIInv, PoolTyped, PublishedAs
<1>8. next' = next /\ slabs' = slabs /\ live' = live /\ head' = [head EXCEPT ![k] = h]
  BY DEF PublishedAs
<1>9. f = free[k] /\ free' = [free EXCEPT ![k] = g]
  BY DEF PublishedAs
<1> HIDE DEF c
<1>10. /\ g \in Seq(Blocks) /\ Head(s) = Top(g) /\ Range(g) = Range(s) \cup Range(f)
       /\ Threaded(g, None, next)
  BY <1>2, <1>3, <1>4, Spliced
<1>11. IsInjective(g)
  <2>1. Range(s) \cap Range(f) = {}
    BY <1>5
  <2> QED BY <1>2, <1>3, <2>1, InjectiveConcat
<1> HIDE DEF g
<1>12. \A l \in Buckets : free'[l] = IF l = k THEN g ELSE free[l]
  BY <1>9 DEF PoolIInv, PoolTyped
<1>13. PoolTyped'
  BY <1>6, <1>7, <1>8, <1>9, <1>10 DEF PoolIInv, PoolTyped
<1>14. ASSUME NEW u \in Threads PROVE Fits(call[u])' /\ Follows(call[u])'
  <2>1. CASE u = t
    BY <1>6, <2>1 DEF Follows, Knows, Pushing
  <2>2. CASE u # t
    <3>1. call'[u] = call[u]
      BY <1>6, <2>2
    <3> QED BY <1>8, <3>1, HeadMovesOn
  <2> QED BY <2>1, <2>2
<1>15. FreeIsLinked'
  <2>1. ASSUME NEW l \in Buckets, l = k
        PROVE  /\ head'[l].top = Top(free'[l])
               /\ \A i \in DOMAIN free'[l] :
                    next'[free'[l][i]] = IF i < Len(free'[l]) THEN free'[l][i + 1] ELSE None
    <3>1. free'[l] = g /\ head'[l] = h /\ next' = next
      BY <1>7, <1>8, <1>12, <2>1
    <3> QED BY <1>10, <3>1 DEF Threaded
  <2>2. ASSUME NEW l \in Buckets, l # k
        PROVE  /\ head'[l].top = Top(free'[l])
               /\ \A i \in DOMAIN free'[l] :
                    next'[free'[l][i]] = IF i < Len(free'[l]) THEN free'[l][i + 1] ELSE None
    <3>1. free'[l] = free[l] /\ head'[l] = head[l] /\ next' = next
      BY <1>7, <1>8, <1>12, <2>2
    <3> QED BY <3>1, <2>2 DEF PoolIInv, FreeIsLinked
  <2> QED BY <2>1, <2>2 DEF FreeIsLinked
<1>16. Partitioned'
  <2>1. /\ Range(g) \cup HeldBy(d) = Range(free[k]) \cup HeldBy(call[t])
        /\ Range(g) \cap HeldBy(d) = {}
    BY <1>2, <1>3, <1>5, <1>9, <1>10 DEF c
  <2>2. \A x \in Range(g) : Home(x) = k
    BY <1>2, <1>3, <1>10
  <2> QED BY <1>6, <1>8, <1>10, <1>11, <1>12, <2>1, <2>2, HandsAndStack
<1> QED BY <1>13, <1>14, <1>15, <1>16 DEF PoolIInv

\* The compare-and-swap that puts a chain on its bucket keeps the invariant.
LEMMA PublishIInv ==
  ASSUME PoolIInv, NEW t \in Threads, Publish(t)
  PROVE  PoolIInv'
<1> DEFINE c == call[t]
           k == c.bucket
<1>1. c.pc = "publish" /\ c \in CallRecords /\ Fits(c)
  BY CallFacts DEF Publish
<1>2. /\ c.chain \in Seq(Blocks) /\ c.chain # <<>> /\ k \in Buckets
      /\ c.block \in Blocks \cup {None} /\ c.seen.tag \in Nat
  BY <1>1 DEF CallRecords, Fits, Pushing, Heads
<1>3. CASE head[k] = c.seen
  <2> DEFINE d == IF c.block = None THEN Idle ELSE [Idle EXCEPT !.pc = "got", !.block = c.block]
             h == [top |-> Head(c.chain), tag |-> c.seen.tag + 1]
  <2>1. /\ head' = [head EXCEPT ![k] = h]
        /\ free' = [free EXCEPT ![k] = c.chain \o @]
        /\ call' = [call EXCEPT ![t] = d]
        /\ UNCHANGED <<next, slabs, live>>
    BY <1>3 DEF Publish
  <2>2. h \in Heads /\ h.top = Head(c.chain) /\ h.tag = head[k].tag + 1
    <3>1. Head(c.chain) \in Blocks
      BY <1>2, SecondOfChain
    <3> QED BY <1>2, <1>3, <3>1 DEF Heads
  <2>3. d \in CallRecords /\ Fits(d) /\ HeldBy(d) = {c.block} \ {None}
        /\ d.pc \in {"idle", "got"}
    <3>1. CASE c.block = None
      BY <3>1, IdleFits DEF Idle
    <3>2. CASE c.block # None
      <4>1. d \in CallRecords
        BY <1>2, <3>2, IdleFits DEF CallRecords
      <4>2. d.pc = "got" /\ d.block = c.block /\ d.chain = <<>>
        BY <3>2 DEF Idle
      <4> HIDE DEF d
      <4> QED BY <3>2, <4>1, <4>2, RangeOfEmpty DEF Fits, HeldBy, Popping, Pushing
    <3> QED BY <3>1, <3>2
  <2> HIDE DEF d, h
  <2>4. PublishedAs(t, k, c.chain, free[k], d, h)
    BY <2>1 DEF PublishedAs
  <2>5. free[k] \in Seq(Blocks)
    BY <1>2 DEF PoolIInv, PoolTyped
  <2> QED BY <1>1, <1>2, <1>3, <2>2, <2>3, <2>4, <2>5, PublishSucceeds
<1>4. CASE head[k] # c.seen
  <2>1. Link(t, head[c.bucket]) /\ UNCHANGED <<head, slabs, live, free>>
    BY <1>4 DEF Publish
  <2> QED BY <1>1, <2>1, LinkIInv DEF Pushing
<1> QED BY <1>3, <1>4
-----------------------------------------------------------------------------
(* A new slab.                                                             *)

\* What a new slab is, and what it leaves for the ones to come.
LEMMA SlabJoins ==
  ASSUME PoolIInv, NEW k \in Buckets, slabs[k] < Len(Slabs[k]),
         slabs' = [slabs EXCEPT ![k] = @ + 1],
         NEW s, s = Slabs[k][slabs[k] + 1]
  PROVE  /\ s \in Seq(Blocks) /\ s # <<>> /\ IsInjective(s)
         /\ \A b \in Range(s) : b \in Blocks /\ Home(b) = k
         /\ Raw(k) = Range(s) \cup Raw(k)' /\ Range(s) \cap Raw(k)' = {}
         /\ \A l \in Buckets : l # k => Raw(l)' = Raw(l)
         /\ slabs' \in [Buckets -> Nat]
<1> DEFINE m == slabs[k] + 1
           n == Len(Slabs[k])
<1>1. slabs[k] \in Nat /\ slabs'[k] = m /\ slabs' \in [Buckets -> Nat]
  BY DEF PoolIInv, PoolTyped
<1>2. n \in Nat /\ DOMAIN Slabs[k] = 1 .. n
  <2>1. Slabs[k] \in Seq(Seq(Blocks))
    BY PoolAssumption
  <2> QED BY <2>1, LenProperties
<1>3. m \in DOMAIN Slabs[k] /\ m .. n = {m} \cup (m + 1 .. n)
  BY <1>1, <1>2
<1>4. /\ s \in Seq(Blocks) /\ s # <<>> /\ IsInjective(s)
      /\ \A b \in Range(s) : b \in Blocks /\ Home(b) = k
  BY <1>3, SlabIsChain
<1>5. /\ Raw(k) = UNION {Range(Slabs[k][i]) : i \in m .. n}
      /\ Raw(k)' = UNION {Range(Slabs[k][i]) : i \in m + 1 .. n}
  BY <1>1 DEF Raw
<1>6. Raw(k) = Range(s) \cup Raw(k)'
  <2> HIDE DEF m, n
  <2> QED BY <1>3, <1>5 DEF m
<1>7. Range(s) \cap Raw(k)' = {}
  <2>1. ASSUME NEW b \in Raw(k)', b \in Range(s) PROVE FALSE
    <3>1. PICK i \in m + 1 .. n : b \in Range(Slabs[k][i])
      BY <1>5, <2>1
    <3>2. i \in DOMAIN Slabs[k] /\ i # m
      BY <1>1, <1>2, <3>1
    <3> QED BY <1>3, <2>1, <3>1, <3>2, SlabsApart, ZenonT(30)
  <2> QED BY <2>1
<1>8. \A l \in Buckets : l # k => Raw(l)' = Raw(l)
  BY DEF Raw, PoolIInv, PoolTyped
<1> QED BY <1>1, <1>4, <1>6, <1>7, <1>8

\* What NewSlab does: the links of the slab s are set, and the call goes on as d.
Slabbed(t, k, s, d) ==
  /\ call' = [call EXCEPT ![t] = d]
  /\ next' = [b \in Blocks |-> IF b \in Range(s) THEN Linked(s)[b] ELSE next[b]]
  /\ head' = head /\ live' = live /\ free' = free

\* The blocks of the slab are the thread's.
LEMMA SlabInHand ==
  ASSUME PoolIInv, NEW t \in Threads, HeldBy(call[t]) = {},
         NEW k \in Buckets, slabs[k] < Len(Slabs[k]),
         slabs' = [slabs EXCEPT ![k] = @ + 1],
         NEW s \in Seq(Blocks), s = Slabs[k][slabs[k] + 1],
         NEW d \in CallRecords, Fits(d), Knows(d, head, next'), HeldBy(d) = Range(s),
         Slabbed(t, k, s, d)
  PROVE  PoolIInv'
<1>1. /\ IsInjective(s) /\ Raw(k) = Range(s) \cup Raw(k)' /\ Range(s) \cap Raw(k)' = {}
      /\ \A b \in Range(s) : b \in Blocks /\ Home(b) = k
      /\ \A l \in Buckets : l # k => Raw(l)' = Raw(l)
      /\ slabs' \in [Buckets -> Nat]
  BY SlabJoins
<1>2. /\ \A u \in Threads : call'[u] = IF u = t THEN d ELSE call[u]
      /\ call' \in [Threads -> CallRecords]
  BY DEF PoolIInv, PoolTyped, Slabbed
<1>3. /\ \A b \in Blocks : next'[b] = IF b \in Range(s) THEN Linked(s)[b] ELSE next[b]
      /\ next' = [b \in Blocks |-> next'[b]]
  BY DEF Slabbed
<1>4. head' = head /\ live' = live /\ free' = free
  BY DEF Slabbed
<1>5. Partitioned
  BY DEF PoolIInv
<1>6. \A l \in Buckets : \A x \in Free(l) : x \in Blocks /\ x \notin Range(s)
  <2>1. \A l \in Buckets : Free(l) \subseteq Blocks /\ \A x \in Free(l) : Home(x) = l
    BY <1>5, RangeOfSeq DEF PoolIInv, PoolTyped, Free, Partitioned
  <2>2. Free(k) \cap Range(s) = {}
    BY <1>1, <1>5 DEF Partitioned
  <2> QED BY <1>1, <2>1, <2>2
<1>7. \A u \in Threads : Held(u) \subseteq Blocks /\ Held(u) \cap Range(s) = {}
  <2>1. \A u \in Threads : Held(u) \subseteq Blocks
    BY RangeOfSeq, CallFacts DEF Held, CallRecords
  <2> QED BY <1>1, <1>5, <2>1 DEF Partitioned
<1>8. PoolTyped'
  <2>1. \A b \in Blocks : next'[b] \in Blocks \cup {None}
    BY <1>1, <1>3, LinkedType DEF PoolIInv, PoolTyped
  <2> QED BY <1>1, <1>2, <1>3, <1>4, <2>1 DEF PoolIInv, PoolTyped
<1>9. ASSUME NEW u \in Threads PROVE Fits(call[u])' /\ Follows(call[u])'
  <2>1. CASE u = t
    BY <1>2, <1>4, <2>1 DEF Follows
  <2>2. CASE u # t
    <3>1. call'[u] = call[u] /\ \A x \in Held(u) : next'[x] = next[x]
      BY <1>2, <1>3, <1>7, <2>2
    <3>2. \A l \in Buckets : \A x \in Free(l) : next'[x] = next[x]
      BY <1>3, <1>6
    <3> QED BY <1>4, <3>1, <3>2, LinksElsewhere
  <2> QED BY <2>1, <2>2
<1>10. FreeIsLinked'
  <2>1. \A l \in Buckets : \A x \in Free(l) : next'[x] = next[x]
    BY <1>3, <1>6
  <2> QED BY <1>4, <2>1, StacksKept
<1>11. Partitioned'
  <2>1. /\ Held(t)' = Range(s) /\ Held(t) = {}
        /\ \A u \in Threads : u # t => Held(u)' = Held(u)
    BY <1>2 DEF Held, HeldBy
  <2>2. \A l \in Buckets : Free(l)' = Free(l) /\ free'[l] = free[l]
    BY <1>4 DEF Free
  <2>3. ASSUME NEW b \in Blocks
        PROVE  \/ b \in live'
               \/ \E u \in Threads : b \in Held(u)'
               \/ \E l \in Buckets : b \in Free(l)' \cup Raw(l)'
    <3>1. CASE b \in Range(s)
      BY <2>1, <3>1
    <3>2. CASE b \notin Range(s)
      <4>1. CASE b \in live
        BY <1>4, <4>1
      <4>2. ASSUME NEW u \in Threads, b \in Held(u)
            PROVE  \E v \in Threads : b \in Held(v)'
        BY <2>1, <4>2
      <4>3. ASSUME NEW l \in Buckets, b \in Free(l) \cup Raw(l)
            PROVE  b \in Free(l)' \cup Raw(l)'
        BY <1>1, <2>2, <3>2, <4>3
      <4> QED BY <1>5, <4>1, <4>2, <4>3 DEF Partitioned
    <3> QED BY <3>1, <3>2
  <2>4. \A u \in Threads : Held(u)' \cap live' = {}
    BY <1>1, <1>4, <1>5, <2>1 DEF Partitioned
  <2>5. \A u, v \in Threads : u # v => Held(u)' \cap Held(v)' = {}
    BY <1>5, <1>7, <2>1 DEF Partitioned
  <2>6. \A l \in Buckets : Raw(l)' \subseteq Raw(l) /\ Range(s) \cap (Free(l) \cup Raw(l)') = {}
    <3> SUFFICES ASSUME NEW l \in Buckets
                 PROVE  Raw(l)' \subseteq Raw(l) /\ Range(s) \cap (Free(l) \cup Raw(l)') = {}
      OBVIOUS
    <3>1. CASE l = k
      BY <1>1, <1>6, <3>1
    <3>2. CASE l # k
      BY <1>1, <1>6, <3>2, RawIsHome
    <3> QED BY <3>1, <3>2
  <2>7. ASSUME NEW l \in Buckets
        PROVE  /\ Free(l)' \cap live' = {}
               /\ Raw(l)' \cap (live' \cup Free(l)') = {}
               /\ \A u \in Threads : Held(u)' \cap (Free(l)' \cup Raw(l)') = {}
               /\ IsInjective(free'[l])
               /\ \A b \in Free(l)' : Home(b) = l
    <3>1. /\ Free(l) \cap live = {} /\ Raw(l) \cap (live \cup Free(l)) = {}
          /\ \A u \in Threads : Held(u) \cap (Free(l) \cup Raw(l)) = {}
          /\ IsInjective(free[l]) /\ \A b \in Free(l) : Home(b) = l
      BY <1>5 DEF Partitioned
    <3>2. Free(l)' \cap live' = {} /\ Raw(l)' \cap (live' \cup Free(l)') = {}
      BY <1>4, <2>2, <2>6, <3>1
    <3>3. \A u \in Threads : Held(u)' \cap (Free(l)' \cup Raw(l)') = {}
      BY <2>1, <2>2, <2>6, <3>1
    <3> QED BY <2>2, <3>1, <3>2, <3>3
  <2> QED BY <2>3, <2>4, <2>5, <2>7 DEF Partitioned
<1> QED BY <1>8, <1>9, <1>10, <1>11 DEF PoolIInv

\* Cutting a new slab into blocks keeps the invariant.
LEMMA NewSlabIInv ==
  ASSUME PoolIInv, NEW t \in Threads, NewSlab(t)
  PROVE  PoolIInv'
<1> DEFINE c == call[t]
           k == c.bucket
           s == Slabs[k][slabs[k] + 1]
           d == IF Len(s) > 1
                THEN [c EXCEPT !.pc = "push", !.block = s[1], !.chain = Tail(s)]
                ELSE [Idle EXCEPT !.pc = "got", !.block = s[1]]
<1>1. /\ c \in CallRecords /\ Fits(c) /\ c.pc = "slab" /\ slabs[k] < Len(Slabs[k])
      /\ slabs' = [slabs EXCEPT ![k] = @ + 1]
  BY CallFacts DEF NewSlab
<1>2. k \in Buckets /\ c.block = None /\ c.chain = <<>> /\ HeldBy(c) = {}
  BY <1>1, RangeOfEmpty DEF Fits, Popping, Pushing, HeldBy
<1>3. /\ s \in Seq(Blocks) /\ s # <<>> /\ IsInjective(s)
      /\ \A b \in Range(s) : b \in Blocks /\ Home(b) = k
  <2>1. slabs[k] \in Nat /\ Slabs[k] \in Seq(Seq(Blocks))
    BY <1>2, PoolAssumption DEF PoolIInv, PoolTyped
  <2>2. slabs[k] + 1 \in DOMAIN Slabs[k]
    BY <1>1, <2>1, LenProperties
  <2> HIDE DEF k
  <2> QED BY <1>2, <2>2, SlabIsChain
<1>4. Slabbed(t, k, s, d)
  BY DEF NewSlab, Slabbed
<1> HIDE DEF s
<1>5. /\ Len(s) \in Nat \ {0} /\ DOMAIN s = 1 .. Len(s) /\ s[1] \in Blocks /\ Head(s) = s[1]
      /\ Tail(s) \in Seq(Blocks) /\ Len(Tail(s)) = Len(s) - 1
      /\ \A i \in 1 .. Len(s) - 1 : Tail(s)[i] = s[i + 1]
  BY <1>3, SecondOfChain
<1>6. /\ Range(Tail(s)) = Range(s) \ {s[1]} /\ IsInjective(Tail(s)) /\ s[1] \in Range(s)
  BY <1>3, <1>5, RangeOfTail
<1>7. s[1] # None
  BY <1>5, PoolAssumption
<1>8. d \in CallRecords /\ Fits(d) /\ Knows(d, head, next') /\ HeldBy(d) = Range(s)
  <2>1. CASE Len(s) > 1
    <3>1. d = [c EXCEPT !.pc = "push", !.block = s[1], !.chain = Tail(s)]
      BY <2>1
    <3>2. d \in CallRecords
      BY <1>1, <1>5, <3>1 DEF CallRecords, Pushing
    <3>3. d.pc = "push" /\ d.block = s[1] /\ d.chain = Tail(s) /\ d.bucket = k
      BY <1>1, <3>1 DEF CallRecords
    <3> HIDE DEF d, k
    <3> DEFINE r == Tail(s)
    <3>4. r # <<>>
      <4>1. r \in Seq(Blocks) /\ Len(r) # 0
        BY <1>5, <2>1
      <4> HIDE DEF r
      <4> QED BY <4>1, EmptySeq
    <3>5. Fits(d)
      BY <1>2, <1>3, <1>6, <3>3, <3>4 DEF Fits, Popping, Pushing
    <3>6. ASSUME NEW i \in 1 .. Len(Tail(s)) - 1
          PROVE  next'[Tail(s)[i]] = Tail(s)[i + 1]
      <4>1. /\ i + 1 \in 1 .. Len(s) /\ i + 1 < Len(s) /\ i + 1 \in 1 .. Len(s) - 1
            /\ i \in 1 .. Len(s) - 1
        BY <1>5
      <4>2. Tail(s)[i] = s[i + 1] /\ Tail(s)[i + 1] = s[(i + 1) + 1]
        BY <1>5, <4>1
      <4>3. s[i + 1] \in Range(s) /\ Linked(s)[s[i + 1]] = s[(i + 1) + 1]
        BY <1>3, <4>1, LinkedLinks
      <4>4. next'[s[i + 1]] = Linked(s)[s[i + 1]]
        BY <1>3, <1>4, <4>3 DEF Slabbed
      <4> QED BY <4>2, <4>3, <4>4
    <3>7. Knows(d, head, next')
      BY <3>3, <3>6 DEF Knows
    <3>8. HeldBy(d) = Range(s)
      BY <1>6, <1>7, <3>3 DEF HeldBy
    <3> QED BY <3>2, <3>5, <3>7, <3>8
  <2>2. CASE ~(Len(s) > 1)
    <3>1. d = [Idle EXCEPT !.pc = "got", !.block = s[1]]
      BY <2>2
    <3>2. d \in CallRecords
      BY <1>5, <3>1, IdleFits DEF CallRecords
    <3>3. d.pc = "got" /\ d.block = s[1] /\ d.chain = <<>>
      BY <3>1 DEF Idle
    <3> HIDE DEF d
    <3>4. Range(s) = {s[1]}
      <4>1. DOMAIN s = {1}
        BY <1>5, <2>2
      <4> QED BY <4>1 DEF Range
    <3>5. HeldBy(d) = Range(s)
      BY <1>7, <3>3, <3>4, RangeOfEmpty DEF HeldBy
    <3> QED BY <1>7, <3>2, <3>3, <3>5 DEF Fits, Knows, Popping, Pushing
  <2> QED BY <2>1, <2>2
<1> HIDE DEF d, c, k
<1> QED BY <1>1, <1>2, <1>3, <1>4, <1>8, SlabInHand DEF s, c
-----------------------------------------------------------------------------
(* The theorem.                                                            *)

\* The first slab of a bucket.
LEMMA FirstSlab ==
  ASSUME NEW k \in Buckets
  PROVE  /\ Slabs[k][1] \in Seq(Blocks) /\ Slabs[k][1] # <<>> /\ IsInjective(Slabs[k][1])
         /\ \A b \in Range(Slabs[k][1]) : b \in Blocks /\ Home(b) = k
         /\ DOMAIN Slabs[k] = 1 .. Len(Slabs[k]) /\ Len(Slabs[k]) \in Nat \ {0}
<1>1. Slabs[k] \in Seq(Seq(Blocks)) /\ Slabs[k] # <<>>
  BY PoolAssumption
<1>2. DOMAIN Slabs[k] = 1 .. Len(Slabs[k]) /\ Len(Slabs[k]) \in Nat \ {0}
  BY <1>1, EmptySeq, LenProperties
<1>3. 1 \in DOMAIN Slabs[k]
  BY <1>2
<1> QED BY <1>2, <1>3, SlabIsChain

\* What a pool begins with is as much as its first slabs hold.
Fitting(taken) ==
  /\ taken \in [Buckets -> Nat]
  /\ \A k \in Buckets : taken[k] <= Len(Slabs[k][1])

\* The blocks in use when a run begins.
LEMMA TakenIs ==
  ASSUME NEW taken, Fitting(taken), NEW b
  PROVE  b \in Taken(taken) <=> \E k \in Buckets : \E i \in 1 .. taken[k] : b = Slabs[k][1][i]
<1>1. ASSUME NEW k \in Buckets
      PROVE  b \in Range(SubSeq(Slabs[k][1], 1, taken[k]))
               <=> \E i \in 1 .. taken[k] : b = Slabs[k][1][i]
  <2> DEFINE s == Slabs[k][1]
             n == taken[k]
             u == SubSeq(s, 1, n)
  <2>1. s \in Seq(Blocks) /\ n \in 0 .. Len(s) /\ Len(s) \in Nat
    BY FirstSlab, LenProperties DEF Fitting
  <2> HIDE DEF s, n
  <2>2. u \in Seq(Blocks) /\ Len(u) = n /\ \A i \in 1 .. n : u[i] = s[i]
    BY <2>1
  <2>3. DOMAIN u = 1 .. n
    BY <2>2, LenProperties
  <2>4. b \in Range(u) <=> \E i \in 1 .. n : b = s[i]
    BY <2>2, <2>3 DEF Range
  <2> QED BY <2>4 DEF s, n
<1> QED BY <1>1 DEF Taken

\* A pool that begins so satisfies the invariant.
LEMMA PoolInitIInv ==
  ASSUME NEW taken, Fitting(taken), PoolInit(taken)
  PROVE  PoolIInv
<1>1. \A k \in Buckets :
        /\ Slabs[k][1] \in Seq(Blocks) /\ Slabs[k][1] # <<>> /\ IsInjective(Slabs[k][1])
        /\ \A b \in Range(Slabs[k][1]) : b \in Blocks /\ Home(b) = k
        /\ DOMAIN Slabs[k] = 1 .. Len(Slabs[k]) /\ Len(Slabs[k]) \in Nat \ {0}
  BY FirstSlab
<1>2. \A k \in Buckets :
        /\ taken[k] \in 0 .. Len(Slabs[k][1]) /\ Len(Slabs[k][1]) \in Nat
        /\ DOMAIN Slabs[k][1] = 1 .. Len(Slabs[k][1])
        /\ free[k] \in Seq(Blocks)
        /\ Len(free[k]) = Len(Slabs[k][1]) - taken[k]
        /\ DOMAIN free[k] = 1 .. Len(free[k])
        /\ \A i \in 1 .. Len(free[k]) : free[k][i] = Slabs[k][1][taken[k] + i]
        /\ IsInjective(free[k]) /\ Range(free[k]) \subseteq Range(Slabs[k][1])
        /\ \A i \in 1 .. taken[k] : Slabs[k][1][i] \notin Range(free[k])
  <2> SUFFICES ASSUME NEW k \in Buckets
               PROVE  /\ taken[k] \in 0 .. Len(Slabs[k][1]) /\ Len(Slabs[k][1]) \in Nat
                      /\ DOMAIN Slabs[k][1] = 1 .. Len(Slabs[k][1])
                      /\ free[k] \in Seq(Blocks)
                      /\ Len(free[k]) = Len(Slabs[k][1]) - taken[k]
                      /\ DOMAIN free[k] = 1 .. Len(free[k])
                      /\ \A i \in 1 .. Len(free[k]) : free[k][i] = Slabs[k][1][taken[k] + i]
                      /\ IsInjective(free[k]) /\ Range(free[k]) \subseteq Range(Slabs[k][1])
                      /\ \A i \in 1 .. taken[k] : Slabs[k][1][i] \notin Range(free[k])
    OBVIOUS
  <2> DEFINE s == Slabs[k][1]
             n == taken[k]
             u == SubSeq(s, n + 1, Len(s))
  <2>1. s \in Seq(Blocks) /\ n \in 0 .. Len(s) /\ Len(s) \in Nat /\ DOMAIN s = 1 .. Len(s)
    BY <1>1, LenProperties DEF Fitting
  <2>2. free[k] = u
    BY DEF PoolInit
  <2>3. IsInjective(s)
    BY <1>1
  <2> HIDE DEF s, n
  <2>4. u \in Seq(Blocks) /\ Len(u) = Len(s) - n
    <3>1. Len(u) = IF n + 1 <= Len(s) THEN Len(s) - (n + 1) + 1 ELSE 0
      BY <2>1, SubSeqProperties
    <3>2. u \in Seq(Blocks)
      BY <2>1, RangeOfCut
    <3> HIDE DEF u
    <3>3. Len(s) \in Nat /\ n \in Nat /\ n <= Len(s)
      BY <2>1
    <3>4. Len(u) = Len(s) - n
      BY <3>1, <3>3
    <3> QED BY <3>2, <3>4
  <2>5. \A i \in 1 .. Len(s) - n : u[i] = s[n + i]
    BY <2>1
  <2>6. DOMAIN u = 1 .. Len(u)
    BY <2>4, LenProperties
  <2>7. /\ IsInjective(u) /\ Range(u) \subseteq Range(s)
        /\ \A i \in 1 .. n : s[i] \notin Range(u)
    BY <2>1, <2>3, RangeOfCut
  <2> HIDE DEF u
  <2> QED BY <2>1, <2>2, <2>4, <2>5, <2>6, <2>7 DEF s, n
<1>3. \A b : b \in live <=> \E k \in Buckets : \E i \in 1 .. taken[k] : b = Slabs[k][1][i]
  BY TakenIs DEF PoolInit
<1>4. /\ \A k \in Buckets : head[k].top = Top(free[k]) /\ head[k].tag = taken[k]
      /\ head = [k \in Buckets |-> [top |-> Top(free[k]), tag |-> taken[k]]]
      /\ slabs = [k \in Buckets |-> 1] /\ call = [t \in Threads |-> Idle]
      /\ free = [k \in Buckets |-> free[k]]
  BY DEF PoolInit
<1>5. \A k \in Buckets : Top(free[k]) \in Blocks \cup {None}
  <2> SUFFICES ASSUME NEW k \in Buckets, free[k] # <<>> PROVE Head(free[k]) \in Blocks
    BY DEF Top
  <2> QED BY <1>2, HeadTailProperties
<1>6. /\ \A k \in Buckets : \A b \in Range(Slabs[k][1]) : next[b] = Linked(Slabs[k][1])[b]
      /\ \A b \in Blocks : next[b] \in Blocks \cup {None}
      /\ next = [b \in Blocks |-> next[b]]
  <2>1. next = [b \in Blocks |-> IF b \in Range(Slabs[Home(b)][1])
                                 THEN Linked(Slabs[Home(b)][1])[b] ELSE None]
    BY DEF PoolInit
  <2>2. \A k \in Buckets : \A b \in Range(Slabs[k][1]) : next[b] = Linked(Slabs[k][1])[b]
    BY <1>1, <2>1
  <2>3. ASSUME NEW b \in Blocks PROVE next[b] \in Blocks \cup {None}
    <3>1. Home(b) \in Buckets
      BY HomeIsBucket
    <3> QED BY <1>1, <2>1, <3>1, LinkedType
  <2> QED BY <2>1, <2>2, <2>3
<1>7. PoolTyped
  <2>1. free \in [Buckets -> Seq(Blocks)]
    BY <1>2, <1>4
  <2>2. live \subseteq Blocks
    <3> SUFFICES ASSUME NEW b \in live PROVE b \in Blocks
      OBVIOUS
    <3>1. PICK k \in Buckets : \E i \in 1 .. taken[k] : b = Slabs[k][1][i]
      BY <1>3
    <3>2. PICK i \in 1 .. taken[k] : b = Slabs[k][1][i]
      BY <3>1
    <3>3. i \in 1 .. Len(Slabs[k][1])
      BY <1>2, <3>2
    <3> QED BY <1>1, <3>2, <3>3, ElementOfSeq
  <2>3. head \in [Buckets -> Heads]
    BY <1>2, <1>4, <1>5 DEF Heads
  <2> QED BY <1>4, <1>6, <2>1, <2>2, <2>3, IdleFits DEF PoolTyped
<1>8. \A t \in Threads : Fits(call[t]) /\ Follows(call[t])
  BY <1>4, IdleFits
<1>9. FreeIsLinked
  <2> SUFFICES ASSUME NEW k \in Buckets, NEW i \in DOMAIN free[k]
               PROVE  next[free[k][i]] = IF i < Len(free[k]) THEN free[k][i + 1] ELSE None
    BY <1>4 DEF FreeIsLinked
  <2> DEFINE s == Slabs[k][1]
             n == taken[k]
             j == n + i
  <2>1. /\ s \in Seq(Blocks) /\ IsInjective(s) /\ j \in 1 .. Len(s) /\ free[k][i] = s[j]
        /\ (i < Len(free[k]) <=> j < Len(s))
        /\ (i < Len(free[k]) => free[k][i + 1] = s[j + 1])
    <3>1. i \in 1 .. Len(free[k]) /\ Len(free[k]) = Len(s) - n /\ n \in 0 .. Len(s) /\ Len(s) \in Nat
      BY <1>2
    <3>2. \A m \in 1 .. Len(free[k]) : free[k][m] = s[n + m]
      BY <1>2
    <3>3. s \in Seq(Blocks) /\ IsInjective(s)
      BY <1>1
    <3> HIDE DEF s, n
    <3>4. i < Len(free[k]) => i + 1 \in 1 .. Len(free[k]) /\ n + (i + 1) = j + 1
      BY <3>1
    <3>5. i < Len(free[k]) => free[k][i + 1] = s[n + (i + 1)]
      BY <3>2, <3>4
    <3>6. free[k][i] = s[j] /\ j \in 1 .. Len(s)
      BY <3>1, <3>2
    <3>7. i < Len(free[k]) <=> j < Len(s)
      BY <3>1
    <3> HIDE DEF j
    <3> QED BY <3>3, <3>4, <3>5, <3>6, <3>7
  <2> HIDE DEF s, j
  <2>2. s[j] \in Range(s) /\ Linked(s)[s[j]] = IF j < Len(s) THEN s[j + 1] ELSE None
    BY <2>1, LinkedLinks
  <2>3. next[s[j]] = Linked(s)[s[j]]
    BY <1>6, <2>2 DEF s
  <2> QED BY <2>1, <2>2, <2>3
<1>10. Partitioned
  <2>1. \A t \in Threads : Held(t) = {}
    BY <1>4, IdleFits DEF Held, HeldBy
  <2>2. \A k \in Buckets : Free(k) \subseteq Range(Slabs[k][1])
    BY <1>2 DEF Free
  <2>3. \A k \in Buckets : Raw(k) = UNION {Range(Slabs[k][i]) : i \in 2 .. Len(Slabs[k])}
    BY <1>4 DEF Raw
  <2>4. ASSUME NEW b \in Blocks
        PROVE  b \in live \/ \E k \in Buckets : b \in Free(k) \cup Raw(k)
    <3>1. PICK k \in Buckets : \E i \in DOMAIN Slabs[k] : b \in Range(Slabs[k][i])
      BY DEF Blocks
    <3>2. PICK i \in DOMAIN Slabs[k] : b \in Range(Slabs[k][i])
      BY <3>1
    <3>3. CASE i \in 2 .. Len(Slabs[k])
      BY <2>3, <3>2, <3>3
    <3>4. CASE i = 1
      <4>1. PICK m \in 1 .. Len(Slabs[k][1]) : b = Slabs[k][1][m]
        BY <1>2, <3>2, <3>4 DEF Range
      <4>2. CASE m <= taken[k]
        BY <1>2, <1>3, <4>1, <4>2
      <4>3. CASE m > taken[k]
        <5>1. /\ m - taken[k] \in 1 .. Len(free[k]) /\ taken[k] + (m - taken[k]) = m
              /\ DOMAIN free[k] = 1 .. Len(free[k])
          BY <1>2, <4>1, <4>3
        <5>2. \A j \in 1 .. Len(free[k]) : free[k][j] = Slabs[k][1][taken[k] + j]
          BY <1>2
        <5>3. free[k][m - taken[k]] = Slabs[k][1][taken[k] + (m - taken[k])]
          BY <5>1, <5>2
        <5>4. free[k][m - taken[k]] = b
          BY <4>1, <5>1, <5>3
        <5> QED BY <5>1, <5>4 DEF Free, Range
      <4> QED BY <1>2, <4>1, <4>2, <4>3
    <3> QED BY <1>1, <3>2, <3>3, <3>4
  <2>5. ASSUME NEW k \in Buckets, NEW b \in Raw(k) PROVE b \notin live /\ b \notin Free(k)
    <3>1. PICK i \in 2 .. Len(Slabs[k]) : b \in Range(Slabs[k][i])
      BY <2>3, <2>5
    <3>2. i \in DOMAIN Slabs[k] /\ i # 1
      BY <1>1, <3>1
    <3>3. ASSUME NEW l \in Buckets, b \in Range(Slabs[l][1]) PROVE FALSE
      <4>1. 1 \in DOMAIN Slabs[l]
        BY <1>1
      <4> QED BY <3>1, <3>2, <3>3, <4>1, SlabsApart
    <3>4. ASSUME b \in live PROVE FALSE
      <4>1. PICK l \in Buckets : \E j \in 1 .. taken[l] : b = Slabs[l][1][j]
        BY <1>3, <3>4
      <4>2. PICK j \in 1 .. taken[l] : b = Slabs[l][1][j]
        BY <4>1
      <4>3. b \in Range(Slabs[l][1])
        BY <1>2, <4>2 DEF Range
      <4> QED BY <3>3, <4>3
    <3> QED BY <2>2, <3>3, <3>4
  <2>6. ASSUME NEW k \in Buckets, NEW b \in Free(k) PROVE Home(b) = k /\ b \notin live
    <3>1. b \in Range(Slabs[k][1]) /\ b \in Range(free[k])
      BY <2>2, <2>6 DEF Free
    <3>2. ASSUME b \in live PROVE FALSE
      <4>1. PICK l \in Buckets : \E j \in 1 .. taken[l] : b = Slabs[l][1][j]
        BY <1>3, <3>2
      <4>2. PICK j \in 1 .. taken[l] : b = Slabs[l][1][j]
        BY <4>1
      <4>3. b \in Range(Slabs[l][1])
        BY <1>2, <4>2 DEF Range
      <4>4. Home(b) = l /\ Home(b) = k
        BY <1>1, <3>1, <4>3
      <4> QED BY <1>2, <3>1, <4>2, <4>4
    <3> QED BY <1>1, <3>1, <3>2
  <2>7. \A k \in Buckets : IsInjective(free[k])
    BY <1>2
  <2> QED BY <2>1, <2>4, <2>5, <2>6, <2>7 DEF Partitioned
<1> QED BY <1>7, <1>8, <1>9, <1>10 DEF PoolIInv

\* Every step of the pool keeps the invariant.
LEMMA PoolNextIInv == PoolIInv /\ [PoolNext]_poolVars => PoolIInv'
<1> SUFFICES ASSUME PoolIInv, [PoolNext]_poolVars PROVE PoolIInv'
  OBVIOUS
<1>1. ASSUME NEW t \in Threads, PoolStep(t) PROVE PoolIInv'
  BY <1>1, LoadIInv, ReadLinkIInv, TakeIInv, LockBucketIInv, NewSlabIInv,
     PushChainIInv, PublishIInv DEF PoolStep
<1>2. ASSUME NEW t \in Threads, Create(t) PROVE PoolIInv'
  BY <1>2, CreateIInv
<1>3. ASSUME NEW t \in Threads, Construct(t) \/ ConstructThrows(t) \/ NoMemory(t)
      PROVE  PoolIInv'
  BY <1>3, ConstructIInv, ConstructThrowsIInv, NoMemoryIInv
<1>4. ASSUME NEW t \in Threads, NEW b \in Blocks, Destroy(t, b) PROVE PoolIInv'
  BY <1>4, DestroyIInv
<1>5. CASE UNCHANGED poolVars
  <2>1. UNCHANGED <<head, next, slabs, call, live, free>>
    BY <1>5 DEF poolVars
  <2>2. PoolTyped'
    BY <2>1 DEF PoolIInv, PoolTyped
  <2>3. \A t \in Threads : Fits(call[t])' /\ Follows(call[t])'
    BY <2>1 DEF PoolIInv, Follows
  <2>4. FreeIsLinked'
    BY <2>1 DEF PoolIInv, FreeIsLinked
  <2>5. Partitioned'
    BY <2>1, PartitionKept DEF PoolIInv, Held
  <2> QED BY <2>2, <2>3, <2>4, <2>5 DEF PoolIInv
<1> QED BY <1>1, <1>2, <1>3, <1>4, <1>5 DEF PoolNext

\* Every block of the pool has one owner, whatever the threads, the buckets and
\* the slabs: none is lost and none is handed out twice (object_pool.hpp:434-535).
THEOREM OneOwnerHolds == PoolSpec => []OneOwner
<1>1. PoolIInv => OneOwner
  BY DEF PoolIInv, OneOwner
<1>2. PoolInit([k \in Buckets |-> 0]) => PoolIInv
  <2> DEFINE none == [k \in Buckets |-> 0]
  <2>1. Fitting(none)
    BY FirstSlab, LenProperties DEF Fitting
  <2> HIDE DEF none
  <2>2. PoolInit(none) => PoolIInv
    BY <2>1, PoolInitIInv
  <2> QED BY <2>2 DEF none
<1> QED BY <1>1, <1>2, PoolNextIInv, PTL DEF PoolSpec

-----------------------------------------------------------------------------
(* Works and their edges.                                                  *)

\* Requests, and the Works that make them.
Requests == [sem : Semaphores, count : Nat]

WorkRecords ==
  [graph : Flows \cup {Nothing}, type : GraphKinds \cup {Nothing},
   edges : Seq(Blocks), nsucc : Nat, acquires : Seq(Requests), releases : Seq(Requests)]

\* The two parts of the array of edges.
Targets(x) == {x.edges[i] : i \in 1 .. x.nsucc}
Origins(x) == {x.edges[i] : i \in x.nsucc + 1 .. Len(x.edges)}

\* No part holds a Work twice.
Edged(x) ==
  /\ x.nsucc \in 0 .. Len(x.edges)
  /\ \A i, j \in 1 .. x.nsucc : x.edges[i] = x.edges[j] => i = j
  /\ \A i, j \in x.nsucc + 1 .. Len(x.edges) : x.edges[i] = x.edges[j] => i = j

\* What the edges leave alone.
Rest(x) == <<x.graph, x.type, x.acquires, x.releases>>

\* The array of edges, place by place.
LEMMA EdgeTypes ==
  ASSUME NEW x \in WorkRecords
  PROVE  /\ x.edges \in Seq(Blocks) /\ x.nsucc \in Nat
         /\ Len(x.edges) \in Nat /\ DOMAIN x.edges = 1 .. Len(x.edges)
         /\ \A i \in 1 .. Len(x.edges) : x.edges[i] \in Blocks
         /\ x.graph \in Flows \cup {Nothing} /\ x.type \in GraphKinds \cup {Nothing}
         /\ x.acquires \in Seq(Requests) /\ x.releases \in Seq(Requests)
<1>1. x.edges \in Seq(Blocks)
  BY DEF WorkRecords
<1> QED BY <1>1, LenProperties, ElementOfSeq DEF WorkRecords

\* The parts as sequences.
LEMMA EdgeParts ==
  ASSUME NEW x \in WorkRecords, Edged(x)
  PROVE  /\ Successors(x) \in Seq(Blocks) /\ Len(Successors(x)) = x.nsucc
         /\ \A i \in 1 .. x.nsucc : Successors(x)[i] = x.edges[i]
         /\ Predecessors(x) \in Seq(Blocks)
         /\ Len(Predecessors(x)) = Len(x.edges) - x.nsucc
         /\ \A i \in 1 .. Len(x.edges) - x.nsucc : Predecessors(x)[i] = x.edges[x.nsucc + i]
<1> DEFINE e == x.edges
           n == x.nsucc
           s == Successors(x)
           p == Predecessors(x)
<1>1. /\ e \in Seq(Blocks) /\ n \in 0 .. Len(e) /\ Len(e) \in Nat
      /\ \A i \in 1 .. Len(e) : e[i] \in Blocks
  BY EdgeTypes DEF Edged
<1>2. s = SubSeq(e, 1, n) /\ p = SubSeq(e, n + 1, Len(e))
  BY DEF Successors, Predecessors
<1> HIDE DEF e, n, s, p
<1>3. n \in Nat /\ n <= Len(e) /\ n \in Int /\ Len(e) \in Int /\ n + 1 \in Int /\ 1 \in Int
  BY <1>1
<1>4. s \in Seq(Blocks) /\ Len(s) = n /\ \A i \in 1 .. n : s[i] = e[i]
  <2>1. \A i \in 1 .. n : e[i] \in Blocks
    BY <1>1
  <2> QED BY <1>2, <1>3, <2>1, SubSeqProperties
<1>5. p \in Seq(Blocks) /\ Len(p) = IF n + 1 <= Len(e) THEN (Len(e) - (n + 1)) + 1 ELSE 0
  <2>1. \A i \in (n + 1) .. Len(e) : e[i] \in Blocks
    BY <1>1, <1>3
  <2> QED BY <1>1, <1>2, <1>3, <2>1, SubSeqProperties
<1>6. Len(p) = Len(e) - n
  BY <1>3, <1>5
<1>7. \A i \in 1 .. Len(e) - n : p[i] = e[n + i]
  <2> SUFFICES ASSUME NEW i \in 1 .. Len(e) - n PROVE p[i] = e[n + i]
    OBVIOUS
  <2>1. p[i] = e[((n + 1) + i) - 1]
    BY <1>1, <1>2, <1>3, SubSeqProperties
  <2>2. ((n + 1) + i) - 1 = n + i
    BY <1>3
  <2> QED BY <2>1, <2>2
<1> QED BY <1>4, <1>5, <1>6, <1>7 DEF e, n, s, p

\* And as sets.
LEMMA EdgeSets ==
  ASSUME NEW x \in WorkRecords, Edged(x)
  PROVE  /\ Range(Successors(x)) = Targets(x) /\ Range(Predecessors(x)) = Origins(x)
         /\ Targets(x) \subseteq Blocks /\ Origins(x) \subseteq Blocks
         /\ \A v \in Targets(x) : /\ IndexOf(Successors(x), v) \in 1 .. x.nsucc
                                  /\ x.edges[IndexOf(Successors(x), v)] = v
         /\ \A u \in Origins(x) :
              /\ IndexOf(Predecessors(x), u) \in 1 .. Len(x.edges) - x.nsucc
              /\ x.edges[x.nsucc + IndexOf(Predecessors(x), u)] = u
<1> DEFINE s == Successors(x)
           p == Predecessors(x)
           e == x.edges
           n == x.nsucc
<1>1. n \in 0 .. Len(e) /\ Len(e) \in Nat /\ \A i \in 1 .. Len(e) : e[i] \in Blocks
  BY EdgeTypes DEF Edged
<1>2. /\ Len(s) = n /\ \A i \in 1 .. n : s[i] = e[i]
      /\ Len(p) = Len(e) - n /\ \A i \in 1 .. Len(e) - n : p[i] = e[n + i]
      /\ s \in Seq(Blocks) /\ p \in Seq(Blocks)
  BY EdgeParts
<1>3. Targets(x) = {e[i] : i \in 1 .. n} /\ Origins(x) = {e[i] : i \in n + 1 .. Len(e)}
  BY DEF Targets, Origins
<1> HIDE DEF s, p, e, n
<1>4. DOMAIN s = 1 .. n /\ DOMAIN p = 1 .. Len(e) - n
  BY <1>2, LenProperties
<1>5. Range(s) = Targets(x) /\ Targets(x) \subseteq Blocks
  <2>1. Range(s) = {s[i] : i \in 1 .. n}
    BY <1>4 DEF Range
  <2>2. Range(s) = Targets(x)
    BY <1>2, <1>3, <2>1
  <2>3. Targets(x) \subseteq Blocks
    BY <1>1, <1>3
  <2> QED BY <2>2, <2>3
<1>6. Range(p) = Origins(x) /\ Origins(x) \subseteq Blocks
  <2>1. ASSUME NEW i \in n + 1 .. Len(e) PROVE e[i] \in Range(p)
    <3>1. i - n \in 1 .. Len(e) - n /\ n + (i - n) = i
      BY <1>1
    <3>2. p[i - n] = e[i]
      BY <1>2, <3>1
    <3> QED BY <1>4, <3>1, <3>2 DEF Range
  <2>2. ASSUME NEW i \in 1 .. Len(e) - n PROVE p[i] \in Origins(x)
    <3>1. n + i \in n + 1 .. Len(e) /\ p[i] = e[n + i]
      BY <1>1, <1>2
    <3> QED BY <1>3, <3>1
  <2>3. Range(p) \subseteq Origins(x)
    BY <1>4, <2>2 DEF Range
  <2>4. Origins(x) \subseteq Range(p) /\ Origins(x) \subseteq Blocks
    BY <1>1, <1>3, <2>1
  <2> QED BY <2>3, <2>4
<1>7. ASSUME NEW v \in Targets(x)
      PROVE  IndexOf(s, v) \in 1 .. n /\ e[IndexOf(s, v)] = v
  <2>1. \E i \in DOMAIN s : s[i] = v
    BY <1>5, <1>7 DEF Range
  <2>2. IndexOf(s, v) \in DOMAIN s /\ s[IndexOf(s, v)] = v
    BY <2>1 DEF IndexOf
  <2> QED BY <1>2, <1>4, <2>2
<1>8. ASSUME NEW u \in Origins(x)
      PROVE  IndexOf(p, u) \in 1 .. Len(e) - n /\ e[n + IndexOf(p, u)] = u
  <2>1. \E i \in DOMAIN p : p[i] = u
    BY <1>6, <1>8 DEF Range
  <2>2. IndexOf(p, u) \in DOMAIN p /\ p[IndexOf(p, u)] = u
    BY <2>1 DEF IndexOf
  <2> QED BY <1>2, <1>4, <2>2
<1> QED BY <1>5, <1>6, <1>7, <1>8 DEF s, p, e, n

\* A sequence without its last element.
LEMMA FrontIs ==
  ASSUME NEW S, NEW s \in Seq(S), s # <<>>
  PROVE  /\ Front(s) \in Seq(S) /\ Len(Front(s)) = Len(s) - 1
         /\ \A i \in 1 .. Len(s) - 1 : Front(s)[i] = s[i]
         /\ Last(s) = s[Len(s)] /\ Last(s) \in S /\ Len(s) \in Nat \ {0}
<1>1. Len(s) \in Nat \ {0} /\ \A i \in 1 .. Len(s) : s[i] \in S
  BY EmptySeq, LenProperties, ElementOfSeq
<1>2. Front(s) = SubSeq(s, 1, Len(s) - 1) /\ Last(s) = s[Len(s)]
  BY DEF Front, Last
<1> DEFINE u == SubSeq(s, 1, Len(s) - 1)
<1>3. 1 \in Int /\ Len(s) - 1 \in Int /\ \A i \in 1 .. Len(s) - 1 : s[i] \in S
  BY <1>1
<1>4. /\ u \in Seq(S)
      /\ Len(u) = IF 1 <= Len(s) - 1 THEN ((Len(s) - 1) - 1) + 1 ELSE 0
  BY <1>3, SubSeqProperties
<1>5. \A i \in 1 .. Len(s) - 1 : u[i] = s[i]
  <2> SUFFICES ASSUME NEW i \in 1 .. Len(s) - 1 PROVE u[i] = s[i]
    OBVIOUS
  <2>1. i \in 1 .. ((Len(s) - 1) - 1) + 1 /\ (1 + i) - 1 = i
    BY <1>1
  <2>2. u[i] = s[(1 + i) - 1]
    BY <1>3, <2>1, SubSeqProperties
  <2> QED BY <2>1, <2>2
<1> HIDE DEF u
<1>6. Len(u) = Len(s) - 1
  <2>1. ASSUME NEW m \in Nat \ {0}
        PROVE  (IF 1 <= m - 1 THEN ((m - 1) - 1) + 1 ELSE 0) = m - 1
    OBVIOUS
  <2> QED BY <1>1, <1>4, <2>1
<1>7. Last(s) \in S
  BY <1>1, <1>2
<1> QED BY <1>1, <1>2, <1>4, <1>5, <1>6, <1>7 DEF u

\* The last element fills the hole at i.
Filled(s, i) == Front([s EXCEPT ![i] = Last(s)])

\* Place by place.
LEMMA HoleFilled ==
  ASSUME NEW S, NEW s \in Seq(S), NEW i \in 1 .. Len(s), NEW h, h = Filled(s, i)
  PROVE  /\ h \in Seq(S) /\ Len(h) = Len(s) - 1
         /\ \A j \in 1 .. Len(s) - 1 : (j = i => h[j] = s[Len(s)]) /\ (j # i => h[j] = s[j])
<1> DEFINE e == [s EXCEPT ![i] = Last(s)]
<1>1. Len(s) \in Nat \ {0} /\ s # <<>>
  BY LenProperties, EmptySeq
<1>2. Last(s) \in S /\ Last(s) = s[Len(s)]
  BY <1>1, FrontIs
<1>3. /\ e \in Seq(S) /\ Len(e) = Len(s)
      /\ \A j \in 1 .. Len(s) : e[j] = IF j = i THEN s[Len(s)] ELSE s[j]
  BY <1>2, ExceptSeq
<1> HIDE DEF e
<1>4. e # <<>>
  BY <1>1, <1>3, EmptySeq
<1>5. h \in Seq(S) /\ Len(h) = Len(e) - 1 /\ \A j \in 1 .. Len(e) - 1 : h[j] = e[j]
  <2>1. h = Front(e)
    BY DEF e, Filled
  <2>2. Front(e) \in Seq(S) /\ Len(Front(e)) = Len(e) - 1
    BY <1>3, <1>4, FrontIs
  <2>3. \A j \in 1 .. Len(e) - 1 : Front(e)[j] = e[j]
    BY <1>3, <1>4, FrontIs
  <2> QED BY <2>1, <2>2, <2>3
<1>6. \A j \in 1 .. Len(s) - 1 : j \in 1 .. Len(s)
  BY <1>1
<1>7. \A j \in 1 .. Len(s) - 1 : h[j] = IF j = i THEN s[Len(s)] ELSE s[j]
  BY <1>3, <1>5, <1>6
<1> QED BY <1>3, <1>5, <1>7

\* What is left are the others.
LEMMA HoleFilledRange ==
  ASSUME NEW S, NEW s \in Seq(S), NEW i \in 1 .. Len(s), IsInjective(s), NEW h,
         h = Filled(s, i)
  PROVE  Range(h) = Range(s) \ {s[i]} /\ IsInjective(h)
<1> DEFINE n == Len(s)
<1>0. /\ h \in Seq(S) /\ Len(h) = Len(s) - 1
      /\ \A j \in 1 .. Len(s) - 1 : (j = i => h[j] = s[Len(s)]) /\ (j # i => h[j] = s[j])
  BY HoleFilled
<1>1. /\ n \in Nat \ {0} /\ DOMAIN s = 1 .. n
      /\ h \in Seq(S) /\ Len(h) = n - 1 /\ DOMAIN h = 1 .. n - 1
      /\ \A j \in 1 .. n - 1 : (j = i => h[j] = s[n]) /\ (j # i => h[j] = s[j])
  <2>1. n \in Nat \ {0} /\ DOMAIN s = 1 .. n
    BY LenProperties
  <2>2. DOMAIN h = 1 .. n - 1
    BY <1>0, LenProperties
  <2> QED BY <1>0, <2>1, <2>2
<1>9. i \in 1 .. n
  OBVIOUS
<1> HIDE DEF n
<1>10. i \in 1 .. n /\ n \in 1 .. n /\ \A j \in 1 .. n - 1 : j \in 1 .. n /\ j # n
  BY <1>1, <1>9
<1>11. \A j \in 1 .. n : j # n => j \in 1 .. n - 1
  BY <1>1
<1>2. \A j, k \in 1 .. n : s[j] = s[k] => j = k
  BY <1>1 DEF IsInjective
<1>3. \A j, k \in 1 .. n - 1 : h[j] = h[k] => j = k
  BY <1>1, <1>2, <1>10
<1>4. IsInjective(h)
  BY <1>1, <1>3 DEF IsInjective
<1>5. ASSUME NEW j \in 1 .. n - 1 PROVE h[j] \in Range(s) \ {s[i]}
  BY <1>1, <1>2, <1>10 DEF Range
<1>6. ASSUME NEW j \in 1 .. n, s[j] # s[i] PROVE s[j] \in Range(h)
  <2>1. CASE j # n
    <3>1. j \in 1 .. n - 1 /\ h[j] = s[j]
      BY <1>1, <1>6, <1>11, <2>1
    <3> QED BY <1>1, <3>1 DEF Range
  <2>2. CASE j = n
    <3>1. i \in 1 .. n - 1 /\ h[i] = s[j]
      BY <1>1, <1>6, <1>9, <1>11, <2>2
    <3> QED BY <1>1, <3>1 DEF Range
  <2> QED BY <2>1, <2>2
<1>7. Range(h) \subseteq Range(s) \ {s[i]}
  BY <1>1, <1>5 DEF Range
<1>8. Range(s) \ {s[i]} \subseteq Range(h)
  BY <1>1, <1>6 DEF Range
<1> QED BY <1>4, <1>7, <1>8

\* The array after its successor at i is gone, place by place.
LEMMA SuccessorPlaces ==
  ASSUME NEW e, NEW r, NEW L \in Nat, NEW n \in 1 .. L, NEW i \in 1 .. n,
         \A j \in 1 .. L - 1 : /\ j = n => r[j] = e[L]
                               /\ j # n /\ j = i => r[j] = e[n]
                               /\ j # n /\ j # i => r[j] = e[j],
         \A j, k \in 1 .. n : e[j] = e[k] => j = k,
         \A j, k \in n + 1 .. L : e[j] = e[k] => j = k
  PROVE  /\ \A j, k \in 1 .. n - 1 : r[j] = r[k] => j = k
         /\ \A j, k \in n .. L - 1 : r[j] = r[k] => j = k
         /\ {r[j] : j \in 1 .. n - 1} = {e[j] : j \in 1 .. n} \ {e[i]}
         /\ {r[j] : j \in n .. L - 1} = {e[j] : j \in n + 1 .. L}
<1>1. \A j \in 1 .. n - 1 : /\ j \in 1 .. L - 1 /\ j # n /\ j \in 1 .. n /\ n \in 1 .. n
                            /\ j = i => r[j] = e[n]
                            /\ j # i => r[j] = e[j]
  OBVIOUS
<1>2. \A j \in n .. L - 1 : /\ j \in 1 .. L - 1
                            /\ j = n => r[j] = e[L] /\ L \in n + 1 .. L
                            /\ j # n => r[j] = e[j] /\ j \in n + 1 .. L /\ j # L /\ j # i
  OBVIOUS
<1>3. \A j, k \in 1 .. n - 1 : r[j] = r[k] => j = k
  BY <1>1
<1>4. \A j, k \in n .. L - 1 : r[j] = r[k] => j = k
  <2> SUFFICES ASSUME NEW j \in n .. L - 1, NEW k \in n .. L - 1, r[j] = r[k] PROVE j = k
    OBVIOUS
  <2>1. CASE j = n /\ k # n
    BY <1>2, <2>1
  <2>2. CASE j # n /\ k = n
    BY <1>2, <2>2
  <2>3. CASE j # n /\ k # n
    BY <1>2, <2>3
  <2> QED BY <2>1, <2>2, <2>3
<1>5. {r[j] : j \in 1 .. n - 1} = {e[j] : j \in 1 .. n} \ {e[i]}
  <2>1. ASSUME NEW j \in 1 .. n - 1 PROVE r[j] \in {e[k] : k \in 1 .. n} \ {e[i]}
    BY <1>1
  <2>2. ASSUME NEW j \in 1 .. n, e[j] # e[i] PROVE e[j] \in {r[k] : k \in 1 .. n - 1}
    <3>1. CASE j # n
      <4>1. j \in 1 .. n - 1 /\ r[j] = e[j]
        BY <1>1, <2>2, <3>1
      <4> QED BY <4>1
    <3>2. CASE j = n
      <4>1. i \in 1 .. n - 1 /\ r[i] = e[j]
        BY <1>1, <2>2, <3>2
      <4> QED BY <4>1
    <3> QED BY <3>1, <3>2
  <2> QED BY <2>1, <2>2
<1>6. {r[j] : j \in n .. L - 1} = {e[j] : j \in n + 1 .. L}
  <2>1. ASSUME NEW j \in n .. L - 1 PROVE r[j] \in {e[k] : k \in n + 1 .. L}
    BY <1>2
  <2>2. ASSUME NEW j \in n + 1 .. L PROVE e[j] \in {r[k] : k \in n .. L - 1}
    <3>1. CASE j # L
      <4>1. j \in n .. L - 1 /\ r[j] = e[j]
        BY <1>2, <3>1
      <4> QED BY <4>1
    <3>2. CASE j = L
      <4>1. n \in n .. L - 1 /\ r[n] = e[j]
        BY <1>2, <3>2
      <4> QED BY <4>1
    <3> QED BY <3>1, <3>2
  <2> QED BY <2>1, <2>2
<1> QED BY <1>3, <1>4, <1>5, <1>6

\* The successor at i is gone, and the predecessors are the same.
LEMMA SuccessorErased ==
  ASSUME NEW x \in WorkRecords, Edged(x), NEW i \in 1 .. x.nsucc, NEW y,
         y = EraseSuccessorAt(x, i)
  PROVE  /\ y \in WorkRecords /\ Edged(y) /\ Rest(y) = Rest(x)
         /\ Targets(y) = Targets(x) \ {x.edges[i]} /\ Origins(y) = Origins(x)
<1> DEFINE e == x.edges
           n == x.nsucc
           filled == [e EXCEPT ![i] = e[n]]
           moved == [filled EXCEPT ![n] = Last(filled)]
           chosen == IF n < Len(e) THEN moved ELSE filled
           r == Front(chosen)
<1>1. /\ e \in Seq(Blocks) /\ n \in 1 .. Len(e) /\ Len(e) \in Nat \ {0} /\ i \in 1 .. n
      /\ i \in 1 .. Len(e) /\ n \in Nat
      /\ \A j \in 1 .. Len(e) : e[j] \in Blocks
  BY EdgeTypes DEF Edged
<1>2. y = [[x EXCEPT !.edges = r] EXCEPT !.nsucc = n - 1]
  BY DEF EraseSuccessorAt
<1>3. /\ \A j, k \in 1 .. n : e[j] = e[k] => j = k
      /\ \A j, k \in n + 1 .. Len(e) : e[j] = e[k] => j = k
  BY DEF Edged
<1> HIDE DEF e, n
<1>4. /\ filled \in Seq(Blocks) /\ Len(filled) = Len(e)
      /\ \A j \in 1 .. Len(e) : filled[j] = IF j = i THEN e[n] ELSE e[j]
  BY <1>1, ExceptSeq
<1>5. Last(filled) = filled[Len(e)] /\ filled # <<>>
  BY <1>1, <1>4, EmptySeq DEF Last
<1> HIDE DEF filled
<1>6. Last(filled) \in Blocks
  BY <1>1, <1>4, <1>5
<1>7. /\ moved \in Seq(Blocks) /\ Len(moved) = Len(e)
      /\ \A j \in 1 .. Len(e) : moved[j] = IF j = n THEN Last(filled) ELSE filled[j]
  BY <1>1, <1>4, <1>6, ExceptSeq
<1> HIDE DEF moved
<1>8. /\ chosen \in Seq(Blocks) /\ Len(chosen) = Len(e)
      /\ \A j \in 1 .. Len(e) - 1 :
           /\ j = n => chosen[j] = e[Len(e)]
           /\ j # n /\ j = i => chosen[j] = e[n]
           /\ j # n /\ j # i => chosen[j] = e[j]
  <2>1. CASE n < Len(e)
    BY <1>1, <1>4, <1>5, <1>7, <2>1
  <2>2. CASE n = Len(e)
    BY <1>1, <1>4, <2>2
  <2> QED BY <1>1, <2>1, <2>2
<1> HIDE DEF chosen
<1>9. /\ r \in Seq(Blocks) /\ Len(r) = Len(e) - 1
      /\ \A j \in 1 .. Len(e) - 1 : r[j] = chosen[j]
  BY <1>1, <1>8, EmptySeq, FrontIs
<1> HIDE DEF r
<1>10. \A j \in 1 .. Len(e) - 1 : /\ j = n => r[j] = e[Len(e)]
                                  /\ j # n /\ j = i => r[j] = e[n]
                                  /\ j # n /\ j # i => r[j] = e[j]
  BY <1>8, <1>9
<1>11. /\ \A j, k \in 1 .. n - 1 : r[j] = r[k] => j = k
       /\ \A j, k \in n .. Len(e) - 1 : r[j] = r[k] => j = k
       /\ {r[j] : j \in 1 .. n - 1} = {e[j] : j \in 1 .. n} \ {e[i]}
       /\ {r[j] : j \in n .. Len(e) - 1} = {e[j] : j \in n + 1 .. Len(e)}
  <2> DEFINE L == Len(e)
  <2>1. L \in Nat /\ n \in 1 .. L /\ i \in 1 .. n
    BY <1>1
  <2>2. \A j \in 1 .. L - 1 : /\ j = n => r[j] = e[L]
                              /\ j # n /\ j = i => r[j] = e[n]
                              /\ j # n /\ j # i => r[j] = e[j]
    BY <1>10
  <2>3. /\ \A j, k \in 1 .. n : e[j] = e[k] => j = k
        /\ \A j, k \in n + 1 .. L : e[j] = e[k] => j = k
    BY <1>3
  <2> HIDE DEF L
  <2>4. /\ \A j, k \in 1 .. n - 1 : r[j] = r[k] => j = k
        /\ \A j, k \in n .. L - 1 : r[j] = r[k] => j = k
    BY <2>1, <2>2, <2>3, SuccessorPlaces
  <2>5. /\ {r[j] : j \in 1 .. n - 1} = {e[j] : j \in 1 .. n} \ {e[i]}
        /\ {r[j] : j \in n .. L - 1} = {e[j] : j \in n + 1 .. L}
    BY <2>1, <2>2, <2>3, SuccessorPlaces
  <2> QED BY <2>4, <2>5 DEF L
<1>12. n - 1 \in Nat /\ n - 1 \in 0 .. Len(e) - 1 /\ (n - 1) + 1 = n
  BY <1>1
<1>13. y.edges = r /\ y.nsucc = n - 1 /\ y \in WorkRecords /\ Rest(y) = Rest(x)
  BY <1>2, <1>9, <1>12 DEF WorkRecords, Rest
<1>14. Edged(y)
  <2>1. y.nsucc \in 0 .. Len(y.edges)
    BY <1>9, <1>12, <1>13
  <2>2. \A j, k \in 1 .. y.nsucc : y.edges[j] = y.edges[k] => j = k
    BY <1>11, <1>13
  <2>3. \A j, k \in y.nsucc + 1 .. Len(y.edges) : y.edges[j] = y.edges[k] => j = k
    <3>1. y.nsucc + 1 = n /\ Len(y.edges) = Len(e) - 1
      BY <1>9, <1>12, <1>13
    <3> QED BY <1>11, <1>13, <3>1
  <2> QED BY <2>1, <2>2, <2>3 DEF Edged
<1>15. Targets(y) = {r[j] : j \in 1 .. n - 1} /\ Origins(y) = {r[j] : j \in n .. Len(e) - 1}
  BY <1>9, <1>12, <1>13 DEF Targets, Origins
<1>16. Targets(x) = {e[j] : j \in 1 .. n} /\ Origins(x) = {e[j] : j \in n + 1 .. Len(e)}
  BY DEF Targets, Origins, e, n
<1> QED BY <1>11, <1>13, <1>14, <1>15, <1>16 DEF e

\* A Work with another array of edges.
Rearranged(x, r, m) == [x EXCEPT !.edges = r, !.nsucc = m]

\* No block stands twice in r at the indices in S.
NoTwice(r, S) == \A j, k \in S : r[j] = r[k] => j = k

\* y is x with r for its edges, of which m are to successors.
PartsAre(y, x, r, m) ==
  /\ y \in WorkRecords /\ Edged(y) /\ Rest(y) = Rest(x)
  /\ Targets(y) = {r[j] : j \in 1 .. m}
  /\ Origins(y) = {r[j] : j \in m + 1 .. Len(r)}

\* Its parts are as sound as the array.
LEMMA NewEdges ==
  ASSUME NEW x \in WorkRecords, NEW r \in Seq(Blocks), NEW m \in 0 .. Len(r), NEW y,
         y = Rearranged(x, r, m), NoTwice(r, 1 .. m), NoTwice(r, m + 1 .. Len(r))
  PROVE  PartsAre(y, x, r, m)
<1>1. m \in Nat
  OBVIOUS
<1>2. y.edges = r /\ y.nsucc = m /\ y \in WorkRecords /\ Rest(y) = Rest(x)
  BY <1>1 DEF WorkRecords, Rest, Rearranged
<1>3. Edged(y)
  BY <1>2 DEF Edged, NoTwice
<1>4. Targets(y) = {r[j] : j \in 1 .. m} /\ Origins(y) = {r[j] : j \in m + 1 .. Len(r)}
  BY <1>2 DEF Targets, Origins
<1> QED BY <1>2, <1>3, <1>4 DEF PartsAre

\* The predecessor at i is gone, and the successors are the same.
LEMMA PredecessorErased ==
  ASSUME NEW x \in WorkRecords, Edged(x), NEW i \in 1 .. Len(x.edges) - x.nsucc, NEW y,
         y = ErasePredecessorAt(x, i)
  PROVE  /\ y \in WorkRecords /\ Edged(y) /\ Rest(y) = Rest(x)
         /\ Targets(y) = Targets(x) /\ Origins(y) = Origins(x) \ {x.edges[x.nsucc + i]}
<1> DEFINE e == x.edges
           n == x.nsucc
           L == Len(e)
           m == n + i
           r == Filled(e, m)
<1>1. /\ e \in Seq(Blocks) /\ n \in 0 .. L /\ L \in Nat /\ n \in Nat
      /\ \A j \in 1 .. L : e[j] \in Blocks
      /\ i \in 1 .. L - n
  BY EdgeTypes DEF Edged
<1>2. y = Rearranged(x, r, n)
  <2>1. y = [x EXCEPT !.edges = r]
    BY DEF ErasePredecessorAt, Filled
  <2> QED BY <2>1 DEF WorkRecords, Rearranged
<1>3. /\ \A j, k \in 1 .. n : e[j] = e[k] => j = k
      /\ \A j, k \in n + 1 .. L : e[j] = e[k] => j = k
  BY DEF Edged
<1>4. Targets(x) = {e[j] : j \in 1 .. n} /\ Origins(x) = {e[j] : j \in n + 1 .. L}
  BY DEF Targets, Origins
<1> HIDE DEF e, n
<1>5. m \in 1 .. L /\ m \in n + 1 .. L /\ L \in n + 1 .. L /\ n \in 0 .. L - 1
  BY <1>1
<1>6. /\ r \in Seq(Blocks) /\ Len(r) = L - 1
      /\ \A j \in 1 .. L - 1 : (j = m => r[j] = e[L]) /\ (j # m => r[j] = e[j])
  BY <1>1, <1>5, HoleFilled
<1> HIDE DEF L, m, r
<1>7. \A j \in 1 .. n : j \in 1 .. L - 1 /\ j # m
  BY <1>1, <1>5
<1>8. \A j \in n + 1 .. L - 1 : j \in 1 .. L - 1 /\ j \in n + 1 .. L /\ j # L
  BY <1>1, <1>5
<1>9. \A j \in n + 1 .. L : j # L => j \in n + 1 .. L - 1
  BY <1>1, <1>5
<1>10. \A j, k \in 1 .. n : r[j] = r[k] => j = k
  BY <1>3, <1>6, <1>7
<1>11. \A j, k \in n + 1 .. L - 1 : r[j] = r[k] => j = k
  <2> SUFFICES ASSUME NEW j \in n + 1 .. L - 1, NEW k \in n + 1 .. L - 1, r[j] = r[k]
               PROVE  j = k
    OBVIOUS
  <2>1. CASE j = m /\ k # m
    BY <1>3, <1>5, <1>6, <1>8, <2>1
  <2>2. CASE j # m /\ k = m
    BY <1>3, <1>5, <1>6, <1>8, <2>2
  <2>3. CASE j # m /\ k # m
    BY <1>3, <1>5, <1>6, <1>8, <2>3
  <2> QED BY <2>1, <2>2, <2>3
<1>12. /\ y \in WorkRecords /\ Edged(y) /\ Rest(y) = Rest(x)
       /\ Targets(y) = {r[j] : j \in 1 .. n}
       /\ Origins(y) = {r[j] : j \in n + 1 .. L - 1}
  <2>1. n \in 0 .. Len(r) /\ Len(r) = L - 1
    BY <1>5, <1>6
  <2>2. NoTwice(r, 1 .. n) /\ NoTwice(r, n + 1 .. Len(r))
    BY <1>6, <1>10, <1>11 DEF NoTwice
  <2>3. PartsAre(y, x, r, n)
    BY <1>2, <1>6, <2>1, <2>2, NewEdges
  <2> QED BY <2>1, <2>3 DEF PartsAre
<1>13. {r[j] : j \in 1 .. n} = {e[j] : j \in 1 .. n}
  BY <1>6, <1>7
<1>14. {r[j] : j \in n + 1 .. L - 1} = {e[j] : j \in n + 1 .. L} \ {e[m]}
  <2>1. ASSUME NEW j \in n + 1 .. L - 1 PROVE r[j] \in {e[k] : k \in n + 1 .. L} \ {e[m]}
    <3>1. CASE j = m
      <4>1. r[j] = e[L] /\ L # m
        BY <1>6, <1>8, <3>1
      <4>2. e[L] # e[m]
        BY <1>3, <1>5, <4>1
      <4> QED BY <1>5, <4>1, <4>2
    <3>2. CASE j # m
      <4>1. r[j] = e[j] /\ e[j] # e[m]
        BY <1>3, <1>5, <1>6, <1>8, <3>2
      <4> QED BY <1>8, <4>1
    <3> QED BY <3>1, <3>2
  <2>2. ASSUME NEW j \in n + 1 .. L, e[j] # e[m] PROVE e[j] \in {r[k] : k \in n + 1 .. L - 1}
    <3>1. CASE j # L
      <4>1. j \in n + 1 .. L - 1 /\ r[j] = e[j]
        BY <1>6, <1>8, <1>9, <2>2, <3>1
      <4> QED BY <4>1
    <3>2. CASE j = L
      <4>1. m \in n + 1 .. L - 1
        BY <1>5, <1>9, <2>2, <3>2
      <4>2. r[m] = e[j]
        BY <1>6, <1>8, <3>2, <4>1
      <4> QED BY <4>1, <4>2
    <3> QED BY <3>1, <3>2
  <2> QED BY <2>1, <2>2
<1> QED BY <1>4, <1>12, <1>13, <1>14 DEF e, n, m

\* One successor more.
LEMMA SuccessorPushed ==
  ASSUME NEW x \in WorkRecords, Edged(x), NEW v \in Blocks \ Targets(x), NEW y,
         y = PushSuccessor(x, v)
  PROVE  /\ y \in WorkRecords /\ Edged(y) /\ Rest(y) = Rest(x)
         /\ Targets(y) = Targets(x) \cup {v} /\ Origins(y) = Origins(x)
         /\ y.nsucc = x.nsucc + 1 /\ y.nsucc \in 1 .. y.nsucc /\ y.edges[y.nsucc] = v
<1> DEFINE e == x.edges
           n == x.nsucc
           L == Len(e)
           a == Append(e, v)
           b == [a EXCEPT ![n + 1] = v]
           r == [b EXCEPT ![L + 1] = a[n + 1]]
<1>1. /\ e \in Seq(Blocks) /\ n \in 0 .. L /\ L \in Nat /\ n \in Nat /\ v \in Blocks
      /\ \A j \in 1 .. L : e[j] \in Blocks
  BY EdgeTypes DEF Edged
<1>2. /\ \A j, k \in 1 .. n : e[j] = e[k] => j = k
      /\ \A j, k \in n + 1 .. L : e[j] = e[k] => j = k
  BY DEF Edged
<1>3. Targets(x) = {e[j] : j \in 1 .. n} /\ Origins(x) = {e[j] : j \in n + 1 .. L}
  BY DEF Targets, Origins
<1>4. Len(a) = L + 1
  BY <1>1
<1>5. y = Rearranged(x, r, n + 1)
  BY <1>4 DEF Rearranged, PushSuccessor
<1> HIDE DEF e, n
<1>6. /\ a \in Seq(Blocks) /\ \A j \in 1 .. L : a[j] = e[j]
      /\ a[L + 1] = v
  BY <1>1
<1> HIDE DEF L, a
<1>7. n + 1 \in 1 .. L + 1 /\ L + 1 \in 1 .. L + 1
  BY <1>1
<1>8. \A j \in 1 .. L + 1 : j # L + 1 => j \in 1 .. L
  BY <1>1
<1>9. a[n + 1] \in Blocks
  BY <1>1, <1>4, <1>6, <1>7, ElementOfSeq
<1>10. /\ b \in Seq(Blocks) /\ Len(b) = L + 1
       /\ \A j \in 1 .. L + 1 : b[j] = IF j = n + 1 THEN v ELSE a[j]
  BY <1>1, <1>4, <1>6, <1>7, ExceptSeq
<1> HIDE DEF b
<1>11. /\ r \in Seq(Blocks) /\ Len(r) = L + 1
       /\ \A j \in 1 .. L + 1 : r[j] = IF j = L + 1 THEN a[n + 1] ELSE b[j]
  BY <1>7, <1>9, <1>10, ExceptSeq
<1> HIDE DEF r
<1>12. \A j \in 1 .. n : j \in 1 .. L + 1 /\ j \in 1 .. L /\ j # n + 1 /\ j # L + 1
  BY <1>1
<1>13. \A j \in 1 .. n : r[j] = e[j]
  BY <1>6, <1>10, <1>11, <1>12
<1>14. r[n + 1] = v
  BY <1>6, <1>7, <1>10, <1>11
<1>15. \A j \in n + 2 .. L + 1 : /\ j \in 1 .. L + 1 /\ j # n + 1 /\ n + 1 \in n + 1 .. L
                                 /\ j # L + 1 => j \in n + 1 .. L
  BY <1>1
<1>16. \A j \in n + 2 .. L + 1 : /\ j = L + 1 => r[j] = e[n + 1]
                                 /\ j # L + 1 => r[j] = e[j]
  <2> SUFFICES ASSUME NEW j \in n + 2 .. L + 1
               PROVE  /\ j = L + 1 => r[j] = e[n + 1]
                      /\ j # L + 1 => r[j] = e[j]
    OBVIOUS
  <2>1. n + 1 \in 1 .. L
    BY <1>1, <1>15
  <2>2. j # L + 1 => j \in 1 .. L
    BY <1>8, <1>15
  <2> QED BY <1>6, <1>10, <1>11, <1>15, <2>1, <2>2
<1>17. \A j, k \in 1 .. n + 1 : r[j] = r[k] => j = k
  <2> SUFFICES ASSUME NEW j \in 1 .. n + 1, NEW k \in 1 .. n + 1, r[j] = r[k] PROVE j = k
    OBVIOUS
  <2>1. \A m \in 1 .. n + 1 : m # n + 1 => m \in 1 .. n
    BY <1>1
  <2>2. \A m \in 1 .. n : r[m] # v
    BY <1>3, <1>13
  <2> QED BY <1>2, <1>13, <1>14, <2>1, <2>2
<1>18. \A j, k \in n + 2 .. L + 1 : r[j] = r[k] => j = k
  <2> SUFFICES ASSUME NEW j \in n + 2 .. L + 1, NEW k \in n + 2 .. L + 1, r[j] = r[k]
               PROVE  j = k
    OBVIOUS
  <2>1. \A m \in n + 2 .. L + 1 : m # n + 1
    BY <1>1
  <2>2. CASE j = L + 1 /\ k # L + 1
    BY <1>2, <1>15, <1>16, <2>1, <2>2
  <2>3. CASE j # L + 1 /\ k = L + 1
    BY <1>2, <1>15, <1>16, <2>1, <2>3
  <2>4. CASE j # L + 1 /\ k # L + 1
    BY <1>2, <1>15, <1>16, <2>4
  <2> QED BY <2>2, <2>3, <2>4
<1>19. /\ y \in WorkRecords /\ Edged(y) /\ Rest(y) = Rest(x)
       /\ Targets(y) = {r[j] : j \in 1 .. n + 1}
       /\ Origins(y) = {r[j] : j \in n + 2 .. L + 1}
  <2> DEFINE m == n + 1
  <2>1. m \in 0 .. Len(r) /\ m + 1 = n + 2 /\ Len(r) = L + 1
    BY <1>1, <1>11
  <2>2. y = Rearranged(x, r, m) /\ NoTwice(r, 1 .. m)
    BY <1>5, <1>17 DEF NoTwice
  <2> HIDE DEF m
  <2>3. m + 1 .. Len(r) = n + 2 .. L + 1
    BY <2>1
  <2>4. NoTwice(r, m + 1 .. Len(r))
    BY <1>18, <2>3 DEF NoTwice
  <2>5. PartsAre(y, x, r, m)
    BY <1>11, <2>1, <2>2, <2>4, NewEdges
  <2> QED BY <2>1, <2>5 DEF m, PartsAre
<1>20. {r[j] : j \in 1 .. n + 1} = {e[j] : j \in 1 .. n} \cup {v}
  <2>1. \A j \in 1 .. n + 1 : j # n + 1 => j \in 1 .. n
    BY <1>1
  <2>2. \A j \in 1 .. n : j \in 1 .. n + 1
    BY <1>1
  <2>3. n + 1 \in 1 .. n + 1
    BY <1>1
  <2> QED BY <1>13, <1>14, <2>1, <2>2, <2>3
<1>21. {r[j] : j \in n + 2 .. L + 1} = {e[j] : j \in n + 1 .. L}
  <2>1. ASSUME NEW j \in n + 2 .. L + 1 PROVE r[j] \in {e[k] : k \in n + 1 .. L}
    BY <1>15, <1>16
  <2>2. ASSUME NEW j \in n + 1 .. L PROVE e[j] \in {r[k] : k \in n + 2 .. L + 1}
    <3>1. CASE j = n + 1
      <4>1. L + 1 \in n + 2 .. L + 1 /\ r[L + 1] = e[j]
        BY <1>1, <1>16, <3>1
      <4> QED BY <4>1
    <3>2. CASE j # n + 1
      <4>1. j \in n + 2 .. L + 1 /\ j # L + 1
        BY <1>1, <3>2
      <4>2. r[j] = e[j]
        BY <1>16, <4>1
      <4> QED BY <4>1, <4>2
    <3> QED BY <3>1, <3>2
  <2> QED BY <2>1, <2>2
<1>22. y.nsucc = n + 1 /\ y.edges = r /\ n + 1 \in 1 .. n + 1
  BY <1>1, <1>5 DEF WorkRecords, Rearranged
<1> QED BY <1>3, <1>14, <1>19, <1>20, <1>21, <1>22 DEF n

\* One predecessor more.
LEMMA PredecessorPushed ==
  ASSUME NEW x \in WorkRecords, Edged(x), NEW u \in Blocks \ Origins(x), NEW y,
         y = PushPredecessor(x, u)
  PROVE  /\ y \in WorkRecords /\ Edged(y) /\ Rest(y) = Rest(x)
         /\ Targets(y) = Targets(x) /\ Origins(y) = Origins(x) \cup {u}
<1> DEFINE e == x.edges
           n == x.nsucc
           L == Len(e)
           r == Append(e, u)
<1>1. /\ e \in Seq(Blocks) /\ n \in 0 .. L /\ L \in Nat /\ n \in Nat /\ u \in Blocks
  BY EdgeTypes DEF Edged
<1>2. /\ \A j, k \in 1 .. n : e[j] = e[k] => j = k
      /\ \A j, k \in n + 1 .. L : e[j] = e[k] => j = k
  BY DEF Edged
<1>3. Targets(x) = {e[j] : j \in 1 .. n} /\ Origins(x) = {e[j] : j \in n + 1 .. L}
  BY DEF Targets, Origins
<1>4. y = Rearranged(x, r, n)
  BY DEF Rearranged, PushPredecessor, WorkRecords
<1> HIDE DEF e, n
<1>5. /\ r \in Seq(Blocks) /\ Len(r) = L + 1 /\ \A j \in 1 .. L : r[j] = e[j]
      /\ r[L + 1] = u
  BY <1>1
<1> HIDE DEF L, r
<1>6. \A j \in 1 .. n : j \in 1 .. L
  BY <1>1
<1>7. /\ \A j \in n + 1 .. L : j \in 1 .. L /\ j \in n + 1 .. L + 1
      /\ \A j \in n + 1 .. L + 1 : j # L + 1 => j \in n + 1 .. L
      /\ L + 1 \in n + 1 .. L + 1
  BY <1>1
<1>8. \A j \in n + 1 .. L : r[j] = e[j] /\ r[j] # u
  BY <1>3, <1>5, <1>7
<1>9. \A j, k \in n + 1 .. L + 1 : r[j] = r[k] => j = k
  BY <1>2, <1>5, <1>7, <1>8
<1>10. \A j, k \in 1 .. n : r[j] = r[k] => j = k
  BY <1>2, <1>5, <1>6
<1>11. /\ y \in WorkRecords /\ Edged(y) /\ Rest(y) = Rest(x)
       /\ Targets(y) = {r[j] : j \in 1 .. n}
       /\ Origins(y) = {r[j] : j \in n + 1 .. L + 1}
  <2>1. n \in 0 .. Len(r)
    BY <1>1, <1>5
  <2>2. NoTwice(r, 1 .. n) /\ NoTwice(r, n + 1 .. Len(r))
    BY <1>5, <1>9, <1>10 DEF NoTwice
  <2>3. PartsAre(y, x, r, n)
    BY <1>4, <1>5, <2>1, <2>2, NewEdges
  <2> QED BY <1>5, <2>3 DEF PartsAre
<1>12. {r[j] : j \in 1 .. n} = {e[j] : j \in 1 .. n}
  BY <1>5, <1>6
<1>13. {r[j] : j \in n + 1 .. L + 1} = {e[j] : j \in n + 1 .. L} \cup {u}
  BY <1>5, <1>7, <1>8
<1> QED BY <1>3, <1>11, <1>12, <1>13

\* Erasing a successor or a predecessor that is there.
LEMMA EndErased ==
  ASSUME NEW x \in WorkRecords, Edged(x)
  PROVE  /\ \A v \in Targets(x) :
              LET y == EraseSuccessor(x, v)
              IN  /\ y \in WorkRecords /\ Edged(y) /\ Rest(y) = Rest(x)
                  /\ Targets(y) = Targets(x) \ {v} /\ Origins(y) = Origins(x)
         /\ \A u \in Origins(x) :
              LET y == ErasePredecessor(x, u)
              IN  /\ y \in WorkRecords /\ Edged(y) /\ Rest(y) = Rest(x)
                  /\ Targets(y) = Targets(x) /\ Origins(y) = Origins(x) \ {u}
<1>1. ASSUME NEW v \in Targets(x), NEW y, y = EraseSuccessor(x, v)
      PROVE  /\ y \in WorkRecords /\ Edged(y) /\ Rest(y) = Rest(x)
             /\ Targets(y) = Targets(x) \ {v} /\ Origins(y) = Origins(x)
  <2> DEFINE i == IndexOf(Successors(x), v)
  <2>1. i \in 1 .. x.nsucc /\ x.edges[i] = v
    BY EdgeSets
  <2>2. y = EraseSuccessorAt(x, i)
    BY <1>1 DEF EraseSuccessor
  <2> HIDE DEF i
  <2> QED BY <2>1, <2>2, SuccessorErased
<1>2. ASSUME NEW u \in Origins(x), NEW y, y = ErasePredecessor(x, u)
      PROVE  /\ y \in WorkRecords /\ Edged(y) /\ Rest(y) = Rest(x)
             /\ Targets(y) = Targets(x) /\ Origins(y) = Origins(x) \ {u}
  <2> DEFINE i == IndexOf(Predecessors(x), u)
  <2>1. i \in 1 .. Len(x.edges) - x.nsucc /\ x.edges[x.nsucc + i] = u
    BY EdgeSets
  <2>2. y = ErasePredecessorAt(x, i)
    BY <1>2 DEF ErasePredecessor
  <2> HIDE DEF i
  <2> QED BY <2>1, <2>2, PredecessorErased
<1> QED BY <1>1, <1>2

\* Dropping a whole part.
LEMMA PartDropped ==
  ASSUME NEW x \in WorkRecords, Edged(x), NEW y
  PROVE  /\ y = Rearranged(x, Successors(x), x.nsucc) =>
              /\ y \in WorkRecords /\ Edged(y) /\ Rest(y) = Rest(x)
              /\ Targets(y) = Targets(x) /\ Origins(y) = {}
         /\ y = Rearranged(x, Predecessors(x), 0) =>
              /\ y \in WorkRecords /\ Edged(y) /\ Rest(y) = Rest(x)
              /\ Targets(y) = {} /\ Origins(y) = Origins(x)
<1> DEFINE e == x.edges
           n == x.nsucc
           L == Len(e)
           s == Successors(x)
           p == Predecessors(x)
<1>1. /\ s \in Seq(Blocks) /\ Len(s) = n /\ \A i \in 1 .. n : s[i] = e[i]
      /\ p \in Seq(Blocks) /\ Len(p) = L - n /\ \A i \in 1 .. L - n : p[i] = e[n + i]
  BY EdgeParts
<1>2. n \in 0 .. L /\ L \in Nat /\ n \in Nat
  BY EdgeTypes DEF Edged
<1>3. /\ \A j, k \in 1 .. n : e[j] = e[k] => j = k
      /\ \A j, k \in n + 1 .. L : e[j] = e[k] => j = k
  BY DEF Edged
<1>4. Targets(x) = {e[j] : j \in 1 .. n} /\ Origins(x) = {e[j] : j \in n + 1 .. L}
  BY DEF Targets, Origins
<1>5. Range(p) = Origins(x)
  BY EdgeSets
<1>6. ASSUME y = Rearranged(x, s, n)
      PROVE  /\ y \in WorkRecords /\ Edged(y) /\ Rest(y) = Rest(x)
             /\ Targets(y) = Targets(x) /\ Origins(y) = {}
  <2> HIDE DEF e, n, s, p
  <2>0. s \in Seq(Blocks) /\ n \in 0 .. Len(s)
    BY <1>1, <1>2
  <2>1. n + 1 .. Len(s) = {}
    BY <1>1, <1>2
  <2>2. ASSUME NEW j \in 1 .. n, NEW k \in 1 .. n, s[j] = s[k]
        PROVE  j = k
    <3>1. s[j] = e[j] /\ s[k] = e[k]
      BY <1>1
    <3> QED BY <1>3, <2>2, <3>1
  <2>3. NoTwice(s, 1 .. n) /\ NoTwice(s, n + 1 .. Len(s))
    BY <2>1, <2>2 DEF NoTwice
  <2>4. PartsAre(y, x, s, n)
    BY <1>6, <2>0, <2>3, NewEdges
  <2>5. {s[j] : j \in 1 .. n} = {e[j] : j \in 1 .. n}
    BY <1>1
  <2> QED BY <1>4, <2>1, <2>4, <2>5 DEF PartsAre
<1>7. ASSUME y = Rearranged(x, p, 0)
      PROVE  /\ y \in WorkRecords /\ Edged(y) /\ Rest(y) = Rest(x)
             /\ Targets(y) = {} /\ Origins(y) = Origins(x)
  <2>0. p \in Seq(Blocks) /\ Len(p) \in Nat /\ DOMAIN p = 1 .. Len(p)
    BY <1>1, LenProperties
  <2> HIDE DEF e, n, s, p
  <2> DEFINE m == 0
  <2>1. m \in 0 .. Len(p) /\ 1 .. m = {} /\ m + 1 = 1
    BY <2>0
  <2>2. \A j, k \in 1 .. Len(p) : p[j] = p[k] => j = k
    <3> SUFFICES ASSUME NEW j \in 1 .. Len(p), NEW k \in 1 .. Len(p), p[j] = p[k]
                 PROVE  j = k
      OBVIOUS
    <3>1. n + j \in n + 1 .. L /\ n + k \in n + 1 .. L
      BY <1>1, <1>2
    <3>2. e[n + j] = e[n + k]
      BY <1>1
    <3>3. n + j = n + k
      BY <1>3, <3>1, <3>2
    <3> QED BY <1>2, <2>0, <3>3
  <2>3. y = Rearranged(x, p, m)
    BY <1>7
  <2> HIDE DEF m
  <2>6. m \in 0 .. Len(p)
    BY <2>1
  <2>7. NoTwice(p, 1 .. m) /\ NoTwice(p, m + 1 .. Len(p))
    BY <2>1, <2>2 DEF NoTwice
  <2>4. PartsAre(y, x, p, m)
    BY <2>0, <2>3, <2>6, <2>7, NewEdges
  <2>5. {p[j] : j \in 1 .. Len(p)} = Range(p)
    BY <2>0 DEF Range
  <2> QED BY <1>5, <2>1, <2>4, <2>5 DEF PartsAre
<1> QED BY <1>6, <1>7

-----------------------------------------------------------------------------
(* Works that are the nodes W of a digraph with the edges E.               *)

Drawn(f, W, E) ==
  /\ f \in [Blocks -> WorkRecords]
  /\ \A b \in W : /\ Edged(f[b])
                  /\ \A v : v \in Targets(f[b]) <=> v \in W /\ <<b, v>> \in E
                  /\ \A u : u \in Origins(f[b]) <=> u \in W /\ <<u, b>> \in E

\* g has the edges E among W, and is f otherwise.
Redrawn(f, g, W, E) ==
  /\ Drawn(g, W, E)
  /\ \A b \in Blocks : (b \notin W => g[b] = f[b]) /\ Rest(g[b]) = Rest(f[b])

\* remove_successor takes the edge from both ends.
LEMMA RemoveSuccessorRedraws ==
  ASSUME NEW W \in SUBSET Blocks, NEW E, NEW f, Drawn(f, W, E), NEW u \in W, NEW v \in W
  PROVE  Redrawn(f, RemoveSuccessor(f, u, v), W, E \ {<<u, v>>})
<1> DEFINE y == EraseSuccessor(f[u], v)
           g == [f EXCEPT ![u] = y]
           z == ErasePredecessor(g[v], u)
           h == [g EXCEPT ![v] = z]
<1>1. /\ f \in [Blocks -> WorkRecords] /\ u \in Blocks /\ v \in Blocks
      /\ f[u] \in WorkRecords /\ Edged(f[u]) /\ f[v] \in WorkRecords /\ Edged(f[v])
  BY DEF Drawn
<1>2. Range(Successors(f[u])) = Targets(f[u])
  BY <1>1, EdgeSets
<1>3. v \in Targets(f[u]) <=> <<u, v>> \in E
  BY DEF Drawn
<1>4. CASE <<u, v>> \notin E
  <2>1. RemoveSuccessor(f, u, v) = f
    BY <1>2, <1>3, <1>4 DEF RemoveSuccessor
  <2>2. E \ {<<u, v>>} = E
    BY <1>4
  <2> QED BY <2>1, <2>2 DEF Redrawn
<1>5. CASE <<u, v>> \in E
  <2>1. RemoveSuccessor(f, u, v) = h
    BY <1>2, <1>3, <1>5 DEF RemoveSuccessor
  <2>2. /\ y \in WorkRecords /\ Edged(y) /\ Rest(y) = Rest(f[u])
        /\ Targets(y) = Targets(f[u]) \ {v} /\ Origins(y) = Origins(f[u])
    BY <1>1, <1>3, <1>5, EndErased
  <2> HIDE DEF y
  <2>3. g \in [Blocks -> WorkRecords] /\ \A b \in Blocks : g[b] = IF b = u THEN y ELSE f[b]
    BY <1>1, <2>2
  <2>4. g[v] \in WorkRecords /\ Edged(g[v]) /\ Rest(g[v]) = Rest(f[v])
        /\ Origins(g[v]) = Origins(f[v])
        /\ Targets(g[v]) = IF u = v THEN Targets(f[u]) \ {v} ELSE Targets(f[v])
    BY <1>1, <2>2, <2>3
  <2>5. u \in Origins(f[v])
    BY <1>5 DEF Drawn
  <2>6. /\ z \in WorkRecords /\ Edged(z) /\ Rest(z) = Rest(g[v])
        /\ Targets(z) = Targets(g[v]) /\ Origins(z) = Origins(g[v]) \ {u}
    BY <2>4, <2>5, EndErased
  <2> HIDE DEF z, g
  <2>7. h \in [Blocks -> WorkRecords] /\ \A b \in Blocks : h[b] = IF b = v THEN z ELSE g[b]
    BY <1>1, <2>3, <2>6
  <2> HIDE DEF h
  <2>8. \A b \in Blocks : (b \notin W => h[b] = f[b]) /\ Rest(h[b]) = Rest(f[b])
    BY <2>2, <2>3, <2>4, <2>6, <2>7
  <2>9. ASSUME NEW b \in W
        PROVE  /\ Edged(h[b])
               /\ Targets(h[b]) = IF b = u THEN Targets(f[b]) \ {v} ELSE Targets(f[b])
               /\ Origins(h[b]) = IF b = v THEN Origins(f[b]) \ {u} ELSE Origins(f[b])
    <3>1. b \in Blocks /\ Edged(f[b])
      BY DEF Drawn
    <3> QED BY <2>2, <2>3, <2>4, <2>6, <2>7, <3>1
  <2>10. Drawn(h, W, E \ {<<u, v>>})
    <3>1. ASSUME NEW b \in W
          PROVE  /\ \A w : w \in Targets(h[b]) <=> w \in W /\ <<b, w>> \in E \ {<<u, v>>}
                 /\ \A w : w \in Origins(h[b]) <=> w \in W /\ <<w, b>> \in E \ {<<u, v>>}
      <4>1. /\ \A w : w \in Targets(f[b]) <=> w \in W /\ <<b, w>> \in E
            /\ \A w : w \in Origins(f[b]) <=> w \in W /\ <<w, b>> \in E
        BY DEF Drawn
      <4> QED BY <2>9, <4>1
    <3> QED BY <2>7, <2>9, <3>1 DEF Drawn
  <2> QED BY <2>1, <2>8, <2>10 DEF Redrawn
<1> QED BY <1>4, <1>5

\* clear_predecessors: no edge ends at v.
LEMMA ClearPredecessorsRedraws ==
  ASSUME NEW W \in SUBSET Blocks, NEW E, NEW f, Drawn(f, W, E), NEW v \in W
  PROVE  Redrawn(f, ClearPredecessors(f, v), W, {e \in E : e[2] # v})
<1> DEFINE F == {e \in E : e[2] # v}
           g == [w \in DOMAIN f |-> IF w \in Range(Predecessors(f[v]))
                                    THEN EraseSuccessor(f[w], v) ELSE f[w]]
           z == Rearranged(g[v], Successors(g[v]), g[v].nsucc)
           h == [g EXCEPT ![v] = z]
<1>1. /\ f \in [Blocks -> WorkRecords] /\ v \in Blocks
      /\ f[v] \in WorkRecords /\ Edged(f[v])
  BY DEF Drawn
<1>2. Range(Predecessors(f[v])) = Origins(f[v])
  BY <1>1, EdgeSets
<1>3. \A w : w \in Origins(f[v]) <=> w \in W /\ <<w, v>> \in E
  BY DEF Drawn
<1>4. \A b \in Blocks : g[b] = IF b \in W /\ <<b, v>> \in E THEN EraseSuccessor(f[b], v) ELSE f[b]
  BY <1>1, <1>2, <1>3
<1>5. DOMAIN g = Blocks
  BY <1>1
<1>6. ClearPredecessors(f, v) = h
  <2>1. ClearPredecessors(f, v) = [g EXCEPT ![v].edges = Successors(g[v])]
    BY DEF ClearPredecessors
  <2>2. g[v] \in WorkRecords
    BY <1>1, <1>3, <1>4, EndErased DEF Drawn
  <2> HIDE DEF g
  <2>3. z = [g[v] EXCEPT !.edges = Successors(g[v])]
    BY <2>2 DEF Rearranged, WorkRecords
  <2> QED BY <2>1, <2>3
<1> HIDE DEF g
<1>7. ASSUME NEW b \in W
      PROVE  /\ g[b] \in WorkRecords /\ Edged(g[b]) /\ Rest(g[b]) = Rest(f[b])
             /\ Targets(g[b]) = Targets(f[b]) \ {v} /\ Origins(g[b]) = Origins(f[b])
  <2>1. b \in Blocks /\ f[b] \in WorkRecords /\ Edged(f[b])
    BY <1>1 DEF Drawn
  <2>2. v \in Targets(f[b]) <=> <<b, v>> \in E
    BY DEF Drawn
  <2>3. CASE <<b, v>> \in E
    BY <1>4, <2>1, <2>2, <2>3, EndErased
  <2>4. CASE <<b, v>> \notin E
    BY <1>4, <2>1, <2>2, <2>4
  <2> QED BY <2>3, <2>4
<1>8. g \in [Blocks -> WorkRecords]
  <2>1. \A b \in Blocks : g[b] \in WorkRecords
    BY <1>1, <1>4, <1>7
  <2>2. g = [b \in Blocks |-> g[b]]
    BY <1>1 DEF g
  <2> QED BY <2>1, <2>2
<1>9. /\ z \in WorkRecords /\ Edged(z) /\ Rest(z) = Rest(g[v])
      /\ Targets(z) = Targets(g[v]) /\ Origins(z) = {}
  BY <1>7, PartDropped
<1> HIDE DEF z
<1>10. h \in [Blocks -> WorkRecords] /\ \A b \in Blocks : h[b] = IF b = v THEN z ELSE g[b]
  BY <1>1, <1>8, <1>9
<1> HIDE DEF h
<1>11. \A b \in Blocks : (b \notin W => h[b] = f[b]) /\ Rest(h[b]) = Rest(f[b])
  BY <1>4, <1>7, <1>9, <1>10
<1>12. ASSUME NEW b \in W
       PROVE  /\ Edged(h[b]) /\ Targets(h[b]) = Targets(f[b]) \ {v}
              /\ Origins(h[b]) = IF b = v THEN {} ELSE Origins(f[b])
  BY <1>7, <1>9, <1>10
<1>13. Drawn(h, W, F)
  <2>1. ASSUME NEW b \in W
        PROVE  /\ \A w : w \in Targets(h[b]) <=> w \in W /\ <<b, w>> \in F
               /\ \A w : w \in Origins(h[b]) <=> w \in W /\ <<w, b>> \in F
    <3>1. /\ \A w : w \in Targets(f[b]) <=> w \in W /\ <<b, w>> \in E
          /\ \A w : w \in Origins(f[b]) <=> w \in W /\ <<w, b>> \in E
      BY DEF Drawn
    <3>2. \A w : /\ <<b, w>> \in F <=> <<b, w>> \in E /\ w # v
                 /\ <<w, b>> \in F <=> <<w, b>> \in E /\ b # v
      OBVIOUS
    <3> HIDE DEF F
    <3> QED BY <1>12, <3>1, <3>2
  <2> HIDE DEF F
  <2> QED BY <1>10, <1>12, <2>1 DEF Drawn
<1> QED BY <1>6, <1>11, <1>13 DEF Redrawn

\* clear_successors: no edge begins at u.
LEMMA ClearSuccessorsRedraws ==
  ASSUME NEW W \in SUBSET Blocks, NEW E, NEW f, Drawn(f, W, E), NEW u \in W
  PROVE  Redrawn(f, ClearSuccessors(f, u), W, {e \in E : e[1] # u})
<1> DEFINE F == {e \in E : e[1] # u}
           g == [w \in DOMAIN f |-> IF w \in Range(Successors(f[u]))
                                    THEN ErasePredecessor(f[w], u) ELSE f[w]]
           z == Rearranged(g[u], Predecessors(g[u]), 0)
           h == [g EXCEPT ![u] = z]
<1>1. /\ f \in [Blocks -> WorkRecords] /\ u \in Blocks
      /\ f[u] \in WorkRecords /\ Edged(f[u])
  BY DEF Drawn
<1>2. Range(Successors(f[u])) = Targets(f[u])
  BY <1>1, EdgeSets
<1>3. \A w : w \in Targets(f[u]) <=> w \in W /\ <<u, w>> \in E
  BY DEF Drawn
<1>4. \A b \in Blocks : g[b] = IF b \in W /\ <<u, b>> \in E THEN ErasePredecessor(f[b], u) ELSE f[b]
  BY <1>1, <1>2, <1>3
<1>5. DOMAIN g = Blocks
  BY <1>1
<1>6. ClearSuccessors(f, u) = h
  <2>1. ClearSuccessors(f, u) = [g EXCEPT ![u].edges = Predecessors(g[u]), ![u].nsucc = 0]
    BY DEF ClearSuccessors
  <2>2. z = [g[u] EXCEPT !.edges = Predecessors(g[u]), !.nsucc = 0]
    BY DEF Rearranged
  <2> QED BY <1>1, <1>5, <2>1, <2>2
<1> HIDE DEF g
<1>7. ASSUME NEW b \in W
      PROVE  /\ g[b] \in WorkRecords /\ Edged(g[b]) /\ Rest(g[b]) = Rest(f[b])
             /\ Targets(g[b]) = Targets(f[b]) /\ Origins(g[b]) = Origins(f[b]) \ {u}
  <2>1. b \in Blocks /\ f[b] \in WorkRecords /\ Edged(f[b])
    BY <1>1 DEF Drawn
  <2>2. u \in Origins(f[b]) <=> <<u, b>> \in E
    BY DEF Drawn
  <2>3. CASE <<u, b>> \in E
    BY <1>4, <2>1, <2>2, <2>3, EndErased
  <2>4. CASE <<u, b>> \notin E
    BY <1>4, <2>1, <2>2, <2>4
  <2> QED BY <2>3, <2>4
<1>8. g \in [Blocks -> WorkRecords]
  <2>1. \A b \in Blocks : g[b] \in WorkRecords
    BY <1>1, <1>4, <1>7
  <2>2. g = [b \in Blocks |-> g[b]]
    BY <1>1 DEF g
  <2> QED BY <2>1, <2>2
<1>9. /\ z \in WorkRecords /\ Edged(z) /\ Rest(z) = Rest(g[u])
      /\ Targets(z) = {} /\ Origins(z) = Origins(g[u])
  BY <1>7, PartDropped
<1> HIDE DEF z
<1>10. h \in [Blocks -> WorkRecords] /\ \A b \in Blocks : h[b] = IF b = u THEN z ELSE g[b]
  BY <1>1, <1>8, <1>9
<1> HIDE DEF h
<1>11. \A b \in Blocks : (b \notin W => h[b] = f[b]) /\ Rest(h[b]) = Rest(f[b])
  BY <1>4, <1>7, <1>9, <1>10
<1>12. ASSUME NEW b \in W
       PROVE  /\ Edged(h[b]) /\ Origins(h[b]) = Origins(f[b]) \ {u}
              /\ Targets(h[b]) = IF b = u THEN {} ELSE Targets(f[b])
  BY <1>7, <1>9, <1>10
<1>13. Drawn(h, W, F)
  <2>1. ASSUME NEW b \in W
        PROVE  /\ \A w : w \in Targets(h[b]) <=> w \in W /\ <<b, w>> \in F
               /\ \A w : w \in Origins(h[b]) <=> w \in W /\ <<w, b>> \in F
    <3>1. /\ \A w : w \in Targets(f[b]) <=> w \in W /\ <<b, w>> \in E
          /\ \A w : w \in Origins(f[b]) <=> w \in W /\ <<w, b>> \in E
      BY DEF Drawn
    <3>2. \A w : /\ <<b, w>> \in F <=> <<b, w>> \in E /\ b # u
                 /\ <<w, b>> \in F <=> <<w, b>> \in E /\ w # u
      OBVIOUS
    <3> HIDE DEF F
    <3> QED BY <1>12, <3>1, <3>2
  <2> HIDE DEF F
  <2> QED BY <1>10, <1>12, <2>1 DEF Drawn
<1> QED BY <1>6, <1>11, <1>13 DEF Redrawn

\* _precede adds the edge at both ends,
LEMMA ConnectedRedraws ==
  ASSUME NEW W \in SUBSET Blocks, NEW E, NEW f, Drawn(f, W, E), NEW u \in W, NEW v \in W,
         <<u, v>> \notin E
  PROVE  Redrawn(f, Connected(f, u, v), W, E \cup {<<u, v>>})
<1> DEFINE y == PushSuccessor(f[u], v)
           g == [f EXCEPT ![u] = y]
           z == PushPredecessor(g[v], u)
           h == [g EXCEPT ![v] = z]
<1>1. /\ f \in [Blocks -> WorkRecords] /\ u \in Blocks /\ v \in Blocks
      /\ f[u] \in WorkRecords /\ Edged(f[u]) /\ f[v] \in WorkRecords /\ Edged(f[v])
  BY DEF Drawn
<1>2. Connected(f, u, v) = h
  BY <1>1 DEF Connected
<1>3. v \notin Targets(f[u]) /\ u \notin Origins(f[v])
  BY DEF Drawn
<1>4. /\ y \in WorkRecords /\ Edged(y) /\ Rest(y) = Rest(f[u])
      /\ Targets(y) = Targets(f[u]) \cup {v} /\ Origins(y) = Origins(f[u])
  BY <1>1, <1>3, SuccessorPushed
<1> HIDE DEF y
<1>5. g \in [Blocks -> WorkRecords] /\ \A b \in Blocks : g[b] = IF b = u THEN y ELSE f[b]
  BY <1>1, <1>4
<1>6. /\ g[v] \in WorkRecords /\ Edged(g[v]) /\ Rest(g[v]) = Rest(f[v])
      /\ Origins(g[v]) = Origins(f[v])
      /\ Targets(g[v]) = IF u = v THEN Targets(f[u]) \cup {v} ELSE Targets(f[v])
  BY <1>1, <1>4, <1>5
<1>7. /\ z \in WorkRecords /\ Edged(z) /\ Rest(z) = Rest(g[v])
      /\ Targets(z) = Targets(g[v]) /\ Origins(z) = Origins(g[v]) \cup {u}
  <2>1. u \in Blocks \ Origins(g[v])
    BY <1>1, <1>3, <1>6
  <2> HIDE DEF g
  <2> QED BY <1>6, <2>1, PredecessorPushed
<1> HIDE DEF z, g
<1>8. h \in [Blocks -> WorkRecords] /\ \A b \in Blocks : h[b] = IF b = v THEN z ELSE g[b]
  BY <1>1, <1>5, <1>7
<1> HIDE DEF h
<1>9. \A b \in Blocks : (b \notin W => h[b] = f[b]) /\ Rest(h[b]) = Rest(f[b])
  BY <1>4, <1>5, <1>6, <1>7, <1>8
<1>10. ASSUME NEW b \in W
       PROVE  /\ Edged(h[b])
              /\ Targets(h[b]) = IF b = u THEN Targets(f[b]) \cup {v} ELSE Targets(f[b])
              /\ Origins(h[b]) = IF b = v THEN Origins(f[b]) \cup {u} ELSE Origins(f[b])
  <2>1. b \in Blocks /\ Edged(f[b])
    BY DEF Drawn
  <2> QED BY <1>4, <1>5, <1>6, <1>7, <1>8, <2>1
<1>11. Drawn(h, W, E \cup {<<u, v>>})
  <2>1. ASSUME NEW b \in W
        PROVE  /\ \A w : w \in Targets(h[b]) <=> w \in W /\ <<b, w>> \in E \cup {<<u, v>>}
               /\ \A w : w \in Origins(h[b]) <=> w \in W /\ <<w, b>> \in E \cup {<<u, v>>}
    <3>1. /\ \A w : w \in Targets(f[b]) <=> w \in W /\ <<b, w>> \in E
          /\ \A w : w \in Origins(f[b]) <=> w \in W /\ <<w, b>> \in E
      BY DEF Drawn
    <3> QED BY <1>10, <3>1
  <2> QED BY <1>8, <1>10, <2>1 DEF Drawn
<1> QED BY <1>2, <1>9, <1>11 DEF Redrawn

\* or leaves the edges as they were.
LEMMA UnconnectedRedraws ==
  ASSUME NEW W \in SUBSET Blocks, NEW E, NEW f, Drawn(f, W, E), NEW u \in W, NEW v \in W,
         <<u, v>> \notin E, NEW h \in Unconnected(f, u, v)
  PROVE  Redrawn(f, h, W, E)
<1> DEFINE x == PushSuccessor(f[u], v)
           y == EraseSuccessorAt(x, x.nsucc)
<1>1. /\ f \in [Blocks -> WorkRecords] /\ u \in Blocks /\ v \in Blocks
      /\ f[u] \in WorkRecords /\ Edged(f[u]) /\ v \notin Targets(f[u])
  BY DEF Drawn
<1>2. h = f \/ h = [f EXCEPT ![u] = y]
  BY DEF Unconnected
<1>3. /\ x \in WorkRecords /\ Edged(x) /\ Rest(x) = Rest(f[u])
      /\ Targets(x) = Targets(f[u]) \cup {v} /\ Origins(x) = Origins(f[u])
      /\ x.nsucc \in 1 .. x.nsucc /\ x.edges[x.nsucc] = v
  BY <1>1, SuccessorPushed
<1> HIDE DEF x
<1>4. /\ y \in WorkRecords /\ Edged(y) /\ Rest(y) = Rest(f[u])
      /\ Targets(y) = Targets(f[u]) /\ Origins(y) = Origins(f[u])
  <2>1. /\ y \in WorkRecords /\ Edged(y) /\ Rest(y) = Rest(x)
        /\ Targets(y) = Targets(x) \ {x.edges[x.nsucc]} /\ Origins(y) = Origins(x)
    BY <1>3, SuccessorErased
  <2> HIDE DEF y
  <2> QED BY <1>1, <1>3, <2>1
<1> HIDE DEF y
<1>5. h \in [Blocks -> WorkRecords] /\ \A b \in Blocks : b # u => h[b] = f[b]
  BY <1>1, <1>2, <1>4
<1>6. /\ Edged(h[u]) /\ Rest(h[u]) = Rest(f[u])
      /\ Targets(h[u]) = Targets(f[u]) /\ Origins(h[u]) = Origins(f[u])
  BY <1>1, <1>2, <1>4
<1>7. \A b \in W : Edged(h[b]) /\ Targets(h[b]) = Targets(f[b]) /\ Origins(h[b]) = Origins(f[b])
  BY <1>5, <1>6 DEF Drawn
<1>8. Drawn(h, W, E)
  BY <1>5, <1>7 DEF Drawn
<1>9. \A b \in Blocks : (b \notin W => h[b] = f[b]) /\ Rest(h[b]) = Rest(f[b])
  BY <1>5, <1>6
<1> QED BY <1>8, <1>9 DEF Redrawn

\* One edit after the other.
LEMMA RedrawnTwice ==
  ASSUME NEW W, NEW C, NEW E, NEW f, NEW g, NEW h, Redrawn(f, g, W, C), Redrawn(g, h, W, E)
  PROVE  Redrawn(f, h, W, E)
BY DEF Redrawn

\* extract takes all edges of w away.
LEMMA ExtractedRedraws ==
  ASSUME NEW W \in SUBSET Blocks, NEW E, NEW f, Drawn(f, W, E), NEW w \in W
  PROVE  Redrawn(f, Extracted(f, w), W, {e \in E : e[1] # w /\ e[2] # w})
<1> DEFINE g == ClearPredecessors(f, w)
           C == {e \in E : e[2] # w}
           h == ClearSuccessors(g, w)
           F == {e \in C : e[1] # w}
<1>1. Redrawn(f, g, W, C)
  BY ClearPredecessorsRedraws
<1>2. Drawn(g, W, C)
  BY <1>1 DEF Redrawn
<1> HIDE DEF g, C
<1>3. Redrawn(g, h, W, F)
  BY <1>2, ClearSuccessorsRedraws
<1>4. F = {e \in E : e[1] # w /\ e[2] # w}
  BY DEF C
<1>5. Extracted(f, w) = h
  BY DEF Extracted, g
<1> HIDE DEF h, F
<1>6. Redrawn(f, h, W, F)
  BY <1>1, <1>3, RedrawnTwice
<1> QED BY <1>4, <1>5, <1>6

\* The edges are those that the records show.
Edges(f, W) == {e \in W \X W : e[2] \in Targets(f[e[1]])}

\* They are the edges of the digraph.
LEMMA EdgesDrawn ==
  ASSUME NEW W, NEW E \in SUBSET (W \X W), NEW f, Drawn(f, W, E)
  PROVE  Edges(f, W) = E
<1>1. ASSUME NEW e \in W \X W PROVE e \in Edges(f, W) <=> e \in E
  <2>1. e = <<e[1], e[2]>> /\ e[1] \in W /\ e[2] \in W
    OBVIOUS
  <2>2. e[2] \in Targets(f[e[1]]) <=> e \in E
    BY <2>1 DEF Drawn
  <2> QED BY <2>2 DEF Edges
<1> QED BY <1>1 DEF Edges

-----------------------------------------------------------------------------
(* Requests.                                                               *)

\* A part of a sequence.
LEMMA PartIs ==
  ASSUME NEW S, NEW s \in Seq(S), NEW m \in 1 .. Len(s) + 1, NEW n \in m - 1 .. Len(s)
  PROVE  /\ SubSeq(s, m, n) \in Seq(S) /\ Len(SubSeq(s, m, n)) = (n - m) + 1
         /\ \A i \in 1 .. (n - m) + 1 : SubSeq(s, m, n)[i] = s[(m + i) - 1]
<1> DEFINE u == SubSeq(s, m, n)
<1>1. Len(s) \in Nat /\ \A i \in 1 .. Len(s) : s[i] \in S
  BY LenProperties, ElementOfSeq
<1>2. m \in Int /\ n \in Int /\ \A i \in m .. n : s[i] \in S
  BY <1>1
<1>3. u \in Seq(S) /\ Len(u) = IF m <= n THEN (n - m) + 1 ELSE 0
  BY <1>2, SubSeqProperties
<1>4. \A i \in 1 .. (n - m) + 1 : u[i] = s[(m + i) - 1]
  BY <1>2, SubSeqProperties
<1> HIDE DEF u
<1>5. (IF m <= n THEN (n - m) + 1 ELSE 0) = (n - m) + 1
  BY <1>1
<1> QED BY <1>3, <1>4, <1>5 DEF u

\* An element put in at p.
LEMMA Inserted ==
  ASSUME NEW S, NEW s \in Seq(S), NEW p \in 1 .. Len(s) + 1, NEW e \in S, NEW r,
         r = InsertAt(s, p, e)
  PROVE  /\ r \in Seq(S) /\ Len(r) = Len(s) + 1
         /\ \A j \in 1 .. Len(s) + 1 : /\ j < p => r[j] = s[j]
                                       /\ j = p => r[j] = e
                                       /\ j > p => r[j] = s[j - 1]
<1> DEFINE L == Len(s)
           a == SubSeq(s, 1, p - 1)
           m == <<e>>
           b == SubSeq(s, p, L)
           c == a \o m
<1>1. L \in Nat /\ p \in 1 .. L + 1 /\ p \in Nat
  BY LenProperties
<1>2. a \in Seq(S) /\ Len(a) = p - 1 /\ \A i \in 1 .. p - 1 : a[i] = s[i]
  <2> DEFINE k == p - 1
  <2>1. 1 \in 1 .. L + 1 /\ k \in 1 - 1 .. L /\ (k - 1) + 1 = k
    BY <1>1
  <2>2. \A i \in 1 .. k : (1 + i) - 1 = i
    BY <1>1
  <2> HIDE DEF k
  <2>3. /\ SubSeq(s, 1, k) \in Seq(S) /\ Len(SubSeq(s, 1, k)) = (k - 1) + 1
        /\ \A i \in 1 .. (k - 1) + 1 : SubSeq(s, 1, k)[i] = s[(1 + i) - 1]
    BY <2>1, PartIs
  <2> QED BY <2>1, <2>2, <2>3 DEF k
<1>3. b \in Seq(S) /\ Len(b) = (L - p) + 1 /\ \A i \in 1 .. (L - p) + 1 : b[i] = s[(p + i) - 1]
  <2>1. L \in p - 1 .. L
    BY <1>1
  <2> QED BY <2>1, PartIs
<1>4. m \in Seq(S) /\ Len(m) = 1 /\ m[1] = e
  OBVIOUS
<1>5. r = c \o b
  BY DEF InsertAt
<1> HIDE DEF L, a, m, b
<1>6. /\ c \in Seq(S) /\ Len(c) = p
      /\ \A i \in 1 .. p : c[i] = IF i <= p - 1 THEN a[i] ELSE m[i - (p - 1)]
  <2>1. Len(a) + Len(m) = p
    BY <1>1, <1>2, <1>4
  <2>2. /\ c \in Seq(S) /\ Len(c) = Len(a) + Len(m)
        /\ \A i \in 1 .. Len(a) + Len(m) : c[i] = IF i <= Len(a) THEN a[i] ELSE m[i - Len(a)]
    BY <1>2, <1>4, ConcatProperties
  <2> QED BY <1>2, <2>1, <2>2
<1>7. \A i \in 1 .. p : (i < p => c[i] = s[i]) /\ (i = p => c[i] = e)
  <2> SUFFICES ASSUME NEW i \in 1 .. p PROVE (i < p => c[i] = s[i]) /\ (i = p => c[i] = e)
    OBVIOUS
  <2>1. CASE i < p
    <3>1. i <= p - 1 /\ i \in 1 .. p - 1
      BY <1>1, <2>1
    <3> QED BY <1>2, <1>6, <2>1, <3>1
  <2>2. CASE i = p
    <3>1. ~(i <= p - 1) /\ i - (p - 1) = 1
      BY <1>1, <2>2
    <3>2. c[i] = m[i - (p - 1)]
      BY <1>6, <3>1
    <3> QED BY <1>4, <2>2, <3>1, <3>2
  <2> QED BY <1>1, <2>1, <2>2
<1> HIDE DEF c
<1>8. /\ r \in Seq(S) /\ Len(r) = L + 1
      /\ \A i \in 1 .. L + 1 : r[i] = IF i <= p THEN c[i] ELSE b[i - p]
  <2>1. Len(c) + Len(b) = L + 1
    BY <1>1, <1>3, <1>6
  <2>2. /\ r \in Seq(S) /\ Len(r) = Len(c) + Len(b)
        /\ \A i \in 1 .. Len(c) + Len(b) : r[i] = IF i <= Len(c) THEN c[i] ELSE b[i - Len(c)]
    <3>1. c \in Seq(S) /\ b \in Seq(S)
      BY <1>3, <1>6
    <3> QED BY <1>5, <3>1, ConcatProperties
  <2> QED BY <1>6, <2>1, <2>2
<1>9. ASSUME NEW j \in 1 .. L + 1
      PROVE  /\ j < p => r[j] = s[j]
             /\ j = p => r[j] = e
             /\ j > p => r[j] = s[j - 1]
  <2>1. CASE j <= p
    <3>1. j \in 1 .. p /\ r[j] = c[j] /\ ~(j > p)
      BY <1>1, <1>8, <2>1
    <3> QED BY <1>7, <3>1
  <2>2. CASE j > p
    <3>1. j - p \in 1 .. (L - p) + 1 /\ ~(j <= p) /\ (p + (j - p)) - 1 = j - 1
      BY <1>1, <2>2
    <3>2. r[j] = b[j - p] /\ b[j - p] = s[(p + (j - p)) - 1]
      BY <1>3, <1>8, <3>1
    <3> QED BY <3>1, <3>2
  <2> QED BY <1>1, <2>1, <2>2
<1> QED BY <1>8, <1>9 DEF L

\* The element at p taken out.
LEMMA Removed ==
  ASSUME NEW S, NEW s \in Seq(S), NEW p \in 1 .. Len(s), NEW r, r = RemoveAt(s, p)
  PROVE  /\ r \in Seq(S) /\ Len(r) = Len(s) - 1
         /\ \A j \in 1 .. Len(s) - 1 : r[j] = IF j < p THEN s[j] ELSE s[j + 1]
<1> DEFINE L == Len(s)
           a == SubSeq(s, 1, p - 1)
           b == SubSeq(s, p + 1, L)
<1>1. L \in Nat /\ p \in 1 .. L /\ p \in Nat
  BY LenProperties
<1>2. a \in Seq(S) /\ Len(a) = p - 1 /\ \A i \in 1 .. p - 1 : a[i] = s[i]
  <2> DEFINE k == p - 1
  <2>1. 1 \in 1 .. L + 1 /\ k \in 1 - 1 .. L /\ (k - 1) + 1 = k
    BY <1>1
  <2>2. \A i \in 1 .. k : (1 + i) - 1 = i
    BY <1>1
  <2> HIDE DEF k
  <2>3. /\ SubSeq(s, 1, k) \in Seq(S) /\ Len(SubSeq(s, 1, k)) = (k - 1) + 1
        /\ \A i \in 1 .. (k - 1) + 1 : SubSeq(s, 1, k)[i] = s[(1 + i) - 1]
    BY <2>1, PartIs
  <2> QED BY <2>1, <2>2, <2>3 DEF k
<1>3. b \in Seq(S) /\ Len(b) = L - p /\ \A i \in 1 .. L - p : b[i] = s[p + i]
  <2> DEFINE k == p + 1
  <2>1. k \in 1 .. L + 1 /\ L \in k - 1 .. L /\ (L - k) + 1 = L - p
    BY <1>1
  <2>2. \A i \in 1 .. L - p : (k + i) - 1 = p + i
    BY <1>1
  <2> HIDE DEF k
  <2>3. /\ SubSeq(s, k, L) \in Seq(S) /\ Len(SubSeq(s, k, L)) = (L - k) + 1
        /\ \A i \in 1 .. (L - k) + 1 : SubSeq(s, k, L)[i] = s[(k + i) - 1]
    BY <2>1, PartIs
  <2> QED BY <2>1, <2>2, <2>3 DEF k
<1>4. r = a \o b
  BY DEF RemoveAt
<1> HIDE DEF L, a, b
<1>5. /\ r \in Seq(S) /\ Len(r) = L - 1
      /\ \A i \in 1 .. L - 1 : r[i] = IF i <= p - 1 THEN a[i] ELSE b[i - (p - 1)]
  <2>1. Len(a) + Len(b) = L - 1
    BY <1>1, <1>2, <1>3
  <2>2. /\ r \in Seq(S) /\ Len(r) = Len(a) + Len(b)
        /\ \A i \in 1 .. Len(a) + Len(b) : r[i] = IF i <= Len(a) THEN a[i] ELSE b[i - Len(a)]
    BY <1>2, <1>3, <1>4, ConcatProperties
  <2> QED BY <1>2, <2>1, <2>2
<1>6. ASSUME NEW j \in 1 .. L - 1 PROVE r[j] = IF j < p THEN s[j] ELSE s[j + 1]
  <2>1. CASE j < p
    <3>1. j <= p - 1 /\ j \in 1 .. p - 1
      BY <1>1, <2>1
    <3> QED BY <1>2, <1>5, <2>1, <3>1
  <2>2. CASE ~(j < p)
    <3>1. ~(j <= p - 1) /\ j - (p - 1) \in 1 .. L - p /\ p + (j - (p - 1)) = j + 1
      BY <1>1, <2>2
    <3>2. r[j] = b[j - (p - 1)] /\ b[j - (p - 1)] = s[p + (j - (p - 1))]
      BY <1>3, <1>5, <3>1
    <3> QED BY <2>2, <3>1, <3>2
  <2> QED BY <2>1, <2>2
<1> QED BY <1>5, <1>6 DEF L

\* How SemaphoreLock wants to find them.
Ordered(a) == \A i, j \in DOMAIN a : i < j => a[i].sem < a[j].sem
Distinct(r) == \A i, j \in DOMAIN r : i # j => r[i].sem # r[j].sem

\* _acquire keeps the order.
LEMMA AcquireOrdered ==
  ASSUME NEW a \in Seq(Requests), Ordered(a), NEW s \in Semaphores, ~Asks(a, s), NEW n \in 0 .. 2
  PROVE  Acquire(a, s, n) \in Seq(Requests) /\ Ordered(Acquire(a, s, n))
<1> DEFINE L == Len(a)
           p == LowerBound(a, s)
           e == [sem |-> s, count |-> n]
           r == InsertAt(a, p, e)
<1>1. /\ L \in Nat /\ DOMAIN a = 1 .. L
      /\ \A i \in 1 .. L : a[i] \in Requests
  BY LenProperties, ElementOfSeq
<1>2. s \in Nat /\ \A i \in 1 .. L : a[i].sem \in Nat
  BY <1>1, BuildingAssumption DEF Requests
<1>3. e \in Requests /\ e.sem = s
  BY DEF Requests
<1>4. \A i \in 1 .. L : a[i].sem # s
  BY <1>1 DEF Asks
<1>5. \A i, j \in 1 .. L : i < j => a[i].sem < a[j].sem
  BY <1>1 DEF Ordered
<1>6. /\ p \in 1 .. L + 1 /\ \A j \in 1 .. p - 1 : a[j].sem < s
      /\ p <= L => a[p].sem >= s
  <2> DEFINE T == {i \in 1 .. L + 1 : i <= L => a[i].sem >= s}
  <2>1. T \subseteq Nat /\ L + 1 \in T
    BY <1>1
  <2>2. PICK m \in T : \A i \in T : m <= i
    BY <2>1, LeastNumber
  <2>3. ASSUME NEW j \in 1 .. m - 1 PROVE a[j].sem < s
    <3>1. j \in 1 .. L /\ j \in 1 .. L + 1 /\ ~(m <= j)
      BY <1>1, <2>2
    <3>2. ~(a[j].sem >= s)
      BY <2>2, <3>1
    <3> QED BY <1>2, <3>1, <3>2
  <2>4. \E i \in 1 .. L + 1 : /\ \A j \in 1 .. i - 1 : a[j].sem < s
                              /\ i <= L => a[i].sem >= s
    BY <2>2, <2>3
  <2> QED BY <2>4 DEF LowerBound
<1> HIDE DEF p, e
<1>7. /\ r \in Seq(Requests) /\ Len(r) = L + 1
      /\ \A j \in 1 .. L + 1 : /\ j < p => r[j] = a[j]
                               /\ j = p => r[j] = e
                               /\ j > p => r[j] = a[j - 1]
  BY <1>3, <1>6, Inserted
<1> HIDE DEF r
<1>8. DOMAIN r = 1 .. L + 1
  BY <1>7, LenProperties
<1> HIDE DEF L
<1>9. ASSUME NEW i \in 1 .. L + 1, NEW j \in 1 .. L + 1, i < j PROVE r[i].sem < r[j].sem
  <2>1. CASE j < p
    <3>1. i \in 1 .. L /\ j \in 1 .. L /\ i < p
      BY <1>1, <1>6, <1>9, <2>1
    <3> QED BY <1>5, <1>7, <1>9, <2>1, <3>1
  <2>2. CASE j = p
    <3>1. i \in 1 .. p - 1 /\ i < p
      BY <1>1, <1>6, <1>9, <2>2
    <3> QED BY <1>3, <1>6, <1>7, <2>2, <3>1
  <2>3. CASE j > p /\ i < p
    <3>1. i \in 1 .. p - 1 /\ i \in 1 .. L /\ j - 1 \in 1 .. L /\ i < j - 1
      BY <1>1, <1>6, <1>9, <2>3
    <3> QED BY <1>5, <1>7, <2>3, <3>1
  <2>4. CASE j > p /\ i = p
    <3>1. p \in 1 .. L /\ j - 1 \in 1 .. L /\ p <= L /\ (p = j - 1 \/ p < j - 1)
      BY <1>1, <1>6, <1>9, <2>4
    <3>2. a[p].sem > s
      BY <1>2, <1>4, <1>6, <3>1
    <3>3. p = j - 1 \/ a[p].sem < a[j - 1].sem
      BY <1>5, <3>1
    <3>4. a[j - 1].sem > s
      BY <1>2, <3>1, <3>2, <3>3
    <3> QED BY <1>2, <1>3, <1>7, <2>4, <3>1, <3>4
  <2>5. CASE j > p /\ i > p
    <3>1. i - 1 \in 1 .. L /\ j - 1 \in 1 .. L /\ i - 1 < j - 1
      BY <1>1, <1>6, <1>9, <2>5
    <3> QED BY <1>5, <1>7, <2>5, <3>1
  <2>6. i \in Nat /\ j \in Nat /\ p \in Nat
    BY <1>1, <1>6
  <2> QED BY <1>9, <2>1, <2>2, <2>3, <2>4, <2>5, <2>6
<1>10. r \in Seq(Requests) /\ Ordered(r)
  BY <1>7, <1>8, <1>9 DEF Ordered
<1>11. Acquire(a, s, n) = a \/ Acquire(a, s, n) = r
  BY DEF Acquire, r, p, e
<1> QED BY <1>10, <1>11

\* remove_acquire too.
LEMMA RemoveAcquireOrdered ==
  ASSUME NEW a \in Seq(Requests), Ordered(a), NEW s \in Semaphores
  PROVE  RemoveAcquire(a, s) \in Seq(Requests) /\ Ordered(RemoveAcquire(a, s))
<1> DEFINE L == Len(a)
           p == LowerBound(a, s)
           r == RemoveAt(a, p)
<1>1. CASE ~Asks(a, s)
  BY <1>1 DEF RemoveAcquire
<1>2. CASE Asks(a, s)
  <2>1. /\ L \in Nat /\ DOMAIN a = 1 .. L
        /\ \A i \in 1 .. L : a[i] \in Requests
    BY LenProperties, ElementOfSeq
  <2>2. s \in Nat /\ \A i \in 1 .. L : a[i].sem \in Nat
    BY <2>1, BuildingAssumption DEF Requests
  <2>3. \A i, j \in 1 .. L : i < j => a[i].sem < a[j].sem
    BY <2>1 DEF Ordered
  <2>4. PICK q \in 1 .. L : a[q].sem = s
    BY <1>2, <2>1 DEF Asks
  <2>5. \E i \in 1 .. L + 1 : /\ \A j \in 1 .. i - 1 : a[j].sem < s
                              /\ i <= L => a[i].sem >= s
    <3>1. q \in 1 .. L + 1 /\ a[q].sem >= s
      BY <2>1, <2>2, <2>4
    <3>2. ASSUME NEW j \in 1 .. q - 1 PROVE a[j].sem < s
      <4>1. j \in 1 .. L /\ j < q
        BY <2>1, <2>4
      <4> QED BY <2>3, <2>4, <4>1
    <3> QED BY <3>1, <3>2
  <2>6. p \in 1 .. L + 1 /\ \A j \in 1 .. p - 1 : a[j].sem < s
    BY <2>5 DEF LowerBound
  <2> HIDE DEF p
  <2>7. p \in 1 .. L
    <3> SUFFICES ASSUME p = L + 1 PROVE FALSE
      BY <2>1, <2>6
    <3>1. q \in 1 .. p - 1
      BY <2>1, <2>4
    <3>2. s < s
      BY <2>4, <2>6, <3>1
    <3> QED BY <2>2, <3>2
  <2>8. /\ r \in Seq(Requests) /\ Len(r) = L - 1
        /\ \A j \in 1 .. L - 1 : r[j] = IF j < p THEN a[j] ELSE a[j + 1]
    BY <2>7, Removed
  <2> HIDE DEF r
  <2>9. DOMAIN r = 1 .. L - 1
    BY <2>8, LenProperties
  <2> HIDE DEF L
  <2>10. ASSUME NEW i \in 1 .. L - 1, NEW j \in 1 .. L - 1, i < j PROVE r[i].sem < r[j].sem
    <3>1. i \in 1 .. L /\ j \in 1 .. L /\ i + 1 \in 1 .. L /\ j + 1 \in 1 .. L
      BY <2>1
    <3>2. i < j + 1 /\ i + 1 < j + 1 /\ (~(i < p) => ~(j < p))
      BY <2>1, <2>7, <2>10
    <3> QED BY <2>3, <2>8, <2>10, <3>1, <3>2
  <2>11. r \in Seq(Requests) /\ Ordered(r)
    BY <2>8, <2>9, <2>10 DEF Ordered
  <2>12. RemoveAcquire(a, s) = r
    BY <1>2 DEF RemoveAcquire, r, p
  <2> QED BY <2>11, <2>12
<1> QED BY <1>1, <1>2

\* No semaphore is released twice.
LEMMA ReleaseDistinct ==
  ASSUME NEW a \in Seq(Requests), Distinct(a), NEW s \in Semaphores, NEW n \in 0 .. 2
  PROVE  /\ ~Asks(a, s) => Release(a, s, n) \in Seq(Requests) /\ Distinct(Release(a, s, n))
         /\ RemoveRelease(a, s) \in Seq(Requests) /\ Distinct(RemoveRelease(a, s))
<1> DEFINE L == Len(a)
           e == [sem |-> s, count |-> n]
<1>1. L \in Nat /\ DOMAIN a = 1 .. L
  BY LenProperties
<1>2. \A i, j \in 1 .. L : i # j => a[i].sem # a[j].sem
  BY <1>1 DEF Distinct
<1>3. e \in Requests /\ e.sem = s
  <2>1. n \in Nat
    OBVIOUS
  <2> QED BY <2>1 DEF Requests
<1>4. ASSUME ~Asks(a, s) PROVE Release(a, s, n) \in Seq(Requests) /\ Distinct(Release(a, s, n))
  <2> DEFINE r == Append(a, e)
  <2>1. Release(a, s, n) = a \/ Release(a, s, n) = r
    BY DEF Release
  <2>2. \A i \in 1 .. L : a[i].sem # s
    BY <1>1, <1>4 DEF Asks
  <2> HIDE DEF e
  <2>3. /\ r \in Seq(Requests) /\ Len(r) = L + 1 /\ \A i \in 1 .. L : r[i] = a[i]
        /\ r[L + 1] = e
    BY <1>1, <1>3
  <2> HIDE DEF r
  <2>4. DOMAIN r = 1 .. L + 1
    BY <2>3, LenProperties
  <2> HIDE DEF L
  <2>5. \A i \in 1 .. L + 1 : i # L + 1 => i \in 1 .. L
    BY <1>1
  <2>6. \A i, j \in 1 .. L + 1 : i # j => r[i].sem # r[j].sem
    BY <1>2, <1>3, <2>2, <2>3, <2>5
  <2> QED BY <2>1, <2>3, <2>4, <2>6 DEF Distinct
<1>5. RemoveRelease(a, s) \in Seq(Requests) /\ Distinct(RemoveRelease(a, s))
  <2>1. CASE ~Asks(a, s)
    BY <2>1 DEF RemoveRelease
  <2>2. CASE Asks(a, s)
    <3> DEFINE i == CHOOSE j \in DOMAIN a : a[j].sem = s
               r == Filled(a, i)
    <3>1. i \in 1 .. L
      BY <1>1, <2>2 DEF Asks
    <3>2. RemoveRelease(a, s) = r
      BY <2>2 DEF RemoveRelease, Filled
    <3> HIDE DEF i
    <3>3. /\ r \in Seq(Requests) /\ Len(r) = L - 1
          /\ \A j \in 1 .. L - 1 : (j = i => r[j] = a[L]) /\ (j # i => r[j] = a[j])
      BY <3>1, HoleFilled
    <3> HIDE DEF r
    <3>4. DOMAIN r = 1 .. L - 1
      BY <3>3, LenProperties
    <3> HIDE DEF L
    <3>5. L \in 1 .. L /\ \A j \in 1 .. L - 1 : j \in 1 .. L /\ j # L
      BY <1>1, <3>1
    <3>6. \A j, k \in 1 .. L - 1 : j # k => r[j].sem # r[k].sem
      BY <1>2, <3>3, <3>5
    <3> QED BY <3>2, <3>3, <3>4, <3>6 DEF Distinct
  <2> QED BY <2>1, <2>2
<1> QED BY <1>4, <1>5

-----------------------------------------------------------------------------
(* Loops, as functions of the number of rounds.                            *)

Rounds(c, L, x, F) == c[0] = x /\ \A i \in 1 .. L : c[i] = F[i][c[i - 1]]

\* There is such a function.
LEMMA Iterated ==
  ASSUME NEW S, NEW L \in Nat, NEW x \in S, NEW F, \A i \in 1 .. L : F[i] \in [S -> S]
  PROVE  \E c \in [0 .. L -> S] : Rounds(c, L, x, F)
<1> DEFINE T == {n \in 0 .. L : \E c \in [0 .. n -> S] : Rounds(c, n, x, F)}
<1>1. 0 \in T
  <2> DEFINE c == [i \in 0 .. 0 |-> x]
  <2>1. c \in [0 .. 0 -> S] /\ c[0] = x /\ 1 .. 0 = {}
    OBVIOUS
  <2> HIDE DEF c
  <2>2. Rounds(c, 0, x, F)
    BY <2>1 DEF Rounds
  <2> QED BY <2>1, <2>2
<1>2. ASSUME NEW n \in 0 .. L, n \in T, n + 1 \in 0 .. L PROVE n + 1 \in T
  <2>1. PICK c \in [0 .. n -> S] : Rounds(c, n, x, F)
    BY <1>2
  <2> DEFINE m == n + 1
             d == [i \in 0 .. m |-> IF i = m THEN F[m][c[n]] ELSE c[i]]
  <2>2. m \in 1 .. L /\ n \in 0 .. n /\ m \in 0 .. m /\ m - 1 = n /\ m # 0 /\ 0 \in 0 .. n
    BY <1>2
  <2>3. \A i \in 0 .. m : i # m => i \in 0 .. n
    BY <1>2
  <2> HIDE DEF m
  <2>4. F[m][c[n]] \in S
    BY <2>1, <2>2
  <2>5. d \in [0 .. m -> S]
    BY <2>3, <2>4
  <2>6. d[m] = F[m][c[n]] /\ \A i \in 0 .. n : i \in 0 .. m /\ d[i] = c[i]
    <3>1. \A i \in 0 .. n : i \in 0 .. m /\ i # m
      BY <1>2 DEF m
    <3> QED BY <2>2, <3>1
  <2> HIDE DEF d
  <2>7. ASSUME NEW i \in 1 .. m PROVE d[i] = F[i][d[i - 1]]
    <3>1. CASE i = m
      BY <2>2, <2>6, <3>1
    <3>2. CASE i # m
      <4>1. i \in 1 .. n /\ i \in 0 .. n /\ i - 1 \in 0 .. n
        BY <1>2, <3>2 DEF m
      <4>2. c[i] = F[i][c[i - 1]]
        BY <2>1, <4>1 DEF Rounds
      <4> QED BY <2>6, <4>1, <4>2
    <3> QED BY <3>1, <3>2
  <2>8. d[0] = x
    BY <2>1, <2>2, <2>6 DEF Rounds
  <2>9. Rounds(d, m, x, F)
    BY <2>7, <2>8 DEF Rounds
  <2>10. m \in 0 .. L
    BY <1>2 DEF m
  <2> QED BY <2>5, <2>9, <2>10 DEF m
<1>3. L \in T
  <2> HIDE DEF T
  <2>1. 0 .. L \subseteq T \/ L < 0
    <3>1. \A k \in 0 .. L : k \in T /\ k + 1 \in 0 .. L => k + 1 \in T
      BY <1>2
    <3>2. 0 \in Nat
      OBVIOUS
    <3> QED BY <1>1, <3>1, <3>2, IntervalInduction
  <2> QED BY <2>1
<1> QED BY <1>3

\* One visit.
Searches == [pc : {"none", "fine", "search", "path", "noPath"}, stack : Seq(Blocks), visited : SUBSET Blocks]

\* Every successor of the Work on top is visited once.
LEMMA ExpandVisits ==
  ASSUME NEW f \in [Blocks -> WorkRecords], NEW s \in Searches, s.stack # <<>>, NEW r,
         Edged(f[Last(s.stack)]), r = Expand(f, s)
  PROVE  /\ r \in Searches /\ r.pc = s.pc
         /\ \A v : v \in r.visited <=>
              v \in s.visited \/ (v \in Targets(f[Last(s.stack)]) /\ ~IsJump(f[v]))
         /\ \A v : v \in Range(r.stack) <=>
              v \in Range(Front(s.stack)) \/ v \in r.visited \ s.visited
<1> DEFINE curr == Last(s.stack)
           succ == Successors(f[curr])
           L == Len(succ)
           x == [s EXCEPT !.stack = Front(@)]
           F == [i \in 1 .. L |-> [q \in Searches |-> Visit(f, q, succ[i])]]
           walk == CHOOSE walk : walk = [i \in 0 .. L |->
                     IF i = 0 THEN x ELSE Visit(f, walk[i - 1], succ[i])]
<1>1. /\ s.stack \in Seq(Blocks) /\ curr \in Blocks /\ Front(s.stack) \in Seq(Blocks)
      /\ f[curr] \in WorkRecords
  BY FrontIs DEF Searches
<1>2. /\ succ \in Seq(Blocks) /\ L \in Nat /\ \A i \in 1 .. L : succ[i] \in Blocks
      /\ DOMAIN succ = 1 .. L /\ Range(succ) = Targets(f[curr])
  <2>1. succ \in Seq(Blocks) /\ Range(succ) = Targets(f[curr])
    BY <1>1, EdgeParts, EdgeSets
  <2> QED BY <2>1, LenProperties, ElementOfSeq
<1>3. r = walk[L]
  BY DEF Expand
<1>4. x \in Searches /\ x.pc = s.pc /\ x.visited = s.visited /\ x.stack = Front(s.stack)
  BY <1>1 DEF Searches
<1>5. ASSUME NEW q \in Searches, NEW v \in Blocks
      PROVE  /\ Visit(f, q, v) \in Searches /\ Visit(f, q, v).pc = q.pc
             /\ \A w : w \in Visit(f, q, v).visited <=>
                  w \in q.visited \/ (w = v /\ ~IsJump(f[v]))
             /\ \A w : w \in Range(Visit(f, q, v).stack) <=>
                  w \in Range(q.stack) \/ (w = v /\ v \notin q.visited /\ ~IsJump(f[v]))
  <2>1. q.stack \in Seq(Blocks) /\ q.visited \in SUBSET Blocks
    BY DEF Searches
  <2>2. Append(q.stack, v) \in Seq(Blocks) /\ Range(Append(q.stack, v)) = Range(q.stack) \cup {v}
    BY <2>1, RangeOfAppend
  <2>3. CASE v \in q.visited \/ IsJump(f[v])
    BY <2>3 DEF Visit
  <2>4. CASE ~(v \in q.visited \/ IsJump(f[v]))
    <3> DEFINE a == Append(q.stack, v)
               w == q.visited \cup {v}
    <3>1. Visit(f, q, v) = [[q EXCEPT !.stack = a] EXCEPT !.visited = w]
      BY <2>4 DEF Visit
    <3>2. a \in Seq(Blocks) /\ w \in SUBSET Blocks
      BY <2>1, <2>2
    <3> HIDE DEF a, w
    <3>3. /\ Visit(f, q, v) \in Searches /\ Visit(f, q, v).pc = q.pc
          /\ Visit(f, q, v).visited = w /\ Visit(f, q, v).stack = a
      BY <3>1, <3>2 DEF Searches
    <3> QED BY <2>2, <2>4, <3>3 DEF a, w
  <2> QED BY <2>3, <2>4
<1> HIDE DEF x, succ, curr
<1>6. \A i \in 1 .. L : F[i] \in [Searches -> Searches]
  BY <1>2, <1>5
<1>7. \E c \in [0 .. L -> Searches] : Rounds(c, L, x, F)
  <2> HIDE DEF F, L
  <2> QED BY <1>2, <1>4, <1>6, Iterated
<1>8. /\ walk \in [0 .. L -> Searches] /\ walk[0] = x
      /\ \A i \in 1 .. L : walk[i] = Visit(f, walk[i - 1], succ[i])
  <2>1. PICK c \in [0 .. L -> Searches] : Rounds(c, L, x, F)
    BY <1>7
  <2>2. c = [i \in 0 .. L |-> IF i = 0 THEN x ELSE Visit(f, c[i - 1], succ[i])]
    <3>1. ASSUME NEW i \in 0 .. L
          PROVE  c[i] = IF i = 0 THEN x ELSE Visit(f, c[i - 1], succ[i])
      <4>1. CASE i = 0
        BY <2>1, <4>1 DEF Rounds
      <4>2. CASE i # 0
        <5>1. i \in 1 .. L /\ i - 1 \in 0 .. L
          BY <1>2, <4>2
        <5>2. c[i] = F[i][c[i - 1]]
          BY <2>1, <5>1 DEF Rounds
        <5> QED BY <4>2, <5>1, <5>2
      <4> QED BY <4>1, <4>2
    <3> QED BY <3>1
  <2>3. walk = [i \in 0 .. L |-> IF i = 0 THEN x ELSE Visit(f, walk[i - 1], succ[i])]
    BY <2>2
  <2> HIDE DEF walk
  <2>4. 0 \in 0 .. L /\ \A i \in 1 .. L : i \in 0 .. L /\ i # 0 /\ i - 1 \in 0 .. L
    BY <1>2
  <2>5. walk[0] = x /\ \A i \in 1 .. L : walk[i] = Visit(f, walk[i - 1], succ[i])
    BY <2>3, <2>4
  <2> DEFINE T == {i \in 0 .. L : walk[i] \in Searches}
  <2>6. 0 \in T /\ \A k \in 0 .. L : k \in T /\ k + 1 \in 0 .. L => k + 1 \in T
    <3>1. 0 \in T
      BY <1>4, <2>4, <2>5
    <3>2. ASSUME NEW k \in 0 .. L, k \in T, k + 1 \in 0 .. L PROVE k + 1 \in T
      <4>1. k + 1 \in 1 .. L /\ (k + 1) - 1 = k
        BY <1>2, <3>2
      <4>2. walk[k + 1] = Visit(f, walk[k], succ[k + 1]) /\ succ[k + 1] \in Blocks
        BY <1>2, <2>5, <4>1
      <4>3. walk[k] \in Searches
        BY <3>2
      <4> HIDE DEF T
      <4>4. walk[k + 1] \in Searches
        BY <1>5, <4>2, <4>3
      <4> QED BY <3>2, <4>4 DEF T
    <3> QED BY <3>1, <3>2
  <2>7. \A i \in 0 .. L : walk[i] \in Searches
    <3> HIDE DEF T
    <3>1. 0 .. L \subseteq T
      <4>1. 0 \in Nat
        OBVIOUS
      <4>2. 0 .. L \subseteq T \/ L < 0
        BY <1>2, <2>6, <4>1, IntervalInduction
      <4> QED BY <1>2, <4>2
    <3> QED BY <3>1 DEF T
  <2>8. walk \in [0 .. L -> Searches]
    BY <2>3, <2>7
  <2> QED BY <2>5, <2>8
<1> HIDE DEF walk
<1> DEFINE Good(i) ==
             /\ walk[i].pc = s.pc
             /\ \A v : v \in walk[i].visited <=>
                  v \in s.visited \/ (~IsJump(f[v]) /\ \E j \in 1 .. i : succ[j] = v)
             /\ \A v : v \in Range(walk[i].stack) <=>
                  v \in Range(Front(s.stack)) \/ v \in walk[i].visited \ s.visited
           T == {i \in 0 .. L : Good(i)}
<1>9. 0 \in T
  <2>1. 1 .. 0 = {} /\ 0 \in 0 .. L
    BY <1>2
  <2> QED BY <1>4, <1>8, <2>1
<1>10. ASSUME NEW k \in 0 .. L, k \in T, k + 1 \in 0 .. L PROVE k + 1 \in T
  <2> DEFINE m == k + 1
             q == walk[k]
             v == succ[m]
  <2>1. m \in 1 .. L /\ m - 1 = k /\ m \in 0 .. L /\ k \in 0 .. L
    BY <1>2, <1>10
  <2>2. \A j \in 1 .. m : j = m \/ j \in 1 .. k
    BY <1>10
  <2>3. m \in 1 .. m /\ \A j \in 1 .. k : j \in 1 .. m
    BY <1>10
  <2> HIDE DEF m
  <2>4. q \in Searches /\ v \in Blocks /\ walk[m] = Visit(f, q, v)
    BY <1>2, <1>8, <2>1
  <2>5. /\ q.pc = s.pc
        /\ \A w : w \in q.visited <=>
             w \in s.visited \/ (~IsJump(f[w]) /\ \E j \in 1 .. k : succ[j] = w)
        /\ \A w : w \in Range(q.stack) <=>
             w \in Range(Front(s.stack)) \/ w \in q.visited \ s.visited
    BY <1>10
  <2>6. \A w : (\E j \in 1 .. m : succ[j] = w) <=> w = v \/ \E j \in 1 .. k : succ[j] = w
    BY <2>2, <2>3
  <2>7. /\ walk[m].pc = q.pc
        /\ \A w : w \in walk[m].visited <=> w \in q.visited \/ (w = v /\ ~IsJump(f[v]))
        /\ \A w : w \in Range(walk[m].stack) <=>
             w \in Range(q.stack) \/ (w = v /\ v \notin q.visited /\ ~IsJump(f[v]))
    <3> HIDE DEF q, v
    <3>1. q \in Searches /\ v \in Blocks
      BY <2>4
    <3>2. /\ Visit(f, q, v).pc = q.pc
          /\ \A w : w \in Visit(f, q, v).visited <=> w \in q.visited \/ (w = v /\ ~IsJump(f[v]))
      BY <1>5, <3>1
    <3>3. \A w : w \in Range(Visit(f, q, v).stack) <=>
            w \in Range(q.stack) \/ (w = v /\ v \notin q.visited /\ ~IsJump(f[v]))
      BY <1>5, <3>1
    <3> QED BY <2>4, <3>2, <3>3
  <2> HIDE DEF v, q
  <2>8. \A w : w \in walk[m].visited <=>
          w \in s.visited \/ (~IsJump(f[w]) /\ \E j \in 1 .. m : succ[j] = w)
    BY <2>5, <2>6, <2>7
  <2>9. \A w : w \in Range(walk[m].stack) <=>
          w \in Range(Front(s.stack)) \/ w \in walk[m].visited \ s.visited
    BY <2>5, <2>7
  <2>10. Good(m)
    BY <2>5, <2>7, <2>8, <2>9
  <2> HIDE DEF Good
  <2> QED BY <2>1, <2>10 DEF m
<1>11. Good(L)
  <2> HIDE DEF T, Good
  <2>1. 0 .. L \subseteq T \/ L < 0
    <3>1. \A k \in 0 .. L : k \in T /\ k + 1 \in 0 .. L => k + 1 \in T
      BY <1>10
    <3>2. 0 \in Nat
      OBVIOUS
    <3> QED BY <1>2, <1>9, <3>1, <3>2, IntervalInduction
  <2>2. L \in T
    BY <1>2, <2>1
  <2> QED BY <2>2 DEF T
<1>12. \A v : v \in Targets(f[curr]) <=> \E j \in 1 .. L : succ[j] = v
  BY <1>2 DEF Range
<1>13. r \in Searches
  <2>1. L \in 0 .. L
    BY <1>2
  <2> QED BY <1>3, <1>8, <2>1
<1>14. /\ r.pc = s.pc
       /\ \A v : v \in r.visited <=> v \in s.visited \/ (v \in Targets(f[curr]) /\ ~IsJump(f[v]))
       /\ \A v : v \in Range(r.stack) <=>
            v \in Range(Front(s.stack)) \/ v \in r.visited \ s.visited
  <2> HIDE DEF L
  <2>1. /\ walk[L].pc = s.pc
        /\ \A v : v \in walk[L].visited <=>
             v \in s.visited \/ (~IsJump(f[v]) /\ \E j \in 1 .. L : succ[j] = v)
        /\ \A v : v \in Range(walk[L].stack) <=>
             v \in Range(Front(s.stack)) \/ v \in walk[L].visited \ s.visited
    BY <1>11
  <2> QED BY <1>3, <1>12, <2>1
<1> QED BY <1>13, <1>14 DEF curr

-----------------------------------------------------------------------------
(* Chosen targets.                                                         *)

Chosen(x, targets) ==
  /\ targets \in Seq(Blocks)
  /\ IsInjective(targets)
  /\ Range(targets) \subseteq Targets(x)

\* A target that is inserted.
LEMMA InsertChooses ==
  ASSUME NEW x \in WorkRecords, Edged(x), NEW targets, Chosen(x, targets), NEW v \in Targets(x)
  PROVE  Chosen(x, Insert(x, targets, v))
<1>1. v \in Blocks /\ targets \in Seq(Blocks)
  BY EdgeSets DEF Chosen
<1>2. /\ Append(targets, v) \in Seq(Blocks)
      /\ Range(Append(targets, v)) = Range(targets) \cup {v}
      /\ v \notin Range(targets) => IsInjective(Append(targets, v))
  BY <1>1, RangeOfAppend DEF Chosen
<1>3. CASE Len(targets) >= x.nsucc \/ v \in Range(targets)
  <2>1. Insert(x, targets, v) = targets
    BY <1>3 DEF Insert
  <2> QED BY <2>1
<1>4. CASE ~(Len(targets) >= x.nsucc \/ v \in Range(targets))
  <2>1. Insert(x, targets, v) = Append(targets, v)
    BY <1>4 DEF Insert
  <2> QED BY <1>2, <1>4, <2>1 DEF Chosen
<1> QED BY <1>3, <1>4

\* A target that is taken back.
LEMMA DeselectChooses ==
  ASSUME NEW x, NEW targets, Chosen(x, targets), NEW v
  PROVE  Chosen(x, Deselect(targets, v))
<1>1. CASE v \notin Range(targets)
  <2>1. Deselect(targets, v) = targets
    BY <1>1 DEF Deselect
  <2> QED BY <2>1
<1>2. CASE v \in Range(targets)
  <2> DEFINE i == IndexOf(targets, v)
             h == Filled(targets, i)
  <2>1. Deselect(targets, v) = h
    BY <1>2 DEF Deselect, Filled
  <2>2. targets \in Seq(Blocks) /\ IsInjective(targets) /\ DOMAIN targets = 1 .. Len(targets)
    BY LenProperties DEF Chosen
  <2>3. i \in 1 .. Len(targets)
    BY <1>2, <2>2 DEF IndexOf, Range
  <2> HIDE DEF i
  <2>4. h \in Seq(Blocks)
    BY <2>2, <2>3, HoleFilled
  <2>5. Range(h) = Range(targets) \ {targets[i]} /\ IsInjective(h)
    BY <2>2, <2>3, HoleFilledRange
  <2> HIDE DEF h
  <2> QED BY <2>1, <2>4, <2>5 DEF Chosen
<1> QED BY <1>1, <1>2

\* Targets that are chosen one after the other.
LEMMA SelectAllChooses ==
  ASSUME NEW x \in WorkRecords, Edged(x), NEW targets, Chosen(x, targets), NEW C
  PROVE  Chosen(x, SelectAll(x, targets, C))
<1> DEFINE succ == Successors(x)
           L == Len(succ)
           S == {q \in Seq(Blocks) : Chosen(x, q)}
           F == [i \in 1 .. L |-> [q \in S |->
                   IF succ[i] \in C THEN Insert(x, q, succ[i]) ELSE q]]
           chosen == CHOOSE chosen : chosen = [i \in 0 .. L |->
                       IF i = 0 THEN targets
                       ELSE IF succ[i] \in C THEN Insert(x, chosen[i - 1], succ[i])
                       ELSE chosen[i - 1]]
<1>1. L \in Nat /\ \A i \in 1 .. L : succ[i] \in Targets(x)
  <2>1. succ \in Seq(Blocks) /\ Range(succ) = Targets(x)
    BY EdgeParts, EdgeSets
  <2>2. L \in Nat /\ DOMAIN succ = 1 .. L
    BY <2>1, LenProperties
  <2> QED BY <2>1, <2>2 DEF Range
<1>2. SelectAll(x, targets, C) = chosen[L]
  BY DEF SelectAll
<1>3. targets \in S
  BY DEF Chosen
<1>4. \A q \in S, v \in Targets(x) : Insert(x, q, v) \in S
  <2> SUFFICES ASSUME NEW q \in S, NEW v \in Targets(x) PROVE Insert(x, q, v) \in S
    OBVIOUS
  <2>1. Chosen(x, Insert(x, q, v))
    BY InsertChooses
  <2> QED BY <2>1 DEF Chosen
<1>5. \A q \in S : Chosen(x, q)
  OBVIOUS
<1> HIDE DEF succ, L, S
<1>6. \A i \in 1 .. L : F[i] \in [S -> S]
  BY <1>1, <1>4
<1>7. \E c \in [0 .. L -> S] : Rounds(c, L, targets, F)
  <2> HIDE DEF F
  <2> QED BY <1>1, <1>3, <1>6, Iterated
<1>8. PICK c \in [0 .. L -> S] : Rounds(c, L, targets, F)
  BY <1>7
<1>9. c = [i \in 0 .. L |-> IF i = 0 THEN targets
                            ELSE IF succ[i] \in C THEN Insert(x, c[i - 1], succ[i])
                            ELSE c[i - 1]]
  <2>1. ASSUME NEW i \in 0 .. L
        PROVE  c[i] = IF i = 0 THEN targets
                      ELSE IF succ[i] \in C THEN Insert(x, c[i - 1], succ[i])
                      ELSE c[i - 1]
    <3>1. CASE i = 0
      BY <1>8, <3>1 DEF Rounds
    <3>2. CASE i # 0
      <4>1. i \in 1 .. L /\ i - 1 \in 0 .. L
        BY <1>1, <3>2
      <4>2. c[i] = F[i][c[i - 1]] /\ c[i - 1] \in S
        BY <1>8, <4>1 DEF Rounds
      <4> QED BY <3>2, <4>1, <4>2
    <3> QED BY <3>1, <3>2
  <2> QED BY <2>1
<1>10. chosen = [i \in 0 .. L |-> IF i = 0 THEN targets
                                  ELSE IF succ[i] \in C THEN Insert(x, chosen[i - 1], succ[i])
                                  ELSE chosen[i - 1]]
  BY <1>9
<1> HIDE DEF chosen
<1>11. chosen[L] \in S
  <2> DEFINE T == {i \in 0 .. L : chosen[i] \in S}
  <2>1. 0 \in T
    <3>1. 0 \in 0 .. L
      BY <1>1
    <3> QED BY <1>3, <1>10, <3>1
  <2>2. ASSUME NEW k \in 0 .. L, k \in T, k + 1 \in 0 .. L PROVE k + 1 \in T
    <3> DEFINE m == k + 1
    <3>1. m \in 1 .. L /\ m - 1 = k /\ m \in 0 .. L /\ m # 0
      BY <1>1, <2>2
    <3>2. chosen[k] \in S
      BY <2>2
    <3> HIDE DEF m
    <3>3. chosen[m] = IF succ[m] \in C THEN Insert(x, chosen[k], succ[m]) ELSE chosen[k]
      BY <1>10, <3>1
    <3>4. chosen[m] \in S
      BY <1>1, <1>4, <3>1, <3>2, <3>3
    <3> QED BY <3>1, <3>4 DEF m
  <2> HIDE DEF T
  <2>3. 0 .. L \subseteq T \/ L < 0
    <3>1. \A k \in 0 .. L : k \in T /\ k + 1 \in 0 .. L => k + 1 \in T
      BY <2>2
    <3>2. 0 \in Nat
      OBVIOUS
    <3> QED BY <1>1, <2>1, <3>1, <3>2, IntervalInduction
  <2>4. L \in T
    BY <1>1, <2>3
  <2> QED BY <2>4 DEF T
<1> QED BY <1>2, <1>5, <1>11

\* What a call of a single handle leaves.
LEMMA OneTargetChooses ==
  ASSUME NEW x \in WorkRecords, Edged(x), NEW targets, Chosen(x, targets),
         NEW result \in OneTarget(x, targets)
  PROVE  Chosen(x, result) /\ (Len(targets) <= 1 => Len(result) <= 1)
<1>1. CASE result = targets
  BY <1>1
<1>2. CASE result = <<>>
  <2>1. <<>> \in Seq(Blocks) /\ Len(<<>>) = 0
    OBVIOUS
  <2> QED BY <1>2, <2>1, RangeOfEmpty DEF Chosen
<1>3. ASSUME NEW v \in Targets(x), result = <<v>> PROVE Chosen(x, result) /\ Len(result) <= 1
  <2>1. v \in Blocks
    BY EdgeSets
  <2>2. <<v>> \in Seq(Blocks) /\ Len(<<v>>) = 1 /\ Range(<<v>>) = {v} /\ IsInjective(<<v>>)
    BY <2>1, RangeOfSingleton
  <2> QED BY <1>3, <2>2 DEF Chosen
<1> QED BY <1>1, <1>2, <1>3, EdgeSets DEF OneTarget

\* And one of a multiple handle.
LEMMA ManyTargetsChoose ==
  ASSUME NEW x \in WorkRecords, Edged(x), NEW targets, Chosen(x, targets),
         NEW result \in ManyTargets(x, targets)
  PROVE  Chosen(x, result)
<1>1. Range(Successors(x)) = Targets(x)
  BY EdgeSets
<1>2. Chosen(x, <<>>)
  BY RangeOfEmpty DEF Chosen
<1>3. CASE result \in {SelectAll(x, targets, C) : C \in SUBSET Range(Successors(x))}
  BY <1>3, SelectAllChooses
<1>4. CASE result \in {Insert(x, targets, v) : v \in Range(Successors(x))}
  BY <1>1, <1>4, InsertChooses
<1>5. CASE result \in {Deselect(targets, v) : v \in Range(Successors(x))}
  BY <1>5, DeselectChooses
<1> QED BY <1>2, <1>3, <1>4, <1>5 DEF ManyTargets

-----------------------------------------------------------------------------
(* Cycles.  A closed set is one that no edge leaves; one that has a and    *)
(* not b says that no path leads from a to b.                              *)

Closed(R, E, S) == \A e \in E : e[1] \in R /\ e[2] \in S => e[2] \in R

Apart(a, b, E, S) == \E R \in SUBSET S : a \in R /\ b \notin R /\ Closed(R, E, S)

Acyclic(E, S) == \A e \in E : e[1] \in S /\ e[2] \in S => Apart(e[2], e[1], E, S)

\* Fewer edges or Works make no cycle.
LEMMA AcyclicFewer ==
  ASSUME NEW E, NEW S, NEW C, NEW T, Acyclic(E, S),
         \A e \in C : e[1] \in T /\ e[2] \in T => e \in E /\ e[1] \in S /\ e[2] \in S
  PROVE  Acyclic(C, T)
<1> SUFFICES ASSUME NEW e \in C, e[1] \in T, e[2] \in T PROVE Apart(e[2], e[1], C, T)
  BY DEF Acyclic
<1>1. PICK R \in SUBSET S : e[2] \in R /\ e[1] \notin R /\ Closed(R, E, S)
  BY DEF Acyclic, Apart
<1>2. Closed(R \cap T, C, T)
  BY <1>1 DEF Closed
<1> QED BY <1>1, <1>2 DEF Apart

\* An edge between Works that no path connects the other way makes none.
LEMMA AcyclicMore ==
  ASSUME NEW E, NEW S, NEW L, NEW u, NEW v, Acyclic(E, S), S \subseteq L, Apart(v, u, E, L)
  PROVE  Acyclic(E \cup {<<u, v>>}, S)
<1> DEFINE C == E \cup {<<u, v>>}
<1>1. PICK R \in SUBSET L : v \in R /\ u \notin R /\ Closed(R, E, L)
  BY DEF Apart
<1>2. Closed(R \cap S, E, S)
  BY <1>1 DEF Closed
<1> SUFFICES ASSUME NEW e \in C, e[1] \in S, e[2] \in S PROVE Apart(e[2], e[1], C, S)
  BY DEF Acyclic
<1>3. \A X : Closed(X, E, S) /\ (u \in X /\ v \in S => v \in X) => Closed(X, C, S)
  BY DEF Closed
<1>4. CASE e \in E
  <2>1. PICK X \in SUBSET S : e[2] \in X /\ e[1] \notin X /\ Closed(X, E, S)
    BY <1>4 DEF Acyclic, Apart
  <2>2. CASE e[1] \notin R
    <3>1. Closed(X \cup (R \cap S), E, S)
      BY <1>2, <2>1 DEF Closed
    <3>2. Closed(X \cup (R \cap S), C, S)
      BY <1>1, <1>3, <3>1
    <3> QED BY <1>1, <2>1, <2>2, <3>2 DEF Apart
  <2>3. CASE e[1] \in R
    <3>1. e[2] \in R
      BY <1>1, <1>4, <2>3 DEF Closed
    <3>2. Closed(X \cap (R \cap S), E, S)
      BY <1>2, <2>1 DEF Closed
    <3>3. Closed(X \cap (R \cap S), C, S)
      BY <1>1, <1>3, <3>2
    <3> QED BY <2>1, <3>1, <3>3 DEF Apart
  <2> QED BY <2>2, <2>3
<1>5. CASE e = <<u, v>>
  <2>1. e[1] = u /\ e[2] = v
    BY <1>5
  <2>2. Closed(R \cap S, C, S)
    BY <1>1, <1>2, <1>3
  <2> QED BY <1>1, <2>1, <2>2 DEF Apart
<1> QED BY <1>4, <1>5

-----------------------------------------------------------------------------
(* The graphs that the threads edit.                                       *)
(*                                                                         *)
(* The inductive invariant.  The properties of GraphBuilding speak of the  *)
(* moments at which a call is over; in between they rest on what a call    *)
(* has still to do: which Works it has made and must hand over, which it   *)
(* is about to destroy, and what its search has seen of the graph.         *)

\* The parts of calls, and what a thread keeps of its call.
Parts ==
  [do : {"make"}, flow : Flows, kind : GraphKinds]
    \cup [do : {"connect"}, from : Blocks, to : Blocks]
    \cup [do : {"destroy"}, work : Blocks]
    \cup [do : {"empty"}, flow : Flows]
    \cup [do : {"take"}, flow : Flows, from : Flows]

OpRecords ==
  [todo : Seq(Parts), made : Blocks \cup {None}, search : Searches,
   choice : [work : Blocks \cup {None}, targets : Seq(Blocks)]]

\* The types.
BuildingTyped ==
  /\ flow \in [Flows -> Seq(Blocks)]
  /\ work \in [Blocks -> WorkRecords]
  /\ op \in [Threads -> OpRecords]
  /\ plan \in Plans

\* t is about to empty g, and to destroy b.
Empties(t, g) ==
  \E i \in DOMAIN op[t].todo : op[t].todo[i].do = "empty" /\ op[t].todo[i].flow = g
Dooms(t, b) ==
  \E i \in DOMAIN op[t].todo : op[t].todo[i].do = "destroy" /\ op[t].todo[i].work = b

\* The Works of a flow and their edges.
WorksIn(g) == Range(flow[g])
EdgesIn(g) == Edges(work, WorksIn(g))

\* A flow that is not being emptied: its Works are labelled with it, their
\* edges are those of a digraph, and no cycle avoids the jumps.
FlowOK(g) ==
  g \notin Dying =>
    /\ IsInjective(flow[g])
    /\ \A w \in WorksIn(g) : work[w].graph = g
    /\ Drawn(work, WorksIn(g), EdgesIn(g))
    /\ Acyclic(EdgesIn(g), WorksIn(g) \ jumped)

\* A flow or a call answers for the Work in b.
Owned(b) ==
  \/ work[b].graph \notin Dying /\ b \in WorksIn(work[b].graph)
  \/ \E t \in Threads : op[t].made = b \/ Dooms(t, b)

\* A block with a Work in it, or without.
BlockOK(b) ==
  /\ b \notin live => work[b] = NoWork
  /\ b \in live => work[b].graph \in Flows /\ Owned(b)
  /\ work[b].nsucc \in 0 .. Len(work[b].edges)
  /\ Ordered(work[b].acquires) /\ Distinct(work[b].releases)
  /\ IsJump(work[b]) => b \in jumped

\* A call of the pool that is to return a block for a new Work.
Creating(c) == c.pc \in Popping \cup {"got"} \/ (c.pc \in Pushing /\ c.block # None)

\* The call of a thread, by what is left of it.  A Work that was made is not in
\* its flow yet.
Making(t) ==
  /\ \A i \in DOMAIN op[t].todo : op[t].todo[i].do = "make" /\ op[t].todo[i].flow \in FlowsOf[t]
  /\ op[t].search = NoSearch /\ op[t].choice = NoChoice
  /\ op[t].made # None =>
       /\ op[t].todo # <<>>
       /\ op[t].made \in live
       /\ work[op[t].made] = Created(Head(op[t].todo).flow, Head(op[t].todo).kind)
       /\ op[t].made \notin WorksIn(Head(op[t].todo).flow)

\* What a search for a path from v to u knows, among the Works W of f: it has
\* visited only what can be reached from v, and all successors of a visited
\* Work are visited unless that Work is still on the stack.
SearchFacts(f, W, u, v, s) ==
  LET E == Edges(f, W)
      L == {w \in W : ~IsJump(f[w])}
  IN  /\ u \in W /\ v \in W /\ <<u, v>> \notin E
      /\ s.pc # "none"
      /\ s.pc = "fine" => u \notin L \/ v \notin L
      /\ s.pc # "fine" => u \in L /\ v \in L
      /\ s.pc = "search" =>
           /\ Range(s.stack) \subseteq s.visited
           /\ s.visited \subseteq L
           /\ v \in s.visited /\ u \notin s.visited
           /\ \A e \in E : e[1] \in s.visited /\ e[1] \notin Range(s.stack) =>
                e[2] # u /\ (e[2] \in L => e[2] \in s.visited)
           /\ \A R \in SUBSET L : v \in R /\ Closed(R, E, L) => s.visited \subseteq R
      /\ s.pc = "noPath" => Apart(v, u, E, L)
      /\ s.pc = "path" => ~Apart(v, u, E, L)

\* It connects Works of its own; a search knows about the edge that is due.
Connecting(t) ==
  /\ \A i \in DOMAIN op[t].todo :
       /\ op[t].todo[i].do = "connect"
       /\ op[t].todo[i].from \in WorksOf(t) /\ op[t].todo[i].to \in WorksOf(t)
  /\ op[t].made = None /\ op[t].choice = NoChoice
  /\ op[t].search # NoSearch =>
       /\ op[t].todo # <<>>
       /\ LET u == Head(op[t].todo).from
              v == Head(op[t].todo).to
          IN  SearchFacts(work, WorksIn(work[u].graph), u, v, op[t].search)

\* k Works of g remain to be destroyed; then g may take over another flow.
Emptying(t, g, k) ==
  /\ op[t] = [NoOp EXCEPT !.todo = op[t].todo]
  /\ Len(op[t].todo) \in {k + 1, k + 2}
  /\ \A i \in 1 .. k :
       /\ op[t].todo[i].do = "destroy"
       /\ op[t].todo[i].work \in live /\ work[op[t].todo[i].work].graph = g
  /\ \A i, j \in 1 .. k : op[t].todo[i].work = op[t].todo[j].work => i = j
  /\ op[t].todo[k + 1].do = "empty" /\ op[t].todo[k + 1].flow = g
  /\ Len(op[t].todo) = k + 2 =>
       /\ op[t].todo[k + 2].do = "take" /\ op[t].todo[k + 2].flow = g
       /\ op[t].todo[k + 2].from \in FlowsOf[t] \ {g}

\* It has emptied a flow and is to take over another.
Taking(t) ==
  /\ op[t] = [NoOp EXCEPT !.todo = op[t].todo]
  /\ Len(op[t].todo) = 1
  /\ op[t].todo[1].do = "take"
  /\ op[t].todo[1].flow \in FlowsOf[t] /\ op[t].todo[1].from \in FlowsOf[t]
  /\ op[t].todo[1].flow # op[t].todo[1].from
  /\ flow[op[t].todo[1].flow] = <<>>

\* Its callable has chosen successors, each once.
InCallback(t) ==
  /\ op[t] = [NoOp EXCEPT !.choice = op[t].choice]
  /\ op[t].choice.work \in WorksOf(t)
  /\ Chosen(Chooser(t), op[t].choice.targets)
  /\ ChoosesOne(t) => Len(op[t].choice.targets) <= 1

\* What a thread is at.
ThreadOK(t) ==
  /\ Creating(call[t]) =>
       op[t].todo # <<>> /\ Head(op[t].todo).do = "make" /\ op[t].made = None
  /\ \/ Making(t)
     \/ Connecting(t)
     \/ \E g \in FlowsOf[t], k \in Nat : Emptying(t, g, k)
     \/ Taking(t)
     \/ InCallback(t)

\* The inductive invariant.
IInv ==
  /\ PoolIInv
  /\ BuildingTyped
  /\ \A g \in Flows : FlowOK(g)
  /\ \A b \in Blocks : BlockOK(b)
  /\ \A t \in Threads : ThreadOK(t)

\* Parts of calls, by what they do.
LEMMA PartFields ==
  ASSUME NEW p \in Parts
  PROVE  /\ p.do \in {"make", "connect", "destroy", "empty", "take"}
         /\ p.do = "make" => p.flow \in Flows /\ p.kind \in GraphKinds
         /\ p.do = "connect" => p.from \in Blocks /\ p.to \in Blocks
         /\ p.do = "destroy" => p.work \in Blocks
         /\ p.do = "empty" => p.flow \in Flows
         /\ p.do = "take" => p.flow \in Flows /\ p.from \in Flows
<1>1. CASE p \in [do : {"make"}, flow : Flows, kind : GraphKinds]
  BY <1>1
<1>2. CASE p \in [do : {"connect"}, from : Blocks, to : Blocks]
  BY <1>2
<1>3. CASE p \in [do : {"destroy"}, work : Blocks]
  BY <1>3
<1>4. CASE p \in [do : {"empty"}, flow : Flows]
  BY <1>4
<1>5. CASE p \in [do : {"take"}, flow : Flows, from : Flows]
  BY <1>5
<1> QED BY <1>1, <1>2, <1>3, <1>4, <1>5 DEF Parts

\* The types of what a thread is at.
LEMMA OpTypes ==
  ASSUME BuildingTyped, NEW t \in Threads
  PROVE  /\ op[t] \in OpRecords
         /\ op[t].todo \in Seq(Parts) /\ op[t].made \in Blocks \cup {None}
         /\ op[t].search \in Searches
         /\ Len(op[t].todo) \in Nat /\ DOMAIN op[t].todo = 1 .. Len(op[t].todo)
         /\ \A i \in DOMAIN op[t].todo : op[t].todo[i] \in Parts
         /\ op[t].todo # <<>> =>
              /\ 1 \in DOMAIN op[t].todo /\ Head(op[t].todo) = op[t].todo[1]
              /\ Len(Tail(op[t].todo)) = Len(op[t].todo) - 1
              /\ Tail(op[t].todo) \in Seq(Parts)
              /\ \A i \in DOMAIN Tail(op[t].todo) :
                   i + 1 \in DOMAIN op[t].todo /\ Tail(op[t].todo)[i] = op[t].todo[i + 1]
<1>1. op[t] \in OpRecords
  BY DEF BuildingTyped
<1>2. op[t].todo \in Seq(Parts) /\ op[t].made \in Blocks \cup {None} /\ op[t].search \in Searches
  BY <1>1 DEF OpRecords
<1> DEFINE s == op[t].todo
<1>3. s \in Seq(Parts)
  BY <1>2
<1> HIDE DEF s
<1>4. Len(s) \in Nat /\ DOMAIN s = 1 .. Len(s) /\ \A i \in DOMAIN s : s[i] \in Parts
  BY <1>3, LenProperties, ElementOfSeq
<1>5. ASSUME s # <<>>
      PROVE  /\ 1 \in DOMAIN s /\ Head(s) = s[1] /\ Len(Tail(s)) = Len(s) - 1
             /\ Tail(s) \in Seq(Parts)
             /\ \A i \in DOMAIN Tail(s) : i + 1 \in DOMAIN s /\ Tail(s)[i] = s[i + 1]
  <2>1. Len(s) # 0
    BY <1>3, <1>5, EmptySeq
  <2>2. Tail(s) \in Seq(Parts) /\ Len(Tail(s)) = Len(s) - 1
        /\ \A i \in 1 .. Len(s) - 1 : Tail(s)[i] = s[i + 1]
    BY <1>3, <1>5, HeadTailProperties
  <2>3. DOMAIN Tail(s) = 1 .. Len(s) - 1
    BY <2>2, LenProperties
  <2>4. Head(s) = s[1]
    BY <1>3, <1>5
  <2>5. \A i \in 1 .. Len(s) - 1 : i + 1 \in 1 .. Len(s)
    BY <1>4
  <2>6. 1 \in 1 .. Len(s)
    BY <1>4, <2>1
  <2> QED BY <1>4, <2>2, <2>3, <2>4, <2>5, <2>6
<1> QED BY <1>1, <1>2, <1>4, <1>5 DEF s

\* Flows belong to one thread.
LEMMA FlowsApart ==
  /\ Nothing \notin Flows
  /\ \A t \in Threads : FlowsOf[t] \subseteq Flows
  /\ \A t, u \in Threads : \A g \in FlowsOf[t] : g \in FlowsOf[u] => t = u
BY BuildingAssumption

\* What a thread is to do, it does to its own flows and their Works.
LEMMA OwnParts ==
  ASSUME BuildingTyped, NEW t \in Threads, ThreadOK(t)
  PROVE  /\ \A g : Empties(t, g) => g \in FlowsOf[t]
         /\ \A b : Dooms(t, b) =>
              /\ b \in live /\ b \in Blocks
              /\ work[b].graph \in FlowsOf[t] /\ Empties(t, work[b].graph)
         /\ op[t].made # None =>
              /\ op[t].made \in live /\ op[t].made \in Blocks
              /\ work[op[t].made].graph \in FlowsOf[t]
              /\ op[t].made \notin WorksIn(work[op[t].made].graph)
         /\ (\E g : Empties(t, g)) => op[t] = [NoOp EXCEPT !.todo = op[t].todo]
<1> DEFINE s == op[t].todo
<1>1. /\ Len(s) \in Nat /\ DOMAIN s = 1 .. Len(s) /\ op[t].made \in Blocks \cup {None}
      /\ \A i \in DOMAIN s : s[i] \in Parts
      /\ s # <<>> => 1 \in DOMAIN s /\ Head(s) = s[1]
  BY OpTypes
<1>2. \A i \in DOMAIN s : s[i].do = "destroy" => s[i].work \in Blocks
  BY <1>1, PartFields
<1>3. CASE Making(t)
  <2>1. \A i \in DOMAIN s : s[i].do = "make" /\ s[i].flow \in FlowsOf[t]
    BY <1>3 DEF Making
  <2>2. (\A g : ~Empties(t, g)) /\ \A b : ~Dooms(t, b)
    BY <2>1 DEF Empties, Dooms
  <2>3. ASSUME op[t].made # None
        PROVE  /\ op[t].made \in live /\ op[t].made \in Blocks
               /\ work[op[t].made].graph \in FlowsOf[t]
               /\ op[t].made \notin WorksIn(work[op[t].made].graph)
    <3>1. /\ s # <<>> /\ op[t].made \in live
          /\ work[op[t].made] = Created(Head(s).flow, Head(s).kind)
          /\ op[t].made \notin WorksIn(Head(s).flow)
      BY <1>3, <2>3 DEF Making
    <3>2. work[op[t].made].graph = Head(s).flow
      BY <3>1 DEF Created, NoWork
    <3>3. Head(s).flow \in FlowsOf[t]
      BY <1>1, <2>1, <3>1
    <3> QED BY <1>1, <2>3, <3>1, <3>2, <3>3
  <2> QED BY <2>2, <2>3
<1>4. CASE Connecting(t)
  <2>1. \A i \in DOMAIN s : s[i].do = "connect"
    BY <1>4 DEF Connecting
  <2>2. (\A g : ~Empties(t, g)) /\ \A b : ~Dooms(t, b)
    BY <2>1 DEF Empties, Dooms
  <2> QED BY <1>4, <2>2 DEF Connecting
<1>5. ASSUME NEW g \in FlowsOf[t], NEW k \in Nat, Emptying(t, g, k)
      PROVE  /\ \A h : Empties(t, h) => h = g
             /\ \A b : Dooms(t, b) => b \in live /\ b \in Blocks /\ work[b].graph = g
             /\ Empties(t, g) /\ op[t].made = None
             /\ op[t] = [NoOp EXCEPT !.todo = op[t].todo]
  <2>1. /\ op[t] = [NoOp EXCEPT !.todo = op[t].todo]
        /\ Len(s) \in {k + 1, k + 2}
        /\ \A i \in 1 .. k :
             /\ s[i].do = "destroy"
             /\ s[i].work \in live /\ work[s[i].work].graph = g
        /\ s[k + 1].do = "empty" /\ s[k + 1].flow = g
        /\ Len(s) = k + 2 => s[k + 2].do = "take"
    BY <1>5 DEF Emptying
  <2>2. \A i \in DOMAIN s : i \in 1 .. k \/ i = k + 1 \/ (i = k + 2 /\ Len(s) = k + 2)
    BY <1>1, <2>1
  <2>3. k + 1 \in DOMAIN s
    BY <1>1, <2>1
  <2>4. \A h : Empties(t, h) => h = g
    BY <2>1, <2>2 DEF Empties
  <2>5. \A b : Dooms(t, b) => b \in live /\ b \in Blocks /\ work[b].graph = g
    BY <1>2, <2>1, <2>2 DEF Dooms
  <2>6. Empties(t, g)
    BY <2>1, <2>3 DEF Empties
  <2>7. op[t].made = None
    BY <2>1 DEF NoOp
  <2> QED BY <2>1, <2>4, <2>5, <2>6, <2>7
<1>6. CASE Taking(t)
  <2>1. Len(s) = 1 /\ s[1].do = "take" /\ op[t] = [NoOp EXCEPT !.todo = op[t].todo]
    BY <1>6 DEF Taking
  <2>2. (\A g : ~Empties(t, g)) /\ \A b : ~Dooms(t, b)
    BY <1>1, <2>1 DEF Empties, Dooms
  <2>3. op[t].made = None
    BY <2>1 DEF NoOp
  <2> QED BY <2>2, <2>3
<1>7. CASE InCallback(t)
  <2>1. op[t] = [NoOp EXCEPT !.choice = op[t].choice]
    BY <1>7 DEF InCallback
  <2>2. s = <<>> /\ op[t].made = None
    BY <2>1 DEF NoOp
  <2>3. (\A g : ~Empties(t, g)) /\ \A b : ~Dooms(t, b)
    BY <2>2 DEF Empties, Dooms
  <2> QED BY <2>2, <2>3
<1>8. CASE \E g \in FlowsOf[t], k \in Nat : Emptying(t, g, k)
  BY <1>5, <1>8
<1> QED BY <1>3, <1>4, <1>6, <1>7, <1>8 DEF ThreadOK

\* The invariant, part by part.
LEMMA IInvParts ==
  ASSUME IInv
  PROVE  /\ PoolIInv /\ BuildingTyped
         /\ \A g \in Flows : FlowOK(g)
         /\ \A b \in Blocks : BlockOK(b)
         /\ \A t \in Threads : ThreadOK(t)
BY DEF IInv

\* Only its own thread empties a flow.
LEMMA DyingIs ==
  ASSUME IInv, NEW t \in Threads, NEW g \in FlowsOf[t]
  PROVE  g \in Dying <=> Empties(t, g)
<1>1. g \in Flows
  BY FlowsApart
<1>2. \A u \in Threads : Empties(u, g) => g \in FlowsOf[u]
  BY IInvParts, OwnParts
<1>3. \A u \in Threads : Empties(u, g) => u = t
  BY <1>2, FlowsApart
<1>4. g \in Dying <=> \E u \in Threads : Empties(u, g)
  BY <1>1 DEF Dying, Empties
<1> QED BY <1>3, <1>4

\* The Works of a flow that is not being emptied.
LEMMA FlowWorks ==
  ASSUME IInv, NEW g \in Flows \ Dying
  PROVE  /\ IsInjective(flow[g]) /\ flow[g] \in Seq(Blocks) /\ WorksIn(g) \subseteq Blocks
         /\ Drawn(work, WorksIn(g), EdgesIn(g))
         /\ Acyclic(EdgesIn(g), WorksIn(g) \ jumped)
         /\ \A w \in WorksIn(g) :
              /\ w \in Blocks /\ w \in live /\ work[w].graph = g
              /\ work[w] \in WorkRecords /\ Edged(work[w])
<1>1. FlowOK(g)
  BY IInvParts
<1>2. flow[g] \in Seq(Blocks) /\ work \in [Blocks -> WorkRecords]
  BY IInvParts DEF BuildingTyped
<1>3. WorksIn(g) \subseteq Blocks
  BY <1>2, ElementOfSeq DEF WorksIn, Range
<1>4. /\ IsInjective(flow[g]) /\ \A w \in WorksIn(g) : work[w].graph = g
      /\ Drawn(work, WorksIn(g), EdgesIn(g)) /\ Acyclic(EdgesIn(g), WorksIn(g) \ jumped)
  BY <1>1 DEF FlowOK
<1>5. ASSUME NEW w \in WorksIn(g)
      PROVE  w \in live /\ Edged(work[w])
  <2>1. w \in Blocks /\ BlockOK(w) /\ work[w].graph = g
    BY <1>3, <1>4, IInvParts
  <2>2. w \notin live => work[w].graph = Nothing
    BY <2>1 DEF BlockOK, NoWork
  <2>3. g # Nothing
    BY FlowsApart
  <2>4. Edged(work[w])
    BY <1>4 DEF Drawn
  <2> QED BY <2>1, <2>2, <2>3, <2>4
<1> QED BY <1>2, <1>3, <1>4, <1>5

\* What a thread is at tells how its call stands.
LEMMA Phases ==
  ASSUME IInv, NEW t \in Threads
  PROVE  /\ op[t].todo # <<>> =>
              /\ Head(op[t].todo).do = "make" => Making(t)
              /\ Head(op[t].todo).do = "connect" => Connecting(t)
              /\ Head(op[t].todo).do = "destroy" =>
                   \E g \in FlowsOf[t], k \in Nat : k # 0 /\ Emptying(t, g, k)
              /\ Head(op[t].todo).do = "empty" => \E g \in FlowsOf[t] : Emptying(t, g, 0)
              /\ Head(op[t].todo).do = "take" => Taking(t)
         /\ op[t].choice.work # None => InCallback(t)
<1> DEFINE s == op[t].todo
<1>1. /\ Len(s) \in Nat /\ DOMAIN s = 1 .. Len(s)
      /\ s # <<>> => 1 \in DOMAIN s /\ Head(s) = s[1]
  BY OpTypes, IInvParts
<1>2. CASE Making(t)
  <2>1. s # <<>> => Head(s).do = "make"
    BY <1>1, <1>2 DEF Making
  <2>2. op[t].choice.work = None
    BY <1>2 DEF Making, NoChoice
  <2> QED BY <1>2, <2>1, <2>2
<1>3. CASE Connecting(t)
  <2>1. s # <<>> => Head(s).do = "connect"
    BY <1>1, <1>3 DEF Connecting
  <2>2. op[t].choice.work = None
    BY <1>3 DEF Connecting, NoChoice
  <2> QED BY <1>3, <2>1, <2>2
<1>4. ASSUME NEW g \in FlowsOf[t], NEW k \in Nat, Emptying(t, g, k)
      PROVE  /\ k # 0 => Head(s).do = "destroy"
             /\ k = 0 => Head(s).do = "empty"
             /\ op[t].choice.work = None
  <2>1. Len(s) \in {k + 1, k + 2} /\ (\A i \in 1 .. k : s[i].do = "destroy") /\ s[k + 1].do = "empty"
        /\ op[t] = [NoOp EXCEPT !.todo = op[t].todo]
    BY <1>4 DEF Emptying
  <2>2. s # <<>>
    BY <1>1, <2>1
  <2>5. op[t].choice = NoChoice
    BY <2>1 DEF NoOp
  <2>3. op[t].choice.work = None
    BY <2>5 DEF NoChoice
  <2>4. k # 0 => 1 \in 1 .. k
    OBVIOUS
  <2> QED BY <1>1, <2>1, <2>2, <2>3, <2>4
<1>5. CASE Taking(t)
  <2>1. s[1].do = "take" /\ op[t] = [NoOp EXCEPT !.todo = op[t].todo]
    BY <1>5 DEF Taking
  <2>2. op[t].choice.work = None
    BY <2>1 DEF NoOp, NoChoice
  <2> QED BY <1>1, <1>5, <2>1, <2>2
<1>6. CASE InCallback(t)
  <2>1. op[t] = [NoOp EXCEPT !.choice = op[t].choice]
    BY <1>6 DEF InCallback
  <2>2. s = <<>>
    BY <2>1 DEF NoOp
  <2> QED BY <1>6, <2>2
<1>7. ThreadOK(t)
  BY IInvParts
<1>8. CASE \E g \in FlowsOf[t], k \in Nat : Emptying(t, g, k)
  <2>1. PICK g \in FlowsOf[t], k \in Nat : Emptying(t, g, k)
    BY <1>8
  <2>2. /\ k # 0 => Head(s).do = "destroy"
        /\ k = 0 => Head(s).do = "empty"
        /\ op[t].choice.work = None
    BY <1>4, <2>1
  <2> QED BY <2>1, <2>2
<1> QED BY <1>2, <1>3, <1>5, <1>6, <1>7, <1>8 DEF ThreadOK

-----------------------------------------------------------------------------
(* What a thread cannot touch.                                             *)

\* A step of t that changes, among the Works, at most those in X, which are its
\* own or new.
Framed(t, X) ==
  /\ \A u \in Threads \ {t} : op'[u] = op[u] /\ call'[u] = call[u]
  /\ \A g \in Flows \ FlowsOf[t] : flow'[g] = flow[g]
  /\ \A b \in Blocks \ X : /\ work'[b] = work[b]
                           /\ b \in live' <=> b \in live
                           /\ b \in jumped' <=> b \in jumped
  /\ \A b \in X : work[b].graph \in FlowsOf[t] \cup {Nothing}
  /\ \A g : Empties(t, g)' => g \in FlowsOf[t]

\* Edges depend on the Works they are between.
LEMMA EdgesAgree ==
  ASSUME NEW W, NEW f, NEW h, \A b \in W : h[b] = f[b]
  PROVE  /\ Edges(h, W) = Edges(f, W)
         /\ \A E : Drawn(f, W, E) /\ h \in [Blocks -> WorkRecords] => Drawn(h, W, E)
<1>1. Edges(h, W) = Edges(f, W)
  <2>1. \A e \in W \X W : h[e[1]] = f[e[1]]
    OBVIOUS
  <2> QED BY <2>1 DEF Edges
<1> QED BY <1>1 DEF Drawn

\* So does what a search knows.
LEMMA SearchKept ==
  ASSUME NEW W, NEW f, NEW h, \A b \in W : h[b] = f[b],
         NEW u, NEW v, NEW s, SearchFacts(f, W, u, v, s)
  PROVE  SearchFacts(h, W, u, v, s)
<1>1. Edges(h, W) = Edges(f, W)
  BY EdgesAgree
<1>2. {w \in W : ~IsJump(h[w])} = {w \in W : ~IsJump(f[w])}
  OBVIOUS
<1> QED BY <1>1, <1>2 DEF SearchFacts

\* Whether a flow is being emptied is its thread's affair.
LEMMA DyingNext ==
  ASSUME IInv, NEW t \in Threads, NEW X, Framed(t, X), NEW g \in Flows
  PROVE  /\ g \in FlowsOf[t] => (g \in Dying' <=> Empties(t, g)')
         /\ g \notin FlowsOf[t] => (g \in Dying' <=> g \in Dying)
<1>1. \A u \in Threads \ {t} : op'[u] = op[u]
  BY DEF Framed
<1>2. \A u \in Threads \ {t} : Empties(u, g)' <=> Empties(u, g)
  BY <1>1 DEF Empties
<1>3. \A u \in Threads : Empties(u, g) => g \in FlowsOf[u]
  BY IInvParts, OwnParts
<1>4. Empties(t, g)' => g \in FlowsOf[t]
  BY DEF Framed
<1>5. g \in Dying' <=> \E u \in Threads : Empties(u, g)'
  BY DEF Dying, Empties
<1>6. g \in Dying <=> \E u \in Threads : Empties(u, g)
  BY DEF Dying, Empties
<1>7. ASSUME g \in FlowsOf[t]
      PROVE  g \in Dying' <=> Empties(t, g)'
  <2>1. \A u \in Threads \ {t} : ~Empties(u, g)
    BY <1>3, <1>7, FlowsApart
  <2> QED BY <1>2, <1>5, <2>1
<1>8. ASSUME g \notin FlowsOf[t]
      PROVE  g \in Dying' <=> g \in Dying
  <2>1. ~Empties(t, g)' /\ ~Empties(t, g)
    BY <1>3, <1>4, <1>8
  <2> QED BY <1>2, <1>5, <1>6, <2>1
<1> QED BY <1>7, <1>8

\* The Works of another thread stay as they are.
LEMMA OthersUntouched ==
  ASSUME IInv, NEW t \in Threads, NEW X, Framed(t, X), NEW b \in Blocks,
         work[b].graph \in Flows \ FlowsOf[t]
  PROVE  /\ work'[b] = work[b]
         /\ b \in live' <=> b \in live
         /\ b \in jumped' <=> b \in jumped
<1>1. b \notin X
  BY FlowsApart DEF Framed
<1> QED BY <1>1 DEF Framed

\* Another thread stands where it stood.
LEMMA OtherThreads ==
  ASSUME IInv, NEW t \in Threads, NEW X, Framed(t, X), NEW u \in Threads \ {t}
  PROVE  ThreadOK(u)'
<1>1. op'[u] = op[u] /\ call'[u] = call[u]
  BY DEF Framed
<1>2. ASSUME NEW g \in FlowsOf[u]
      PROVE  g \in Flows \ FlowsOf[t] /\ flow'[g] = flow[g] /\ WorksIn(g)' = WorksIn(g)
  <2>1. g \in Flows \ FlowsOf[t]
    BY FlowsApart
  <2>2. flow'[g] = flow[g]
    BY <2>1 DEF Framed
  <2> QED BY <2>1, <2>2 DEF WorksIn
<1>3. ASSUME NEW b \in Blocks, work[b].graph \in FlowsOf[u]
      PROVE  work'[b] = work[b] /\ (b \in live' <=> b \in live)
  BY <1>2, <1>3, OthersUntouched
<1>4. WorksOf(u)' = WorksOf(u)
  BY <1>2 DEF WorksOf, WorksIn
<1>5. ASSUME \A g : ~Empties(u, g), NEW w \in WorksOf(u)
      PROVE  /\ w \in Blocks /\ work[w].graph \in FlowsOf[u] /\ w \in WorksIn(work[w].graph)
             /\ \A x \in WorksIn(work[w].graph) : work'[x] = work[x]
  <2>1. PICK g \in FlowsOf[u] : w \in WorksIn(g)
    BY DEF WorksOf, WorksIn
  <2>2. g \in Flows \ Dying
    BY <1>2, <1>5, DyingIs
  <2>3. \A x \in WorksIn(g) : x \in Blocks /\ work[x].graph = g
    BY <2>2, FlowWorks
  <2>4. \A x \in WorksIn(g) : work'[x] = work[x]
    BY <1>3, <2>3
  <2> QED BY <2>1, <2>3, <2>4
<1> DEFINE s == op[u].todo
<1>6. /\ Len(s) \in Nat /\ DOMAIN s = 1 .. Len(s) /\ op[u].made \in Blocks \cup {None}
      /\ \A i \in DOMAIN s : s[i] \in Parts
      /\ s # <<>> => 1 \in DOMAIN s /\ Head(s) = s[1]
  BY OpTypes, IInvParts
<1>7. ThreadOK(u)
  BY IInvParts
<1>8. CASE Making(u)
  <2>1. \A i \in DOMAIN s : s[i].do = "make" /\ s[i].flow \in FlowsOf[u]
    BY <1>8 DEF Making
  <2>2. ASSUME op[u].made # None
        PROVE  /\ s # <<>> /\ op[u].made \in live'
               /\ work'[op[u].made] = Created(Head(s).flow, Head(s).kind)
               /\ op[u].made \notin Range(flow'[Head(s).flow])
    <3>1. /\ s # <<>> /\ op[u].made \in live
          /\ work[op[u].made] = Created(Head(s).flow, Head(s).kind)
          /\ op[u].made \notin WorksIn(Head(s).flow)
      BY <1>8, <2>2 DEF Making
    <3>2. work[op[u].made].graph = Head(s).flow
      BY <3>1 DEF Created, NoWork
    <3>3. Head(s).flow \in FlowsOf[u]
      BY <1>6, <2>1, <3>1
    <3> DEFINE b == op[u].made
    <3>5. b \in Blocks /\ work[b].graph \in FlowsOf[u]
      BY <1>6, <2>2, <3>2, <3>3
    <3> HIDE DEF b
    <3>6. work'[b] = work[b] /\ (b \in live' <=> b \in live)
      BY <1>3, <3>5
    <3>4. work'[op[u].made] = work[op[u].made] /\ (op[u].made \in live' <=> op[u].made \in live)
      BY <3>6 DEF b
    <3> QED BY <1>2, <3>1, <3>3, <3>4 DEF WorksIn
  <2>3. Making(u)'
    BY <1>1, <1>8, <2>2 DEF Making, WorksIn
  <2> QED BY <1>1, <1>7, <2>3 DEF ThreadOK
<1>9. CASE Connecting(u)
  <2>1. \A i \in DOMAIN s : s[i].do = "connect" /\ s[i].from \in WorksOf(u) /\ s[i].to \in WorksOf(u)
    BY <1>9 DEF Connecting
  <2>2. \A g : ~Empties(u, g)
    BY <2>1 DEF Empties
  <2>3. ASSUME op[u].search # NoSearch
        PROVE  /\ s # <<>>
               /\ SearchFacts(work', Range(flow'[work'[Head(s).from].graph]), Head(s).from,
                              Head(s).to, op[u].search)
    <3> DEFINE a == Head(s).from
               b == Head(s).to
               g == work[a].graph
    <3>1. s # <<>> /\ SearchFacts(work, WorksIn(g), a, b, op[u].search)
      BY <1>9, <2>3 DEF Connecting
    <3>2. a \in WorksOf(u)
      BY <1>6, <2>1, <3>1
    <3>3. g \in FlowsOf[u] /\ a \in WorksIn(g) /\ \A x \in WorksIn(g) : work'[x] = work[x]
      BY <1>5, <2>2, <3>2
    <3>4. work'[a].graph = g
      BY <3>3
    <3>5. SearchFacts(work', WorksIn(g), a, b, op[u].search)
      BY <3>1, <3>3, SearchKept
    <3> QED BY <1>2, <3>1, <3>3, <3>4, <3>5 DEF WorksIn
  <2>4. Connecting(u)'
    BY <1>1, <1>4, <1>9, <2>3 DEF Connecting, WorksIn
  <2> QED BY <1>1, <1>7, <2>4 DEF ThreadOK
<1>10. ASSUME NEW g \in FlowsOf[u], NEW k \in Nat, Emptying(u, g, k)
       PROVE  Emptying(u, g, k)'
  <2>1. \A i \in 1 .. k : i \in DOMAIN s
    BY <1>6, <1>10 DEF Emptying
  <2>2. \A i \in 1 .. k : s[i].do = "destroy" /\ s[i].work \in live /\ work[s[i].work].graph = g
    BY <1>10 DEF Emptying
  <2>3. \A i \in 1 .. k : s[i].work \in Blocks
    BY <1>6, <2>1, <2>2, PartFields
  <2>4. \A i \in 1 .. k : s[i].work \in live' /\ work'[s[i].work].graph = g
    BY <1>3, <2>2, <2>3
  <2> QED BY <1>1, <1>10, <2>4 DEF Emptying
<1>11. CASE \E g \in FlowsOf[u], k \in Nat : Emptying(u, g, k)
  <2>1. \E g \in FlowsOf[u], k \in Nat : Emptying(u, g, k)'
    BY <1>10, <1>11
  <2> QED BY <1>1, <1>7, <2>1 DEF ThreadOK
<1>12. CASE Taking(u)
  <2>1. Taking(u)'
    BY <1>1, <1>2, <1>12 DEF Taking
  <2> QED BY <1>1, <1>7, <2>1 DEF ThreadOK
<1>13. CASE InCallback(u)
  <2>1. op[u] = [NoOp EXCEPT !.choice = op[u].choice] /\ op[u].choice.work \in WorksOf(u)
    BY <1>13 DEF InCallback
  <2>2. s = <<>>
    BY <2>1 DEF NoOp
  <2>3. \A g : ~Empties(u, g)
    BY <2>2 DEF Empties
  <2>4. work'[op[u].choice.work] = work[op[u].choice.work]
    BY <1>5, <2>1, <2>3
  <2>5. InCallback(u)'
    BY <1>1, <1>4, <1>13, <2>4 DEF InCallback, Chooser, ChoosesOne
  <2> QED BY <1>1, <1>7, <2>5 DEF ThreadOK
<1> QED BY <1>7, <1>8, <1>9, <1>11, <1>12, <1>13 DEF ThreadOK

\* Flows of other threads stay sound,
LEMMA OtherFlows ==
  ASSUME IInv, NEW t \in Threads, NEW X, Framed(t, X), BuildingTyped',
         NEW g \in Flows \ FlowsOf[t]
  PROVE  FlowOK(g)'
<1>1. g \in Dying' <=> g \in Dying
  BY DyingNext
<1>2. flow'[g] = flow[g]
  BY DEF Framed
<1>3. ASSUME g \notin Dying'
      PROVE  /\ IsInjective(flow'[g])
             /\ \A w \in Range(flow'[g]) : work'[w].graph = g
             /\ Drawn(work', Range(flow'[g]), Edges(work', Range(flow'[g])))
             /\ Acyclic(Edges(work', Range(flow'[g])), Range(flow'[g]) \ jumped')
  <2> DEFINE W == WorksIn(g)
  <2>1. Range(flow'[g]) = W
    BY <1>2 DEF WorksIn
  <2>2. /\ IsInjective(flow[g]) /\ Drawn(work, W, EdgesIn(g)) /\ Acyclic(EdgesIn(g), W \ jumped)
        /\ \A w \in W : w \in Blocks /\ work[w].graph = g
    BY <1>1, <1>3, FlowWorks
  <2>3. \A w \in W : work'[w] = work[w] /\ (w \in jumped' <=> w \in jumped)
    BY <2>2, OthersUntouched
  <2>4. EdgesIn(g) = Edges(work, W)
    BY DEF EdgesIn
  <2>5. work' \in [Blocks -> WorkRecords]
    BY DEF BuildingTyped
  <2> HIDE DEF W
  <2>6. Edges(work', W) = Edges(work, W) /\ Drawn(work', W, EdgesIn(g))
    BY <2>2, <2>3, <2>5, EdgesAgree
  <2>7. W \ jumped' = W \ jumped
    BY <2>3
  <2> QED BY <1>2, <2>1, <2>2, <2>3, <2>4, <2>6, <2>7
<1> QED BY <1>3 DEF FlowOK, WorksIn, EdgesIn

\* and so do blocks.
LEMMA OtherBlocks ==
  ASSUME IInv, NEW t \in Threads, NEW X, Framed(t, X),
         NEW b \in Blocks \ X, work[b].graph \notin FlowsOf[t]
  PROVE  BlockOK(b)'
<1>1. work'[b] = work[b] /\ (b \in live' <=> b \in live) /\ (b \in jumped' <=> b \in jumped)
  BY DEF Framed
<1>2. BlockOK(b)
  BY IInvParts
<1>3. ASSUME b \in live
      PROVE  work[b].graph \in Flows /\ Owned(b)'
  <2> DEFINE g == work[b].graph
  <2>1. g \in Flows /\ Owned(b)
    BY <1>2, <1>3 DEF BlockOK
  <2>2. CASE g \notin Dying /\ b \in WorksIn(g)
    <3>1. g \notin Dying'
      BY <2>1, <2>2, DyingNext
    <3>2. flow'[g] = flow[g]
      BY <2>1 DEF Framed
    <3> QED BY <1>1, <2>1, <2>2, <3>1, <3>2 DEF Owned, WorksIn
  <2>3. ASSUME NEW u \in Threads, op[u].made = b \/ Dooms(u, b)
        PROVE  Owned(b)'
    <3>1. op[u].made = b => op[u].made # None
      BY PoolAssumption
    <3>2. g \in FlowsOf[u]
      BY <2>3, <3>1, IInvParts, OwnParts
    <3>3. u # t
      BY <3>2
    <3>4. op'[u] = op[u]
      BY <3>3 DEF Framed
    <3>5. op'[u].made = b \/ Dooms(u, b)'
      BY <2>3, <3>4 DEF Dooms
    <3> QED BY <3>5 DEF Owned
  <2> QED BY <2>1, <2>2, <2>3 DEF Owned
<1> QED BY <1>1, <1>2, <1>3 DEF BlockOK

\* So a step of t keeps the invariant if its own flows, its own Works and its
\* call are sound afterwards.
LEMMA StepKeeps ==
  ASSUME IInv, NEW t \in Threads, NEW X, Framed(t, X), PoolIInv', BuildingTyped', ThreadOK(t)',
         \A g \in FlowsOf[t] : FlowOK(g)',
         \A b \in Blocks : b \in X \/ work[b].graph \in FlowsOf[t] => BlockOK(b)'
  PROVE  IInv'
<1>1. \A u \in Threads : ThreadOK(u)'
  BY OtherThreads
<1>2. \A g \in Flows : FlowOK(g)'
  BY OtherFlows
<1>3. \A b \in Blocks : BlockOK(b)'
  BY OtherBlocks
<1> QED BY <1>1, <1>2, <1>3 DEF IInv

\* A step that only edits Works of t, those in X.
LEMMA EditKeeps ==
  ASSUME IInv, NEW t \in Threads, NEW X, PoolIInv', BuildingTyped', ThreadOK(t)',
         UNCHANGED <<flow, live>>,
         \A u \in Threads \ {t} : op'[u] = op[u] /\ call'[u] = call[u],
         op'[t].made = op[t].made,
         \A g : Empties(t, g)' <=> Empties(t, g),
         \A b : Dooms(t, b)' <=> Dooms(t, b),
         \A b \in Blocks \ X : work'[b] = work[b] /\ (b \in jumped' <=> b \in jumped),
         \A b \in X : /\ b \in live /\ work[b].graph \in FlowsOf[t]
                      /\ work'[b].graph = work[b].graph
                      /\ work'[b].nsucc \in 0 .. Len(work'[b].edges)
                      /\ Ordered(work'[b].acquires) /\ Distinct(work'[b].releases)
                      /\ IsJump(work'[b]) => b \in jumped',
         \A g \in FlowsOf[t] \ Dying :
           /\ Drawn(work', WorksIn(g), Edges(work', WorksIn(g)))
           /\ Acyclic(Edges(work', WorksIn(g)), WorksIn(g) \ jumped')
  PROVE  IInv'
<1>1. \A g : Empties(t, g) => g \in FlowsOf[t]
  BY IInvParts, OwnParts
<1>2. Framed(t, X)
  BY <1>1 DEF Framed
<1>3. \A g \in Flows : g \in Dying' <=> g \in Dying
  BY <1>2, DyingIs, DyingNext
<1>4. ASSUME NEW b \in Blocks, b \in live
      PROVE  work'[b].graph \in Flows /\ Owned(b)'
  <2>1. work'[b].graph = work[b].graph
    OBVIOUS
  <2>2. work[b].graph \in Flows /\ Owned(b)
    BY <1>4, IInvParts DEF BlockOK
  <2>3. \A u \in Threads : op'[u].made = op[u].made /\ (Dooms(u, b)' <=> Dooms(u, b))
    <3>1. \A u \in Threads \ {t} : op'[u] = op[u]
      OBVIOUS
    <3> QED BY <3>1 DEF Dooms
  <2> QED BY <1>3, <2>1, <2>2, <2>3 DEF Owned, WorksIn
<1>5. ASSUME NEW b \in Blocks
      PROVE  BlockOK(b)'
  <2>1. BlockOK(b)
    BY IInvParts
  <2>2. CASE b \in X
    BY <1>4, <2>2 DEF BlockOK
  <2>3. CASE b \notin X
    BY <1>4, <2>1, <2>3 DEF BlockOK
  <2> QED BY <2>2, <2>3
<1>6. ASSUME NEW g \in FlowsOf[t]
      PROVE  FlowOK(g)'
  <2>1. g \in Flows
    BY FlowsApart
  <2>2. ASSUME g \notin Dying
        PROVE  /\ IsInjective(flow[g])
               /\ \A w \in WorksIn(g) : work'[w].graph = g
    <3>1. IsInjective(flow[g]) /\ \A w \in WorksIn(g) : w \in Blocks /\ work[w].graph = g
      BY <2>1, <2>2, FlowWorks
    <3> QED BY <3>1
  <2> QED BY <1>3, <2>1, <2>2 DEF FlowOK, WorksIn, EdgesIn
<1> QED BY <1>2, <1>5, <1>6, StepKeeps

\* A step that leaves the graphs alone.
LEMMA QuietKeeps ==
  ASSUME IInv, NEW t \in Threads, PoolIInv', BuildingTyped', ThreadOK(t)',
         UNCHANGED <<flow, work, live, jumped>>,
         \A u \in Threads \ {t} : op'[u] = op[u] /\ call'[u] = call[u],
         op'[t].made = op[t].made,
         \A g : Empties(t, g)' <=> Empties(t, g),
         \A b : Dooms(t, b)' <=> Dooms(t, b)
  PROVE  IInv'
<1>1. ASSUME NEW g \in FlowsOf[t] \ Dying
      PROVE  /\ Drawn(work', WorksIn(g), Edges(work', WorksIn(g)))
             /\ Acyclic(Edges(work', WorksIn(g)), WorksIn(g) \ jumped')
  <2>1. g \in Flows \ Dying
    BY FlowsApart
  <2> QED BY <2>1, FlowWorks DEF EdgesIn
<1> DEFINE X == {}
<1>2. \A b \in X : FALSE
  OBVIOUS
<1> HIDE DEF X
<1> QED BY <1>1, <1>2, EditKeeps

-----------------------------------------------------------------------------
(* Every step is one of the pool, or leaves the pool alone.                *)

\* What begins a call of a client is a step of the pool, or leaves it alone,
LEMMA EditsUsePool ==
  ASSUME IInv, NEW t \in Threads, Edit(t)
  PROVE  [PoolNext]_poolVars
<1>1. ASSUME Erase(t)
      PROVE  PoolNext
  <2>1. PICK g \in FlowsOf[t] : \E w \in Range(flow[g]) : Destroy(t, w)
    BY <1>1 DEF Erase
  <2>2. PICK w \in Range(flow[g]) : Destroy(t, w)
    BY <2>1
  <2>3. w \in Blocks
    BY <2>2, IInvParts DEF Destroy, PoolIInv, PoolTyped
  <2> QED BY <2>2, <2>3 DEF PoolNext
<1>2. ASSUME \/ Emplace(t) \/ EmplaceObject(t) \/ Clear(t) \/ Move(t)
             \/ Precede(t) \/ Succeed(t) \/ Linearize(t)
      PROVE  UNCHANGED poolVars
  BY <1>2 DEF Emplace, EmplaceObject, Clear, Move, Precede, Succeed, Linearize, Does
<1>3. ASSUME Disconnect(t) \/ DropPredecessors(t) \/ DropSuccessors(t)
      PROVE  UNCHANGED poolVars
  BY <1>3 DEF Disconnect, DropPredecessors, DropSuccessors, Edits
<1>4. ASSUME Replace(t) \/ ReplaceObject(t) \/ ReplaceThrows(t)
      PROVE  UNCHANGED poolVars
  BY <1>4 DEF Replace, ReplaceObject, ReplaceThrows, Becomes
<1>5. ASSUME AddAcquire(t) \/ AddRelease(t) \/ DropAcquire(t) \/ DropRelease(t) \/ DropRequests(t)
      PROVE  UNCHANGED poolVars
  BY <1>5 DEF AddAcquire, AddRelease, DropAcquire, DropRelease, DropRequests, Edits
<1>6. ASSUME Callback(t)
      PROVE  UNCHANGED poolVars
  BY <1>6 DEF Callback
<1> QED BY <1>1, <1>2, <1>3, <1>4, <1>5, <1>6 DEF Edit

\* and so is what goes on with one.
LEMMA ProceedsUsePool ==
  ASSUME IInv, NEW t \in Threads, Proceed(t)
  PROVE  [PoolNext]_poolVars
<1>1. ASSUME MakeWork(t) \/ ConstructWork(t) \/ CopyThrows(t) \/ CreateThrows(t) \/ PoolStep(t)
      PROVE  PoolNext
  BY <1>1 DEF MakeWork, ConstructWork, CopyThrows, CreateThrows, PoolNext
<1>2. ASSUME AdoptThrows(t) \/ DestroyWork(t)
      PROVE  PoolNext
  <2>1. PICK w : Destroy(t, w)
    BY <1>2 DEF AdoptThrows, DestroyWork
  <2>2. w \in Blocks
    BY <2>1, IInvParts DEF Destroy, PoolIInv, PoolTyped
  <2> QED BY <2>1, <2>2 DEF PoolNext
<1>3. ASSUME \/ Adopt(t) \/ Forget(t) \/ TakeOver(t)
             \/ Check(t) \/ Search(t) \/ RefuseCycle(t) \/ Connect(t) \/ ConnectThrows(t)
             \/ CallbackReturns(t)
      PROVE  UNCHANGED poolVars
  BY <1>3 DEF Adopt, Forget, TakeOver, Check, Search, RefuseCycle, Connect, ConnectThrows,
              CallbackReturns
<1>4. ASSUME BranchCall(t) \/ JumpCall(t) \/ MultiBranchCall(t) \/ MultiJumpCall(t)
      PROVE  UNCHANGED poolVars
  BY <1>4 DEF BranchCall, JumpCall, MultiBranchCall, MultiJumpCall, Chooses
<1> QED BY <1>1, <1>2, <1>3, <1>4 DEF Proceed

\* So the pool stays sound.
LEMMA PoolKept == IInv /\ [Next]_vars => PoolIInv'
<1> SUFFICES ASSUME IInv, [Next]_vars PROVE PoolIInv'
  OBVIOUS
<1>1. CASE UNCHANGED vars
  <2>1. UNCHANGED poolVars
    BY <1>1 DEF vars
  <2> QED BY <2>1, IInvParts, PoolNextIInv
<1>2. ASSUME NEW t \in Threads, Edit(t) \/ Proceed(t)
      PROVE  PoolIInv'
  BY <1>2, EditsUsePool, ProceedsUsePool, IInvParts, PoolNextIInv
<1>3. ASSUME NEW t \in Threads, UseVectors(t)
      PROVE  PoolIInv'
  <2>1. UNCHANGED poolVars
    BY <1>3 DEF UseVectors
  <2> QED BY <2>1, IInvParts, PoolNextIInv
<1> QED BY <1>1, <1>2, <1>3 DEF Next

\* A call of the pool that is to return a block goes on until it returns one.
LEMMA CreatingGoesOn ==
  ASSUME PoolIInv, NEW t \in Threads, PoolStep(t)
  PROVE  /\ Creating(call'[t]) => Creating(call[t])
         /\ \A u \in Threads \ {t} : call'[u] = call[u]
         /\ live' = live
<1> DEFINE c == call[t]
<1>1. call \in [Threads -> CallRecords] /\ Fits(c)
  BY DEF PoolIInv, PoolTyped
<1>2. c \in CallRecords
  BY <1>1
<1>3. live' = live
  BY DEF PoolStep, Load, ReadLink, Take, TakeIf, LockBucket, NewSlab, PushChain, Publish
<1>4. \A u \in Threads \ {t} : call'[u] = call[u]
  <2>1. \E d : call' = [call EXCEPT ![t] = d]
    <3>1. CASE Load(t) \/ ReadLink(t) \/ LockBucket(t)
      BY <1>1, <3>1 DEF Load, ReadLink, LockBucket
    <3>2. CASE Take(t)
      BY <3>2 DEF Take, TakeIf
    <3>3. CASE NewSlab(t)
      BY <3>3 DEF NewSlab
    <3>4. CASE PushChain(t) \/ Publish(t)
      BY <1>1, <3>4 DEF PushChain, Publish, Link
    <3> QED BY <3>1, <3>2, <3>3, <3>4 DEF PoolStep
  <2> QED BY <1>1, <2>1
<1>5. Creating(call'[t]) => Creating(call[t])
  <2>1. CASE c.pc \in Popping
    BY <2>1 DEF Creating
  <2>2. CASE c.pc \notin Popping
    <3>1. PushChain(t) \/ Publish(t)
      BY <2>2 DEF PoolStep, Load, ReadLink, Take, TakeIf, LockBucket, NewSlab, Popping
    <3>2. c.pc \in Pushing
      BY <3>1 DEF PushChain, Publish, Pushing
    <3>3. CASE c.block # None
      BY <3>2, <3>3 DEF Creating
    <3>4. CASE c.block = None
      <4>1. ASSUME NEW h, Link(t, h)
            PROVE  ~Creating(call'[t])
        <5>1. call' = [call EXCEPT ![t] = [c EXCEPT !.pc = "publish", !.seen = h]]
          BY <1>1, <4>1 DEF Link
        <5>2. call'[t].pc = "publish" /\ call'[t].block = None
          BY <1>1, <1>2, <3>4, <5>1 DEF CallRecords
        <5> QED BY <5>2 DEF Creating, Popping
      <4>2. ASSUME call'[t] = Idle
            PROVE  ~Creating(call'[t])
        BY <4>2 DEF Idle, Creating, Popping, Pushing
      <4>3. CASE PushChain(t)
        BY <4>1, <4>3 DEF PushChain
      <4>4. CASE Publish(t)
        BY <1>1, <3>4, <4>1, <4>2, <4>4 DEF Publish
      <4> QED BY <3>1, <4>3, <4>4
    <3> QED BY <3>3, <3>4
  <2> QED BY <2>1, <2>2
<1> QED BY <1>3, <1>4, <1>5
=============================================================================
