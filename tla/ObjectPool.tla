----------------------------- MODULE ObjectPool ------------------------------
(***************************************************************************)
(* The pool that Works are created in and destroyed to                     *)
(* (src/taskflowlite/core/object_pool.hpp): per bucket a lock-free stack   *)
(* of free blocks, refilled under a mutex with a slab of new ones.         *)
(*                                                                         *)
(* The top of a stack carries a tag that every exchange raises, so that a  *)
(* thread that read the top long ago does not take it for the one of now.  *)
(* The tag is a natural number: a TaggedHead64, whose 16 bits wrap, needs  *)
(* 65,536 exchanges between a read and its exchange to be fooled.          *)
(*                                                                         *)
(* One action per access of a head or of a link that another thread may    *)
(* still read.  A thread that pushes reads the head and writes its own     *)
(* last link in one: whoever still reads that link fails its exchange.     *)
(* A weak exchange that fails for no reason reads the same head again.     *)
(*                                                                         *)
(* free is a history variable: the stacks as sequences.  No guard and no   *)
(* other variable depends on it.                                           *)
(***************************************************************************)
EXTENDS Integers, Sequences, SequencesExt

CONSTANTS
  Threads,
  Buckets,
  Slabs,      \* the slabs a bucket can have, in order: sequences of blocks
  None

Blocks == UNION {UNION {Range(Slabs[k][i]) : i \in DOMAIN Slabs[k]} : k \in Buckets}

\* One slab or more per bucket, one block or more per slab, and no block twice.
ASSUME PoolAssumption ==
  /\ \A k \in Buckets :
       /\ Slabs[k] \in Seq(Seq(Blocks)) \ {<<>>}
       /\ \A i \in DOMAIN Slabs[k] : Slabs[k][i] # <<>>
  /\ \A k, l \in Buckets : \A i \in DOMAIN Slabs[k], j \in DOMAIN Slabs[l] :
       \A m \in DOMAIN Slabs[k][i], n \in DOMAIN Slabs[l][j] :
         Slabs[k][i][m] = Slabs[l][j][n] => k = l /\ i = j /\ m = n
  /\ None \notin Blocks \cup Threads

VARIABLES
  head,     \* [top, tag] of each bucket
  next,     \* next_free of each block
  slabs,    \* how many slabs each bucket has
  mutex,    \* who refills a bucket
  call,     \* what each thread does in the pool
  live,     \* the blocks that hold an object
  free      \* history: the stack of each bucket, top first

poolVars == <<head, next, slabs, mutex, call, live, free>>

\* A block goes back to the bucket whose slab it is in (free_stack).
Home(b) ==
  CHOOSE k \in Buckets : \E i \in DOMAIN Slabs[k] : b \in Range(Slabs[k][i])

\* The first block of a chain, None for an empty one.
Top(chain) == IF chain = <<>> THEN None ELSE Head(chain)

\* The links of a new slab: each block to the next, the last to none.
Linked(slab) ==
  [b \in Range(slab) |->
     LET i == CHOOSE j \in DOMAIN slab : slab[j] = b
     IN  IF i < Len(slab) THEN slab[i + 1] ELSE None]

\* The blocks in use when a run begins: the first taken[k] of the first slab.
Taken(taken) == UNION {Range(SubSeq(Slabs[k][1], 1, taken[k])) : k \in Buckets}

NoHead == [top |-> None, tag |-> 0]

Idle == [pc |-> "idle", bucket |-> None, locked |-> FALSE, seen |-> NoHead,
         link |-> None, block |-> None, chain |-> <<>>]

\* Every bucket starts with one slab.
PoolInit(taken) ==
  /\ free = [k \in Buckets |-> SubSeq(Slabs[k][1], taken[k] + 1, Len(Slabs[k][1]))]
  /\ head = [k \in Buckets |-> [top |-> Top(free[k]), tag |-> taken[k]]]
  /\ next = [b \in Blocks |-> IF b \in Range(Slabs[Home(b)][1])
                              THEN Linked(Slabs[Home(b)][1])[b] ELSE None]
  /\ slabs = [k \in Buckets |-> 1]
  /\ mutex = [k \in Buckets |-> None]
  /\ call = [t \in Threads |-> Idle]
  /\ live = Taken(taken)

-----------------------------------------------------------------------------
(* _pop_block and _refill_and_take: a block for a new object.              *)

\* create picks a bucket by a counter of its thread that starts anywhere.
Create(t) ==
  /\ call[t] = Idle
  /\ \E k \in Buckets :
       call' = [call EXCEPT ![t] = [Idle EXCEPT !.pc = "load", !.bucket = k]]
  /\ UNCHANGED <<head, next, slabs, mutex, live, free>>

\* What a popping thread does with a head it has just read.
Seen(c, h) ==
  IF h.top # None
  THEN [c EXCEPT !.pc = "link", !.seen = h]
  ELSE [c EXCEPT !.pc = IF c.locked THEN "slab" ELSE "lock", !.seen = NoHead]

Load(t) ==
  /\ call[t].pc = "load"
  /\ call' = [call EXCEPT ![t] = Seen(@, head[@.bucket])]
  /\ UNCHANGED <<head, next, slabs, mutex, live, free>>

ReadLink(t) ==
  /\ call[t].pc = "link"
  /\ call' = [call EXCEPT ![t].pc = "take", ![t].link = next[call[t].seen.top]]
  /\ UNCHANGED <<head, next, slabs, mutex, live, free>>

\* The guard of _refill_and_take ends with the call.
Unlock(t) ==
  mutex' = [k \in Buckets |-> IF mutex[k] = t THEN None ELSE mutex[k]]

\* The exchange of _pop_block, successful if the head still is what was seen.
TakeIf(t, same(_, _)) ==
  LET c == call[t]  k == c.bucket
  IN  /\ c.pc = "take"
      /\ \/ /\ same(head[k], c.seen)
            /\ head' = [head EXCEPT ![k] = [top |-> c.link, tag |-> c.seen.tag + 1]]
            /\ call' = [call EXCEPT ![t] = [Idle EXCEPT !.pc = "got", !.block = c.seen.top]]
            /\ free' = [free EXCEPT ![k] = IF @ = <<>> THEN @ ELSE Tail(@)]
            /\ Unlock(t)
         \/ /\ ~same(head[k], c.seen)
            /\ call' = [call EXCEPT ![t] = Seen([c EXCEPT !.link = None], head[k])]
            /\ UNCHANGED <<head, free, mutex>>
      /\ UNCHANGED <<next, slabs, live>>

\* Mutant: no tag, the exchange compares the pointer only.
TakeUntagged(t) == TakeIf(t, LAMBDA now, seen : now.top = seen.top)

Take(t) == TakeIf(t, LAMBDA now, seen : now = seen)

\* An empty stack is refilled under the mutex, after another look at it.
LockBucket(t) ==
  /\ call[t].pc = "lock"
  /\ mutex[call[t].bucket] = None
  /\ mutex' = [mutex EXCEPT ![call[t].bucket] = t]
  /\ call' = [call EXCEPT ![t].pc = "load", ![t].locked = TRUE]
  /\ UNCHANGED <<head, next, slabs, live, free>>

\* A new slab: its first block is the caller's, the others are pushed.
NewSlab(t) ==
  LET c == call[t]  k == c.bucket
  IN  /\ c.pc = "slab"
      /\ slabs[k] < Len(Slabs[k])
      /\ slabs' = [slabs EXCEPT ![k] = @ + 1]
      /\ LET slab == Slabs[k][slabs[k] + 1]
         IN  /\ next' = [b \in Blocks |-> IF b \in Range(slab) THEN Linked(slab)[b] ELSE next[b]]
             /\ IF Len(slab) > 1
                THEN /\ call' = [call EXCEPT ![t] =
                           [c EXCEPT !.pc = "push", !.block = slab[1], !.chain = Tail(slab)]]
                     /\ UNCHANGED mutex
                ELSE /\ call' = [call EXCEPT ![t] = [Idle EXCEPT !.pc = "got", !.block = slab[1]]]
                     /\ Unlock(t)
      /\ UNCHANGED <<head, live, free>>

\* Or there is no memory for one, and create throws.
NoMemory(t) ==
  /\ call[t].pc = "slab"
  /\ call' = [call EXCEPT ![t] = Idle]
  /\ Unlock(t)
  /\ UNCHANGED <<head, next, slabs, live, free>>

-----------------------------------------------------------------------------
(* _push_chain: the blocks of a chain become free.                         *)

\* The last link of t's chain points to the head just read.
Link(t, h) ==
  /\ call' = [call EXCEPT ![t].pc = "publish", ![t].seen = h]
  /\ next' = [next EXCEPT ![Last(call[t].chain)] = h.top]

PushChain(t) ==
  /\ call[t].pc = "push"
  /\ Link(t, head[call[t].bucket])
  /\ UNCHANGED <<head, slabs, mutex, live, free>>

Publish(t) ==
  LET c == call[t]  k == c.bucket
  IN  /\ c.pc = "publish"
      /\ \/ /\ head[k] = c.seen
            /\ head' = [head EXCEPT ![k] = [top |-> Head(c.chain), tag |-> c.seen.tag + 1]]
            /\ free' = [free EXCEPT ![k] = c.chain \o @]
            /\ call' = [call EXCEPT ![t] =
                          IF c.block = None THEN Idle
                          ELSE [Idle EXCEPT !.pc = "got", !.block = c.block]]
            /\ Unlock(t)
            /\ UNCHANGED next
         \/ /\ head[k] # c.seen
            /\ Link(t, head[k])
            /\ UNCHANGED <<head, free, mutex>>
      /\ UNCHANGED <<slabs, live>>

\* What _push_block(block) does first.
Recycle(t, b) ==
  call' = [call EXCEPT ![t] =
             [Idle EXCEPT !.pc = "push", !.bucket = Home(b), !.chain = <<b>>]]

-----------------------------------------------------------------------------
(* create and destroy: the object in the block.                            *)

Construct(t) ==
  /\ call[t].pc = "got"
  /\ live' = live \cup {call[t].block}
  /\ call' = [call EXCEPT ![t] = Idle]
  /\ UNCHANGED <<head, next, slabs, mutex, free>>

\* A constructor that throws gives its block back.
ConstructThrows(t) ==
  /\ call[t].pc = "got"
  /\ Recycle(t, call[t].block)
  /\ UNCHANGED <<head, next, slabs, mutex, live, free>>

Destroy(t, b) ==
  /\ call[t] = Idle
  /\ b \in live
  /\ live' = live \ {b}
  /\ Recycle(t, b)
  /\ UNCHANGED <<head, next, slabs, mutex, free>>

PoolStep(t) ==
  \/ Load(t) \/ ReadLink(t) \/ Take(t) \/ LockBucket(t) \/ NewSlab(t)
  \/ PushChain(t) \/ Publish(t)

PoolNext ==
  \E t \in Threads :
    \/ Create(t) \/ PoolStep(t) \/ NoMemory(t) \/ Construct(t) \/ ConstructThrows(t)
    \/ \E b \in Blocks : Destroy(t, b)

PoolSpec == PoolInit([k \in Buckets |-> 0]) /\ [][PoolNext]_poolVars

-----------------------------------------------------------------------------

\* The blocks a thread has in hand, and those no slab holds yet.
Held(t) == Range(call[t].chain) \cup ({call[t].block} \ {None})
Raw(k) == UNION {Range(Slabs[k][i]) : i \in slabs[k] + 1 .. Len(Slabs[k])}

\* The links from each head on are the stack of the history variable.
FreeIsLinked ==
  \A k \in Buckets :
    /\ head[k].top = Top(free[k])
    /\ \A i \in DOMAIN free[k] :
         next[free[k][i]] = IF i < Len(free[k]) THEN free[k][i + 1] ELSE None

Free(k) == Range(free[k])

\* No two of the places a block can be in share one, and they have all.
Partitioned ==
  /\ \A b \in Blocks :
       \/ b \in live
       \/ \E t \in Threads : b \in Held(t)
       \/ \E k \in Buckets : b \in Free(k) \cup Raw(k)
  /\ \A t \in Threads : Held(t) \cap live = {}
  /\ \A t, u \in Threads : t # u => Held(t) \cap Held(u) = {}
  /\ \A k \in Buckets :
       /\ Free(k) \cap live = {}
       /\ Raw(k) \cap (live \cup Free(k)) = {}
       /\ \A t \in Threads : Held(t) \cap (Free(k) \cup Raw(k)) = {}
       /\ IsInjective(free[k])
       /\ \A b \in Free(k) : Home(b) = k

\* A block is never lost and never has two owners: it holds an object, or is
\* in the hands of one thread, or can be reached once from the head of its own
\* bucket, or is in memory that was not asked for yet.  A thread that took the
\* top for the one it read long ago would hand a Work out twice
\* (object_pool.hpp:514-535).
OneOwner == FreeIsLinked /\ Partitioned
=============================================================================
