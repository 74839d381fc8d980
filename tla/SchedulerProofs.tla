--------------------------- MODULE SchedulerProofs ---------------------------
(***************************************************************************)
(* No lost wake-up, for any number of workers, clients, shared stacks and  *)
(* topologies: a Work is never left in a queue while every worker sleeps.  *)
(* Exact counters: a topology is complete when its last Work is, and the   *)
(* executor shuts down with nothing left to do.                            *)
(*                                                                         *)
(* The two queues that workers take Works from, which the Scheduler has as *)
(* sequences.  The ring buffer is a deque for any number of thieves, any   *)
(* capacity and any delay of the owner's stores: pushes append, pop takes  *)
(* the newest task, steal the oldest, and each task comes out once.  The   *)
(* shared work stack loses and repeats no Work, its LOCKED bit is a lock,  *)
(* and its size never says less than the chains hold, for any numbers of   *)
(* Works, producers and consumers.                                         *)
(***************************************************************************)
EXTENDS Scheduler, BoundedQueue, SharedWorkStack, SequenceFacts, FiniteSetTheorems, TLAPS

-----------------------------------------------------------------------------
(* The inductive invariant.  The recheck of _wait_for_work skips the own   *)
(* queue, so that queue must be empty from pop's failure on (OwnQueue); a  *)
(* notification must reach somebody who is still waiting, so a waiter has  *)
(* one ticket or one place among the sleepers (OneTicket), and a thread    *)
(* that publishes has a notification to give (QuotaLeft); workers exit     *)
(* only when told to (ExitOnlyTold).                                       *)

Looking == {"explore", "scan", "commit", "cancel", "cancelExit", "asleep", "exit"}

States == {"idle", "run", "push", "notify", "complete", "wakeMain", "pop"} \cup Looking

Types ==
  /\ queue \in [Queues -> Seq(Topologies \cup {Nil})]
  /\ tickets \in Seq(Workers) /\ sleepers \in Seq(Workers)
  /\ pc \in [Threads -> States]
  /\ job \in [Workers -> Topologies \cup {Nil}]
  /\ out \in [Threads -> [topology : Topologies \cup {Nil}, left : Int]]
  /\ quota \in [Threads -> Int]
  /\ unscanned \in [Workers -> SUBSET Queues]
  /\ terminate \in [Workers -> BOOLEAN]

OneTicket ==
  /\ IsInjective(tickets) /\ IsInjective(sleepers)
  /\ Range(tickets) \cap Range(sleepers) = {}

OwnQueue == \A w \in Workers : pc[w] \in Looking => queue[w] = <<>>

QuotaLeft == \A t \in Threads : pc[t] \in {"push", "notify"} => quota[t] >= 1

ExitOnlyTold ==
  /\ \A w \in Workers : pc[w] \in {"exit", "cancelExit"} => terminate[w]
  /\ \A w \in Workers : terminate[w] => main \in {"terminate", "join", "joined"}

IInv ==
  /\ Types
  /\ OneTicket
  /\ OwnQueue
  /\ QuotaLeft
  /\ ExitOnlyTold
  /\ NoLostWakeup

-----------------------------------------------------------------------------
(* The event count.                                                        *)

\* A worker is free when it neither holds a ticket nor sleeps.
LEMMA FreeDef == \A w : EC!Free(w) <=> w \notin Range(tickets) \cup Range(sleepers)
  BY DEF EC!Free, EC!Range, Range

\* The same in the next state.
LEMMA FreeDefNext == \A w : EC!Free(w)' <=> w \notin Range(tickets') \cup Range(sleepers')
  BY DEF EC!Free, EC!Range, Range

\* Drawing a ticket takes freedom from the drawer only.
LEMMA PrepareStep ==
  ASSUME Types, OneTicket, NEW w \in Workers, EC!Prepare(w)
  PROVE  /\ tickets' \in Seq(Workers) /\ sleepers' \in Seq(Workers) /\ OneTicket'
         /\ \A u : u # w /\ EC!Free(u) => EC!Free(u)'
<1> USE DEF OneTicket
<1>1. /\ tickets \in Seq(Workers) /\ sleepers \in Seq(Workers)
      /\ tickets' = Append(tickets, w) /\ sleepers' = sleepers
  BY DEF Types, EC!Prepare
<1>2. w \notin Range(tickets) /\ w \notin Range(sleepers)
  BY FreeDef DEF EC!Prepare
<1>3. /\ tickets' \in Seq(Workers) /\ IsInjective(tickets')
      /\ Range(tickets') = Range(tickets) \cup {w}
  BY <1>1, <1>2, RangeOfAppend
<1> QED BY <1>1, <1>2, <1>3, FreeDef, FreeDefNext

\* Settling the oldest ticket, by sleeping or by leaving, frees nobody but the
\* holder and binds nobody.
LEMMA SettleStep ==
  ASSUME Types, OneTicket, NEW w \in Workers, EC!Cancel(w) \/ EC!Commit(w)
  PROVE  /\ tickets' \in Seq(Workers) /\ sleepers' \in Seq(Workers) /\ OneTicket'
         /\ \A u : EC!Free(u) => EC!Free(u)'
<1> USE DEF Types, OneTicket
<1>1. tickets # <<>> /\ Head(tickets) = w /\ tickets' = Tail(tickets)
  BY DEF EC!Cancel, EC!Commit
<1>2. /\ tickets' \in Seq(Workers) /\ IsInjective(tickets')
      /\ Range(tickets') = Range(tickets) \ {w} /\ w \in Range(tickets)
  BY <1>1, HeadTailProperties, RangeOfTail
<1>3. CASE EC!Cancel(w)
  BY <1>2, <1>3, FreeDef, FreeDefNext DEF EC!Cancel
<1>4. CASE EC!Commit(w)
  <2>1. sleepers' = <<w>> \o sleepers /\ sleepers \in Seq(Workers)
    BY <1>4 DEF EC!Commit, Types
  <2>2. /\ sleepers' \in Seq(Workers) /\ IsInjective(sleepers')
        /\ Range(sleepers') = Range(sleepers) \cup {w}
    BY <1>2, <2>1, RangeOfCons
  <2> QED BY <1>2, <2>2, FreeDef, FreeDefNext
<1> QED BY <1>3, <1>4

\* A notification frees somebody, and binds nobody.
LEMMA ReleaseStep ==
  ASSUME Types, OneTicket, NEW k \in Int, k >= 1,
         EC!ReleaseTickets(k) \/ EC!ReleaseSleeper \/ EC!ReleaseAll
  PROVE  /\ tickets' \in Seq(Workers) /\ sleepers' \in Seq(Workers) /\ OneTicket'
         /\ \A u : EC!Free(u) => EC!Free(u)'
         /\ \E u \in Workers : EC!Free(u)'
<1> USE DEF Types, OneTicket
<1>1. CASE EC!ReleaseTickets(k)
  <2> DEFINE m == IF k < Len(tickets) THEN k ELSE Len(tickets)
  <2>1. /\ tickets # <<>> /\ sleepers' = sleepers
        /\ tickets' = SubSeq(tickets, m + 1, Len(tickets))
    BY <1>1 DEF EC!ReleaseTickets
  <2>2. Len(tickets) \in Nat \ {0} /\ DOMAIN tickets = 1..Len(tickets)
    BY <2>1, EmptySeq, LenProperties
  <2>3. m \in 1..Len(tickets)
    BY <2>2
  <2>4. m \in 0..Len(tickets) /\ 1 \in 1..m
    BY <2>2, <2>3
  <2> HIDE DEF m
  <2>5. /\ tickets' \in Seq(Workers) /\ IsInjective(tickets')
        /\ Range(tickets') \subseteq Range(tickets) /\ tickets[1] \notin Range(tickets')
    <3>1. tickets \in Seq(Workers)
      BY DEF Types
    <3>2. /\ SubSeq(tickets, m + 1, Len(tickets)) \in Seq(Workers)
          /\ Range(SubSeq(tickets, m + 1, Len(tickets))) \subseteq Range(tickets)
          /\ IsInjective(tickets) =>
               /\ IsInjective(SubSeq(tickets, m + 1, Len(tickets)))
               /\ \A i \in 1..m : tickets[i] \notin Range(SubSeq(tickets, m + 1, Len(tickets)))
      BY <2>4, <3>1, RangeOfCut
    <3> QED BY <2>1, <2>4, <3>2
  <2>6. tickets[1] \in Workers /\ tickets[1] \in Range(tickets)
    <3>1. tickets \in Seq(Workers) /\ Head(tickets) = tickets[1]
      BY <2>2 DEF Types
    <3> QED BY <2>1, <3>1, RangeOfTail, HeadTailProperties
  <2>7. tickets[1] \notin Range(tickets') \cup Range(sleepers')
    BY <2>1, <2>5, <2>6
  <2>8. \A u : EC!Free(u) => EC!Free(u)'
    BY <2>1, <2>5, FreeDef, FreeDefNext
  <2>9. \E u \in Workers : EC!Free(u)'
    BY <2>6, <2>7, FreeDefNext
  <2>10. OneTicket' /\ sleepers' \in Seq(Workers)
    BY <2>1, <2>5
  <2> QED BY <2>5, <2>8, <2>9, <2>10
<1>2. CASE EC!ReleaseSleeper
  <2>1. sleepers # <<>> /\ sleepers' = Tail(sleepers) /\ tickets' = tickets
    BY <1>2 DEF EC!ReleaseSleeper
  <2>2. /\ sleepers' \in Seq(Workers) /\ IsInjective(sleepers')
        /\ Range(sleepers') = Range(sleepers) \ {Head(sleepers)}
        /\ Head(sleepers) \in Range(sleepers) /\ Head(sleepers) \in Workers
    BY <2>1, HeadTailProperties, RangeOfTail
  <2> QED BY <2>1, <2>2, FreeDef, FreeDefNext
<1>3. CASE EC!ReleaseAll
  <2>1. tickets' = <<>> /\ sleepers' = <<>>
    BY <1>3 DEF EC!ReleaseAll
  <2>2. Range(<<>>) = {} /\ IsInjective(<<>>) /\ <<>> \in Seq(Workers)
    BY RangeOfEmpty
  <2> QED BY <2>1, <2>2, FreeDef, FreeDefNext, SchedulerAssumption
<1> QED BY <1>1, <1>2, <1>3

\* The event count stays well formed under every step of the executor.
LEMMA EventCountStep ==
  ASSUME Types, OneTicket, QuotaLeft, Next
  PROVE  tickets' \in Seq(Workers) /\ sleepers' \in Seq(Workers) /\ OneTicket'
<1> DEFINE Goal == tickets' \in Seq(Workers) /\ sleepers' \in Seq(Workers) /\ OneTicket'
<1>1. ASSUME UNCHANGED ecVars PROVE Goal
  BY <1>1 DEF ecVars, Types, OneTicket
<1>2. ASSUME NEW w \in Workers, EC!Prepare(w) PROVE Goal
  BY <1>2, PrepareStep
<1>3. ASSUME NEW w \in Workers, EC!Cancel(w) \/ EC!Commit(w) PROVE Goal
  BY <1>3, SettleStep
<1>4. ASSUME NEW k \in Int, k >= 1, EC!ReleaseTickets(k) \/ EC!ReleaseSleeper \/ EC!ReleaseAll
      PROVE  Goal
  BY <1>4, ReleaseStep
<1> HIDE DEF Goal
<1>5. ASSUME NEW t \in Threads, Submit(t) \/ Push(t) PROVE Goal
  BY <1>1, <1>5 DEF Submit, Push
<1>6. ASSUME NEW t \in Threads, Notify(t) PROVE Goal
  <2>1. quota[t] \in Int /\ quota[t] >= 1
    BY <1>6 DEF Notify, QuotaLeft, Types
  <2> QED BY <1>1, <1>4, <1>6, <2>1 DEF Notify
<1>7. ASSUME NEW w \in Workers, Continue(w) \/ Steal(w) PROVE Goal
  BY <1>1, <1>7 DEF Continue, Steal
<1>8. ASSUME NEW w \in Workers, WorkerRuns(w) PROVE Goal
  <2>1. CASE Finish(w) \/ Decrement(w) \/ WakeMain(w) \/ Pop(w)
    BY <1>1, <2>1 DEF Finish, Decrement, WakeMain, Pop
  <2>2. CASE ExitExploring(w) \/ Scan(w) \/ ScanDone(w) \/ Wake(w)
    BY <1>1, <2>2 DEF ExitExploring, Scan, ScanDone, Wake
  <2>3. CASE PrepareWait(w) \/ CancelWait(w) \/ CommitWait(w)
    BY <1>1, <1>2, <1>3, <2>3 DEF PrepareWait, CancelWait, CommitWait
  <2> QED BY <1>8, <2>1, <2>2, <2>3 DEF WorkerRuns
<1>9. ASSUME Shutdown \/ MainRuns PROVE Goal
  <2>1. CASE Shutdown
    BY <1>1, <2>1 DEF Shutdown, ecVars
  <2>2. CASE MainRuns
    <3>1. 1 \in Int /\ 1 >= 1
      OBVIOUS
    <3> QED BY <1>1, <1>4, <2>2, <3>1 DEF MainRuns, WaitForAll, SetTerminate, NotifyTerminate, Join, ecVars
  <2> QED BY <1>9, <2>1, <2>2
<1> QED BY <1>5, <1>6, <1>7, <1>8, <1>9 DEF Next, PublisherRuns, Goal

-----------------------------------------------------------------------------
(* Types.                                                                  *)

\* A steal takes one Work out of a queue that has one and leaves the others.
LEMMA WithoutStep ==
  ASSUME NEW S, NEW s \in Seq(S), NEW i \in 1..Len(s)
  PROVE  s # <<>> /\ Without(s, i) \in Seq(S)
<1>1. Len(s) \in Nat /\ s # <<>>
  BY LenProperties, EmptySeq
<1>2. /\ \A j \in 1..(i - 1) : s[j] \in S
      /\ \A j \in (i + 1)..Len(s) : s[j] \in S
  BY <1>1, ElementOfSeq
<1>3. 1 \in Int /\ i - 1 \in Int /\ i + 1 \in Int /\ Len(s) \in Int
  BY <1>1
<1>4. SubSeq(s, 1, i - 1) \in Seq(S) /\ SubSeq(s, i + 1, Len(s)) \in Seq(S)
  BY <1>2, <1>3, SubSeqProperties
<1> QED BY <1>1, <1>4, ConcatProperties DEF Without

\* What a queue, a job or a publication holds is a topology, or Nil.
LEMMA DataStep ==
  ASSUME Types, Next
  PROVE  /\ queue' \in [Queues -> Seq(Topologies \cup {Nil})]
         /\ job' \in [Workers -> Topologies \cup {Nil}]
         /\ out' \in [Threads -> [topology : Topologies \cup {Nil}, left : Int]]
<1> DEFINE T == Topologies \cup {Nil}
           Goal == /\ queue' \in [Queues -> Seq(T)]
                   /\ job' \in [Workers -> T]
                   /\ out' \in [Threads -> [topology : T, left : Int]]
<1>1. /\ queue \in [Queues -> Seq(T)]
      /\ job \in [Workers -> T]
      /\ out \in [Threads -> [topology : T, left : Int]]
  BY DEF Types
<1>2. ASSUME NEW t \in Threads, Submit(t) PROVE Goal
  BY <1>1, <1>2 DEF Submit, Publish
<1>3. ASSUME NEW t \in Threads, Push(t) PROVE Goal
  <2>1. PICK q \in Targets(t) : queue' = [queue EXCEPT ![q] = Append(@, out[t].topology)]
    BY <1>3 DEF Push
  <2>2. q \in Queues
    BY <2>1 DEF Targets, Queues
  <2>3. Append(queue[q], out[t].topology) \in Seq(T)
    BY <1>1, <2>2, AppendProperties
  <2>4. queue' \in [Queues -> Seq(T)]
    BY <1>1, <2>1, <2>3
  <2>5. out' \in [Threads -> [topology : T, left : Int]]
    <3>1. out[t].topology \in T /\ out[t].left - 1 \in Int
      BY <1>1
    <3>2. Remaining(t) \in [topology : T, left : Int]
      BY <3>1 DEF Remaining, Nothing
    <3> QED BY <1>1, <1>3, <3>2 DEF Push
  <2> QED BY <1>1, <1>3, <2>4, <2>5 DEF Push
<1>4. ASSUME NEW t \in Threads, Notify(t) PROVE Goal
  BY <1>1, <1>4 DEF Notify
<1>5. ASSUME NEW w \in Workers, Continue(w) PROVE Goal
  <2>1. PICK m \in 1..MaxReady :
          IF m = 1 THEN UNCHANGED <<pc, out, quota>> ELSE Publish(w, "run", job[w], m - 1)
    BY <1>5 DEF Continue
  <2>2. m - 1 \in Int /\ job[w] \in T
    BY <1>1, SchedulerAssumption
  <2>3. out' \in [Threads -> [topology : T, left : Int]]
    <3>1. [topology |-> job[w], left |-> m - 1] \in [topology : T, left : Int]
      BY <2>2
    <3>2. CASE out' = [out EXCEPT ![w] = [topology |-> job[w], left |-> m - 1]]
      BY <1>1, <3>1, <3>2
    <3>3. CASE UNCHANGED out
      BY <1>1, <3>3
    <3> QED BY <2>1, <3>2, <3>3 DEF Publish
  <2> QED BY <1>1, <1>5, <2>3 DEF Continue
<1>6. ASSUME NEW w \in Workers, Steal(w) PROVE Goal
  <2>1. PICK q \in Queues : \E i \in 1..Len(queue[q]) :
               /\ job' = [job EXCEPT ![w] = queue[q][i]]
               /\ queue' = [queue EXCEPT ![q] = Without(@, i)]
    BY <1>6 DEF Steal
  <2>2. queue[q] \in Seq(T)
    BY <1>1
  <2>3. \A i \in 1..Len(queue[q]) : queue[q][i] \in T /\ Without(queue[q], i) \in Seq(T)
    BY <2>2, ElementOfSeq, WithoutStep
  <2> QED BY <1>1, <1>6, <2>1, <2>3 DEF Steal
<1>7. ASSUME NEW w \in Workers, Pop(w) PROVE Goal
  <2>1. CASE queue[w] # <<>>
    <3>1. queue[w] \in Seq(T) /\ w \in Queues
      BY <1>1 DEF Queues
    <3>2. Len(queue[w]) \in Nat \ {0}
      BY <2>1, <3>1, EmptySeq
    <3>3. queue[w][Len(queue[w])] \in T
      BY <3>1, <3>2, ElementOfSeq
    <3>4. SubSeq(queue[w], 1, Len(queue[w]) - 1) \in Seq(T)
      <4>1. \A i \in 1..(Len(queue[w]) - 1) : queue[w][i] \in T
        BY <3>1, <3>2, ElementOfSeq
      <4>2. 1 \in Int /\ Len(queue[w]) - 1 \in Int
        BY <3>2
      <4> QED BY <4>1, <4>2, SubSeqProperties
    <3> QED BY <1>1, <1>7, <2>1, <3>3, <3>4 DEF Pop
  <2>2. CASE queue[w] = <<>>
    BY <1>1, <1>7, <2>2 DEF Pop
  <2> QED BY <2>1, <2>2
<1>8. ASSUME NEW w \in Workers, Finish(w) PROVE Goal
  BY <1>1, <1>8 DEF Finish
<1>9. ASSUME UNCHANGED <<queue, job, out>> PROVE Goal
  BY <1>1, <1>9
<1>10. ASSUME NEW w \in Workers, Decrement(w) \/ WakeMain(w) PROVE Goal
  BY <1>9, <1>10 DEF Decrement, WakeMain
<1>11. ASSUME NEW w \in Workers, ExitExploring(w) \/ PrepareWait(w) \/ Scan(w) \/ ScanDone(w)
                                 \/ CancelWait(w) \/ CommitWait(w) \/ Wake(w)
       PROVE Goal
  BY <1>9, <1>11 DEF ExitExploring, PrepareWait, Scan, ScanDone, CancelWait, CommitWait, Wake
<1>12. ASSUME \/ Shutdown /\ UNCHANGED <<queue, pc, job, out, quota, unscanned, topoVars, num_topologies>>
              \/ MainRuns
       PROVE Goal
  BY <1>9, <1>12 DEF MainRuns
<1> HIDE DEF Goal
<1>13. Goal
  BY <1>2, <1>3, <1>4, <1>5, <1>6, <1>7, <1>8, <1>10, <1>11, <1>12
     DEF Next, PublisherRuns, WorkerRuns
<1> QED BY <1>13 DEF Goal

-----------------------------------------------------------------------------
(* Control.                                                                *)

\* Where threads are, what they still owe and what they still have to scan.
LEMMA ControlStep ==
  ASSUME Types, Next
  PROVE  /\ pc' \in [Threads -> States]
         /\ quota' \in [Threads -> Int]
         /\ unscanned' \in [Workers -> SUBSET Queues]
         /\ terminate' \in [Workers -> BOOLEAN]
<1> DEFINE Goal == /\ pc' \in [Threads -> States]
                   /\ quota' \in [Threads -> Int]
                   /\ unscanned' \in [Workers -> SUBSET Queues]
                   /\ terminate' \in [Workers -> BOOLEAN]
<1> USE DEF Goto
<1>1. /\ pc \in [Threads -> States]
      /\ quota \in [Threads -> Int]
      /\ unscanned \in [Workers -> SUBSET Queues]
      /\ terminate \in [Workers -> BOOLEAN]
      /\ Workers \subseteq Threads
      /\ {"idle", "run", "push", "notify", "complete", "wakeMain", "pop"} \subseteq States
      /\ {"explore", "scan", "commit", "cancel", "cancelExit", "asleep", "exit"} \subseteq States
  BY DEF Types, Threads, States, Looking
<1>2. ASSUME NEW t \in Threads, Submit(t) \/ Push(t) PROVE Goal
  <2>1. CASE Submit(t)
    <3>1. pc' = [pc EXCEPT ![t] = "push"] /\ quota' = [quota EXCEPT ![t] = 1]
      BY <2>1 DEF Submit, Publish
    <3> QED BY <1>1, <2>1, <3>1 DEF Submit
  <2>2. CASE Push(t)
    BY <1>1, <2>2 DEF Push
  <2> QED BY <1>2, <2>1, <2>2
<1>3. ASSUME NEW t \in Threads, Notify(t) PROVE Goal
  <2>1. quota' \in [Threads -> Int]
    <3>1. tickets # <<>> => Len(tickets) \in Int
      BY LenProperties DEF Types
    <3>2. CASE quota' = [quota EXCEPT ![t] = 0]
      BY <1>1, <3>2
    <3>3. CASE EC!ReleaseTickets(quota[t]) /\
               quota' = [quota EXCEPT ![t] = IF @ < Len(tickets) THEN 0 ELSE @ - Len(tickets)]
      <4>1. Len(tickets) \in Int
        BY <3>1, <3>3 DEF EC!ReleaseTickets
      <4> QED BY <1>1, <3>3, <4>1
    <3>4. CASE quota' = [quota EXCEPT ![t] = @ - 1]
      BY <1>1, <3>4
    <3> QED BY <1>3, <3>2, <3>3, <3>4 DEF Notify
  <2>2. pc' \in [Threads -> States]
    BY <1>1, <1>3 DEF Notify
  <2> QED BY <1>1, <1>3, <2>1, <2>2 DEF Notify
<1>4. ASSUME NEW w \in Workers, Continue(w) PROVE Goal
  <2>1. PICK m \in 1..MaxReady :
          IF m = 1 THEN UNCHANGED <<pc, out, quota>> ELSE Publish(w, "run", job[w], m - 1)
    BY <1>4 DEF Continue
  <2>2. m - 1 \in Int
    BY SchedulerAssumption
  <2> QED BY <1>1, <1>4, <2>1, <2>2 DEF Continue, Publish
<1>5. ASSUME NEW w \in Workers, Steal(w) PROVE Goal
  BY <1>1, <1>5 DEF Steal
<1>6. ASSUME NEW w \in Workers, Finish(w) \/ Decrement(w) \/ WakeMain(w) \/ Pop(w) PROVE Goal
  BY <1>1, <1>6 DEF Finish, Decrement, WakeMain, Pop
<1>7. ASSUME NEW w \in Workers, ExitExploring(w) \/ ScanDone(w) \/ Wake(w)
                                \/ CancelWait(w) \/ CommitWait(w)
      PROVE  Goal
  BY <1>1, <1>7 DEF ExitExploring, ScanDone, Wake, CancelWait, CommitWait
<1>8. ASSUME NEW w \in Workers, PrepareWait(w) \/ Scan(w) PROVE Goal
  <2>1. CASE PrepareWait(w)
    BY <1>1, <2>1 DEF PrepareWait
  <2>2. CASE Scan(w)
    <3>1. PICK q \in unscanned[w] :
            IF queue[q] = <<>>
            THEN /\ pc[w] = "scan" /\ UNCHANGED pc
                 /\ unscanned' = [unscanned EXCEPT ![w] = @ \ {q}]
            ELSE /\ Goto(w, "scan", "cancel")
                 /\ unscanned' = [unscanned EXCEPT ![w] = {}]
      BY <2>2 DEF Scan
    <3> QED BY <1>1, <2>2, <3>1 DEF Scan
  <2> QED BY <1>8, <2>1, <2>2
<1>9. ASSUME \/ Shutdown /\ UNCHANGED <<queue, pc, job, out, quota, unscanned, topoVars, num_topologies>>
             \/ MainRuns
      PROVE  Goal
  BY <1>1, <1>9 DEF Shutdown, MainRuns, WaitForAll, SetTerminate, NotifyTerminate, Join
<1> HIDE DEF Goal
<1>10. Goal
  BY <1>2, <1>3, <1>4, <1>5, <1>6, <1>7, <1>8, <1>9 DEF Next, PublisherRuns, WorkerRuns
<1> QED BY <1>10 DEF Goal

\* A worker that looks for work has emptied its own queue, and nobody else
\* fills it.
LEMMA OwnQueueStep ==
  ASSUME Types, OwnQueue, Next
  PROVE  OwnQueue'
<1> USE DEF Goto
<1>1. /\ pc \in [Threads -> States] /\ Workers \subseteq Threads
      /\ Workers \subseteq Queues /\ Workers \cap Stacks = {}
      /\ DOMAIN queue = Queues
  BY SchedulerAssumption DEF Types, Threads, Queues
<1>2. ASSUME UNCHANGED queue,
             \A w \in Workers : pc'[w] = pc[w] \/ pc'[w] \notin Looking \/ pc[w] \in Looking
      PROVE  OwnQueue'
  BY <1>2 DEF OwnQueue
<1>3. ASSUME NEW t \in Threads, Submit(t) PROVE OwnQueue'
  BY <1>1, <1>2, <1>3 DEF Submit, Publish, Looking
<1>4. ASSUME NEW t \in Threads, Push(t) PROVE OwnQueue'
  <2>1. PICK q \in Targets(t) : queue' = [queue EXCEPT ![q] = Append(@, out[t].topology)]
    BY <1>4 DEF Push
  <2>2. \A w \in Workers : w # t => queue'[w] = queue[w] /\ pc'[w] = pc[w]
    BY <1>1, <1>4, <2>1 DEF Push, Targets
  <2>3. t \in Workers => pc'[t] \notin Looking
    BY <1>1, <1>4 DEF Push, Looking
  <2> QED BY <2>2, <2>3 DEF OwnQueue
<1>5. ASSUME NEW t \in Threads, Notify(t) PROVE OwnQueue'
  BY <1>1, <1>2, <1>5 DEF Notify, Looking
<1>6. ASSUME NEW w \in Workers, Continue(w) PROVE OwnQueue'
  <2>1. PICK m \in 1..MaxReady :
          IF m = 1 THEN UNCHANGED <<pc, out, quota>> ELSE Publish(w, "run", job[w], m - 1)
    BY <1>6 DEF Continue
  <2> QED BY <1>1, <1>2, <1>6, <2>1 DEF Continue, Publish, Looking
<1>7. ASSUME NEW w \in Workers, Steal(w) PROVE OwnQueue'
  <2>1. PICK q \in Queues : \E i \in 1..Len(queue[q]) : queue' = [queue EXCEPT ![q] = Without(@, i)]
    BY <1>7 DEF Steal
  <2>2. queue[q] # <<>>
    <3>1. queue[q] \in Seq(Topologies \cup {Nil})
      BY <1>1 DEF Types
    <3> QED BY <2>1, <3>1, WithoutStep
  <2>3. \A u \in Workers : queue[u] = <<>> => queue'[u] = <<>>
    BY <1>1, <2>1, <2>2
  <2>4. \A u \in Workers : pc'[u] = IF u = w THEN "run" ELSE pc[u]
    BY <1>1, <1>7 DEF Steal
  <2> QED BY <2>3, <2>4 DEF OwnQueue, Looking
<1>8. ASSUME NEW w \in Workers, Finish(w) \/ Decrement(w) \/ WakeMain(w) PROVE OwnQueue'
  BY <1>1, <1>2, <1>8 DEF Finish, Decrement, WakeMain, Looking
<1>9. ASSUME NEW w \in Workers, Pop(w) PROVE OwnQueue'
  <2>1. CASE queue[w] # <<>>
    <3>1. \A u \in Workers : /\ pc'[u] = IF u = w THEN "run" ELSE pc[u]
                             /\ u # w => queue'[u] = queue[u]
      BY <1>1, <1>9, <2>1 DEF Pop
    <3> QED BY <3>1 DEF OwnQueue, Looking
  <2>2. CASE queue[w] = <<>>
    <3>1. \A u \in Workers : /\ u # w => pc'[u] = pc[u]
                             /\ queue'[u] = queue[u]
      BY <1>1, <1>9, <2>2 DEF Pop
    <3> QED BY <2>2, <3>1 DEF OwnQueue
  <2> QED BY <2>1, <2>2
<1>10. ASSUME NEW w \in Workers, ExitExploring(w) \/ PrepareWait(w) \/ ScanDone(w)
                                 \/ CancelWait(w) \/ CommitWait(w) \/ Wake(w)
       PROVE  OwnQueue'
  <2>1. pc[w] \in Looking /\ \A u \in Workers : u # w => pc'[u] = pc[u]
    BY <1>1, <1>10 DEF ExitExploring, PrepareWait, ScanDone, CancelWait, CommitWait, Wake, Looking
  <2>2. UNCHANGED queue
    BY <1>10 DEF ExitExploring, PrepareWait, ScanDone, CancelWait, CommitWait, Wake
  <2> QED BY <1>2, <2>1, <2>2
<1>11. ASSUME NEW w \in Workers, Scan(w) PROVE OwnQueue'
  <2>1. pc[w] \in Looking /\ \A u \in Workers : u # w => pc'[u] = pc[u]
    BY <1>1, <1>11 DEF Scan, Looking
  <2>2. UNCHANGED queue
    BY <1>11 DEF Scan
  <2> QED BY <1>2, <2>1, <2>2
<1>12. ASSUME \/ Shutdown /\ UNCHANGED <<queue, pc, job, out, quota, unscanned, topoVars, num_topologies>>
              \/ MainRuns
       PROVE  OwnQueue'
  BY <1>12, <1>2 DEF MainRuns
<1> QED BY <1>3, <1>4, <1>5, <1>6, <1>7, <1>8, <1>9, <1>10, <1>11, <1>12
        DEF Next, PublisherRuns, WorkerRuns

\* A thread that is publishing owes at least one notification.
LEMMA QuotaStep ==
  ASSUME Types, QuotaLeft, Next
  PROVE  QuotaLeft'
<1> USE DEF Goto
<1>1. /\ pc \in [Threads -> States] /\ quota \in [Threads -> Int] /\ Workers \subseteq Threads
  BY DEF Types, Threads
<1>2. ASSUME UNCHANGED quota,
             \A t \in Threads : pc'[t] \in {"push", "notify"} => pc[t] \in {"push", "notify"}
      PROVE  QuotaLeft'
  BY <1>2 DEF QuotaLeft
<1>3. ASSUME NEW t \in Threads, Submit(t) PROVE QuotaLeft'
  <2>1. pc' = [pc EXCEPT ![t] = "push"] /\ quota' = [quota EXCEPT ![t] = 1]
    BY <1>3 DEF Submit, Publish
  <2> QED BY <1>1, <2>1 DEF QuotaLeft
<1>4. ASSUME NEW t \in Threads, Push(t) PROVE QuotaLeft'
  BY <1>1, <1>2, <1>4 DEF Push
<1>5. ASSUME NEW t \in Threads, Notify(t) PROVE QuotaLeft'
  <2>1. \A u \in Threads : u # t => pc'[u] = pc[u] /\ quota'[u] = quota[u]
    BY <1>1, <1>5 DEF Notify
  <2>2. pc'[t] \in {"push", "notify"} => quota'[t] > 0
    BY <1>1, <1>5 DEF Notify
  <2>3. quota'[t] \in Int
    BY <1>5, ControlStep
  <2> QED BY <2>1, <2>2, <2>3 DEF QuotaLeft
<1>6. ASSUME NEW w \in Workers, Continue(w) PROVE QuotaLeft'
  <2>1. PICK m \in 1..MaxReady :
          IF m = 1 THEN UNCHANGED <<pc, out, quota>> ELSE Publish(w, "run", job[w], m - 1)
    BY <1>6 DEF Continue
  <2>2. CASE m = 1
    BY <1>2, <2>1, <2>2
  <2>3. CASE m # 1
    <3>1. m - 1 \in Int /\ m - 1 >= 1
      BY <2>3, SchedulerAssumption
    <3>2. pc' = [pc EXCEPT ![w] = "push"] /\ quota' = [quota EXCEPT ![w] = m - 1]
      BY <2>1, <2>3 DEF Publish
    <3> QED BY <1>1, <3>1, <3>2 DEF QuotaLeft
  <2> QED BY <2>2, <2>3
<1>7. ASSUME NEW w \in Workers, Steal(w) PROVE QuotaLeft'
  BY <1>1, <1>2, <1>7 DEF Steal
<1>8. ASSUME NEW w \in Workers, Finish(w) \/ Decrement(w) \/ WakeMain(w) \/ Pop(w) PROVE QuotaLeft'
  BY <1>1, <1>2, <1>8 DEF Finish, Decrement, WakeMain, Pop
<1>9. ASSUME NEW w \in Workers, ExitExploring(w) \/ PrepareWait(w) \/ Scan(w) \/ ScanDone(w)
                                \/ CancelWait(w) \/ CommitWait(w) \/ Wake(w)
      PROVE  QuotaLeft'
  BY <1>1, <1>2, <1>9 DEF ExitExploring, PrepareWait, Scan, ScanDone, CancelWait, CommitWait, Wake
<1>10. ASSUME \/ Shutdown /\ UNCHANGED <<queue, pc, job, out, quota, unscanned, topoVars, num_topologies>>
              \/ MainRuns
       PROVE  QuotaLeft'
  BY <1>2, <1>10 DEF MainRuns
<1> QED BY <1>3, <1>4, <1>5, <1>6, <1>7, <1>8, <1>9, <1>10 DEF Next, PublisherRuns, WorkerRuns

\* Workers exit only on their terminate flag, which only the end of
\* wait_for_all sets.
LEMMA ExitStep ==
  ASSUME Types, ExitOnlyTold, Next
  PROVE  ExitOnlyTold'
<1> USE DEF Goto
<1>1. /\ pc \in [Threads -> States] /\ terminate \in [Workers -> BOOLEAN]
      /\ Workers \subseteq Threads
  BY DEF Types, Threads
<1> DEFINE Out == {"exit", "cancelExit"}
<1>2. ASSUME UNCHANGED <<terminate, main>>,
             \A w \in Workers : pc'[w] \in Out => pc[w] \in Out \/ terminate[w]
      PROVE  ExitOnlyTold'
  BY <1>2 DEF ExitOnlyTold
<1>3. ASSUME NEW t \in Threads, Submit(t) \/ Push(t) \/ Notify(t) PROVE ExitOnlyTold'
  BY <1>1, <1>2, <1>3 DEF Submit, Publish, Push, Notify
<1>4. ASSUME NEW w \in Workers, Continue(w) PROVE ExitOnlyTold'
  <2>1. PICK m \in 1..MaxReady :
          IF m = 1 THEN UNCHANGED <<pc, out, quota>> ELSE Publish(w, "run", job[w], m - 1)
    BY <1>4 DEF Continue
  <2> QED BY <1>1, <1>2, <1>4, <2>1 DEF Continue, Publish
<1>5. ASSUME NEW w \in Workers, Steal(w) \/ Finish(w) \/ Decrement(w) \/ Pop(w) PROVE ExitOnlyTold'
  BY <1>1, <1>2, <1>5 DEF Steal, Finish, Decrement, Pop
<1>6. ASSUME NEW w \in Workers, WakeMain(w) PROVE ExitOnlyTold'
  BY <1>1, <1>6 DEF WakeMain, ExitOnlyTold
<1>7. ASSUME NEW w \in Workers, ExitExploring(w) \/ PrepareWait(w) \/ Scan(w) \/ ScanDone(w)
                                \/ CancelWait(w) \/ CommitWait(w) \/ Wake(w)
      PROVE  ExitOnlyTold'
  BY <1>1, <1>2, <1>7 DEF ExitExploring, PrepareWait, Scan, ScanDone, CancelWait, CommitWait, Wake
<1>8. ASSUME Shutdown, UNCHANGED pc PROVE ExitOnlyTold'
  BY <1>8 DEF Shutdown, ExitOnlyTold
<1>9. ASSUME MainRuns PROVE ExitOnlyTold'
  BY <1>1, <1>9 DEF MainRuns, WaitForAll, SetTerminate, NotifyTerminate, Join, ExitOnlyTold
<1> QED BY <1>3, <1>4, <1>5, <1>6, <1>7, <1>8, <1>9 DEF Next, PublisherRuns, WorkerRuns

-----------------------------------------------------------------------------
(* No lost wake-up.                                                        *)

\* A worker that is not on its way to sleep or out attends to every queue.
LEMMA ActiveAttends ==
  ASSUME NEW w \in Workers, pc'[w] \notin {"scan", "commit", "cancelExit", "asleep", "exit"}
  PROVE  NoLostWakeup'
BY DEF NoLostWakeup, Attended, PassedBy, Waiting

\* So does whoever is neither holding a ticket nor asleep.
LEMMA FreeAttends ==
  ASSUME NEW w \in Workers, pc'[w] # "exit", EC!Free(w)'
  PROVE  NoLostWakeup'
BY DEF NoLostWakeup, Attended, PassedBy, Waiting

\* And so does a thread that will notify.
LEMMA PublisherAttends ==
  ASSUME NEW t \in Threads, pc'[t] \in {"push", "notify"}
  PROVE  NoLostWakeup'
BY DEF NoLostWakeup, Attended

\* A step that fills no queue and leaves whoever attended to a queue attending
\* to it, unless the queue is empty, keeps the property.
LEMMA AttentionKept ==
  ASSUME NoLostWakeup,
         main' \in {"idle", "waitAll", "blocked"} => main \in {"idle", "waitAll", "blocked"},
         \A q \in Queues : queue'[q] # <<>> => queue[q] # <<>>,
         \A t \in Threads : pc[t] \in {"push", "notify"} => pc'[t] \in {"push", "notify"},
         \A q \in Queues, w \in Workers :
           queue'[q] # <<>> /\ pc[w] # "exit" /\ ~PassedBy(w, q)
             => pc'[w] # "exit" /\ ~PassedBy(w, q)'
  PROVE  NoLostWakeup'
<1> SUFFICES ASSUME main' \in {"idle", "waitAll", "blocked"}, NEW q \in Queues, queue'[q] # <<>>
             PROVE  Attended(q)'
  BY DEF NoLostWakeup
<1>1. Attended(q)
  BY DEF NoLostWakeup
<1>2. CASE \E t \in Threads : pc[t] \in {"push", "notify"}
  BY <1>2 DEF Attended
<1>3. CASE \E w \in Workers : pc[w] # "exit" /\ ~PassedBy(w, q)
  BY <1>3 DEF Attended
<1> QED BY <1>1, <1>2, <1>3 DEF Attended

\* No step leaves a queue unattended: each action keeps an attendant or
\* makes one.
LEMMA WakeupStep ==
  ASSUME IInv, Next
  PROVE  NoLostWakeup'
<1> USE DEF Goto
<1>1. /\ Types /\ OneTicket /\ OwnQueue /\ ExitOnlyTold /\ NoLostWakeup
      /\ pc \in [Threads -> States] /\ Workers \subseteq Threads
      /\ unscanned \in [Workers -> SUBSET Queues]
  BY DEF IInv, Types, Threads
<1>2. ASSUME NEW t \in Threads, Submit(t) PROVE NoLostWakeup'
  <2>1. pc'[t] = "push"
    BY <1>1, <1>2 DEF Submit, Publish
  <2> QED BY <2>1, PublisherAttends
<1>3. ASSUME NEW t \in Threads, Push(t) PROVE NoLostWakeup'
  <2>1. pc'[t] \in {"push", "notify"}
    BY <1>1, <1>3 DEF Push
  <2> QED BY <2>1, PublisherAttends
<1>4. ASSUME NEW t \in Threads, Notify(t) PROVE NoLostWakeup'
  <2> SUFFICES ASSUME main' \in {"idle", "waitAll", "blocked"} PROVE NoLostWakeup'
    BY DEF NoLostWakeup
  <2>1. \A w \in Workers : pc[w] # "exit"
    BY <1>1, <1>4 DEF Notify, ExitOnlyTold
  <2>2. \A w \in Workers : pc'[w] # "exit"
    BY <1>1, <1>4, <2>1 DEF Notify
  <2>3. CASE ~EC!AnyWaiter /\ UNCHANGED ecVars
    <3>1. tickets' = <<>> /\ sleepers' = <<>>
      BY <2>3 DEF EC!AnyWaiter, ecVars
    <3>2. \A w \in Workers : EC!Free(w)'
      BY <3>1, FreeDefNext, RangeOfEmpty
    <3> QED BY <2>2, <3>2, FreeAttends, SchedulerAssumption
  <2>4. CASE EC!ReleaseAll \/ EC!ReleaseTickets(quota[t]) \/ EC!ReleaseSleeper
    <3>1. quota[t] \in Int /\ quota[t] >= 1
      BY <1>4 DEF Notify, IInv, QuotaLeft, Types
    <3>2. \E u \in Workers : EC!Free(u)'
      BY <1>1, <2>4, <3>1, ReleaseStep
    <3> QED BY <2>2, <3>2, FreeAttends
  <2> QED BY <1>4, <2>3, <2>4 DEF Notify
<1>5. ASSUME NEW w \in Workers, Continue(w) PROVE NoLostWakeup'
  <2>1. PICK m \in 1..MaxReady :
          IF m = 1 THEN UNCHANGED <<pc, out, quota>> ELSE Publish(w, "run", job[w], m - 1)
    BY <1>5 DEF Continue
  <2>2. pc'[w] \in {"run", "push"}
    BY <1>1, <1>5, <2>1 DEF Continue, Publish
  <2> QED BY <2>2, ActiveAttends
<1>6. ASSUME NEW w \in Workers,
             Steal(w) \/ Finish(w) \/ Decrement(w) \/ WakeMain(w) \/ Pop(w) \/ Wake(w)
      PROVE  NoLostWakeup'
  <2>1. pc'[w] \in {"run", "complete", "wakeMain", "pop", "explore"}
    BY <1>1, <1>6 DEF Steal, Finish, Decrement, WakeMain, Pop, Wake
  <2> QED BY <2>1, ActiveAttends
<1>7. ASSUME NEW w \in Workers, pc'[w] = "exit", ExitOnlyTold' PROVE NoLostWakeup'
  BY <1>7 DEF NoLostWakeup, ExitOnlyTold
<1>8. ExitOnlyTold'
  BY <1>1, ExitStep
<1>9. ASSUME NEW w \in Workers, ExitExploring(w) PROVE NoLostWakeup'
  <2>1. pc'[w] = "exit"
    BY <1>1, <1>9 DEF ExitExploring
  <2> QED BY <1>7, <1>8, <2>1
<1>10. ASSUME NEW w \in Workers, PrepareWait(w) PROVE NoLostWakeup'
  <2>1. /\ EC!Prepare(w) /\ pc[w] = "explore" /\ queue' = queue /\ main' = main
        /\ pc' = [pc EXCEPT ![w] = "scan"]
        /\ unscanned' = [unscanned EXCEPT ![w] = Queues \ {w}]
    BY <1>10 DEF PrepareWait
  <2>2. queue[w] = <<>>
    BY <1>1, <2>1 DEF OwnQueue, Looking
  <2>3. \A u : u # w /\ EC!Free(u) => EC!Free(u)'
    BY <1>1, <2>1, PrepareStep
  <2>4. ASSUME NEW q \in Queues, NEW u \in Workers,
               queue'[q] # <<>>, pc[u] # "exit", ~PassedBy(u, q)
        PROVE  pc'[u] # "exit" /\ ~PassedBy(u, q)'
    <3>1. CASE u = w
      BY <1>1, <2>1, <2>2, <2>4, <3>1 DEF PassedBy
    <3>2. CASE u # w
      BY <1>1, <2>1, <2>3, <2>4, <3>2 DEF PassedBy, Waiting
    <3> QED BY <3>1, <3>2
  <2>5. \A t \in Threads : pc[t] \in {"push", "notify"} => pc'[t] \in {"push", "notify"}
    BY <1>1, <2>1
  <2> QED BY <1>1, <2>1, <2>4, <2>5, AttentionKept
<1>11. ASSUME NEW w \in Workers, Scan(w) PROVE NoLostWakeup'
  <2>1. PICK q \in unscanned[w] :
          \/ /\ queue[q] = <<>> /\ pc' = pc
             /\ unscanned' = [unscanned EXCEPT ![w] = @ \ {q}]
          \/ pc' = [pc EXCEPT ![w] = "cancel"]
    BY <1>11 DEF Scan
  <2>2. UNCHANGED ecVars /\ queue' = queue /\ main' = main
    BY <1>11 DEF Scan
  <2>3. CASE pc' = [pc EXCEPT ![w] = "cancel"]
    <3>1. pc'[w] = "cancel"
      BY <1>1, <2>3
    <3> QED BY <3>1, ActiveAttends
  <2>4. CASE /\ queue[q] = <<>> /\ pc' = pc
             /\ unscanned' = [unscanned EXCEPT ![w] = @ \ {q}]
    <3>1. \A u : EC!Free(u)' <=> EC!Free(u)
      BY <2>2, FreeDef, FreeDefNext DEF ecVars
    <3>2. ASSUME NEW r \in Queues, NEW u \in Workers,
                 queue'[r] # <<>>, pc[u] # "exit", ~PassedBy(u, r)
          PROVE  pc'[u] # "exit" /\ ~PassedBy(u, r)'
      BY <1>1, <2>2, <2>4, <3>1, <3>2 DEF PassedBy, Waiting
    <3> QED BY <1>1, <2>2, <2>4, <3>2, AttentionKept
  <2> QED BY <2>1, <2>3, <2>4
<1>12. ASSUME NEW w \in Workers, ScanDone(w) PROVE NoLostWakeup'
  <2>1. /\ pc[w] = "scan" /\ pc' = [pc EXCEPT ![w] = IF terminate[w] THEN "cancelExit" ELSE "commit"]
        /\ UNCHANGED ecVars /\ queue' = queue /\ main' = main /\ unscanned' = unscanned
    BY <1>12 DEF ScanDone
  <2>2. \A u : EC!Free(u)' <=> EC!Free(u)
    BY <2>1, FreeDef, FreeDefNext DEF ecVars
  <2>3. ASSUME NEW r \in Queues, NEW u \in Workers,
               queue'[r] # <<>>, pc[u] # "exit", ~PassedBy(u, r)
        PROVE  pc'[u] # "exit" /\ ~PassedBy(u, r)'
    BY <1>1, <2>1, <2>2, <2>3 DEF PassedBy, Waiting
  <2>4. \A t \in Threads : pc[t] \in {"push", "notify"} => pc'[t] \in {"push", "notify"}
    BY <1>1, <2>1
  <2> QED BY <1>1, <2>1, <2>3, <2>4, AttentionKept
<1>13. ASSUME NEW w \in Workers, CancelWait(w) PROVE NoLostWakeup'
  <2>1. pc'[w] \in {"explore", "exit"}
    BY <1>1, <1>13 DEF CancelWait
  <2> QED BY <1>7, <1>8, <2>1, ActiveAttends
<1>14. ASSUME NEW w \in Workers, CommitWait(w) PROVE NoLostWakeup'
  <2>1. CASE EC!Free(w) /\ pc' = [pc EXCEPT ![w] = "explore"]
    <3>1. pc'[w] = "explore"
      BY <1>1, <2>1
    <3> QED BY <3>1, ActiveAttends
  <2>2. CASE EC!Commit(w) /\ pc[w] = "commit" /\ pc' = [pc EXCEPT ![w] = "asleep"]
    <3>1. queue' = queue /\ main' = main /\ unscanned' = unscanned
      BY <1>14 DEF CommitWait
    <3>2. \A u : EC!Free(u) => EC!Free(u)'
      BY <1>1, <2>2, SettleStep
    <3>3. ASSUME NEW r \in Queues, NEW u \in Workers,
                 queue'[r] # <<>>, pc[u] # "exit", ~PassedBy(u, r)
          PROVE  pc'[u] # "exit" /\ ~PassedBy(u, r)'
      BY <1>1, <2>2, <3>1, <3>2, <3>3 DEF PassedBy, Waiting
    <3>4. \A t \in Threads : pc[t] \in {"push", "notify"} => pc'[t] \in {"push", "notify"}
      BY <1>1, <2>2
    <3> QED BY <1>1, <3>1, <3>3, <3>4, AttentionKept
  <2> QED BY <1>14, <2>1, <2>2 DEF CommitWait
<1>15. ASSUME \/ Shutdown /\ UNCHANGED <<queue, pc, job, out, quota, unscanned, topoVars, num_topologies>>
              \/ MainRuns
       PROVE  NoLostWakeup'
  <2> SUFFICES ASSUME main' \in {"idle", "waitAll", "blocked"} PROVE NoLostWakeup'
    BY DEF NoLostWakeup
  <2>1. main \in {"idle", "waitAll", "blocked"} /\ UNCHANGED ecVars
    BY <1>15 DEF Shutdown, MainRuns, WaitForAll, SetTerminate, NotifyTerminate, Join
  <2>2. queue' = queue /\ pc' = pc /\ unscanned' = unscanned
    BY <1>15 DEF MainRuns
  <2>3. \A u : EC!Free(u)' <=> EC!Free(u)
    BY <2>1, FreeDef, FreeDefNext DEF ecVars
  <2>4. \A r \in Queues, u \in Workers : PassedBy(u, r)' <=> PassedBy(u, r)
    BY <2>2, <2>3 DEF PassedBy, Waiting
  <2> QED BY <1>1, <2>1, <2>2, <2>4, AttentionKept
<1> QED BY <1>2, <1>3, <1>4, <1>5, <1>6, <1>9, <1>10, <1>11, <1>12, <1>13, <1>14, <1>15
        DEF Next, PublisherRuns, WorkerRuns

-----------------------------------------------------------------------------
(* The theorem.                                                            *)

\* The executor starts with empty queues and every worker looking for work.
LEMMA InitIInv == Init => IInv
<1> SUFFICES ASSUME Init PROVE IInv
  OBVIOUS
<1>1. /\ tickets = <<>> /\ sleepers = <<>> /\ queue = [q \in Queues |-> <<>>]
  BY DEF Init, EC!ECInit
<1>2. \A S : <<>> \in Seq(S)
  BY EmptySeq
<1>3. Range(<<>>) = {} /\ IsInjective(<<>>)
  BY RangeOfEmpty
<1>4. Types
  <2>1. Nothing \in [topology : Topologies \cup {Nil}, left : Int]
    BY DEF Nothing
  <2>2. pc \in [Threads -> States]
    BY DEF Init, States, Looking
  <2> QED BY <1>1, <1>2, <2>1, <2>2 DEF Init, Types
<1>5. OneTicket
  BY <1>1, <1>3 DEF OneTicket
<1>6. OwnQueue
  BY <1>1 DEF OwnQueue, Queues
<1>7. QuotaLeft
  BY DEF Init, QuotaLeft
<1>8. ExitOnlyTold
  BY DEF Init, ExitOnlyTold, Threads
<1>9. NoLostWakeup
  BY <1>1 DEF NoLostWakeup
<1> QED BY <1>4, <1>5, <1>6, <1>7, <1>8, <1>9 DEF IInv

\* Every step of the executor preserves the invariant.
LEMMA NextIInv == IInv /\ [Next]_vars => IInv'
<1> SUFFICES ASSUME IInv, [Next]_vars PROVE IInv'
  OBVIOUS
<1>1. CASE Next
  <2>1. Types' /\ OneTicket'
    BY <1>1, EventCountStep, DataStep, ControlStep DEF IInv, Types
  <2>2. OwnQueue' /\ QuotaLeft' /\ ExitOnlyTold'
    BY <1>1, OwnQueueStep, QuotaStep, ExitStep DEF IInv
  <2>3. NoLostWakeup'
    BY <1>1, WakeupStep
  <2> QED BY <2>1, <2>2, <2>3 DEF IInv
<1>2. CASE UNCHANGED vars
  <2>1. Types' /\ OneTicket' /\ OwnQueue' /\ QuotaLeft' /\ ExitOnlyTold'
    BY <1>2 DEF vars, ecVars, IInv, Types, OneTicket, OwnQueue, QuotaLeft, ExitOnlyTold
  <2>2. NoLostWakeup'
    <3>1. \A u : EC!Free(u)' <=> EC!Free(u)
      BY <1>2, FreeDef, FreeDefNext DEF vars, ecVars
    <3>2. \A r \in Queues, u \in Workers : PassedBy(u, r)' <=> PassedBy(u, r)
      BY <1>2, <3>1 DEF vars, PassedBy, Waiting
    <3>3. queue' = queue /\ pc' = pc /\ main' = main
      BY <1>2 DEF vars
    <3> QED BY <3>2, <3>3, AttentionKept DEF IInv
  <2> QED BY <2>1, <2>2 DEF IInv
<1> QED BY <1>1, <1>2

\* The invariant holds in every reachable state.
LEMMA InductiveInvariant == Spec => []IInv
  BY InitIInv, NextIInv, PTL DEF Spec

\* executor.hpp never leaves a Work in a queue with every worker asleep or
\* about to sleep and no notification on the way.
THEOREM NoLostWakeupHolds == Spec => []NoLostWakeup
<1>1. IInv => NoLostWakeup
  BY DEF IInv
<1> QED BY <1>1, InductiveInvariant, PTL

-----------------------------------------------------------------------------
(* The counters, for any number of successors too: the join slots of a     *)
(* topology are its Works in queues, on workers and about to be published, *)
(* the topology counter counts what has not completed, and the shutdown    *)
(* starts and ends with nothing left to do.                                *)

\* The newest element is the last one.
LEMMA WithoutLast ==
  ASSUME NEW S, NEW s \in Seq(S), s # <<>>
  PROVE  SubSeq(s, 1, Len(s) - 1) = Without(s, Len(s))
<1>1. Len(s) \in Nat \ {0}
  BY EmptySeq
<1>2. SubSeq(s, Len(s) + 1, Len(s)) = <<>>
  BY <1>1, SubSeqEmpty
<1>3. SubSeq(s, 1, Len(s) - 1) \in Seq(S)
  <2>1. \A i \in 1..(Len(s) - 1) : s[i] \in S
    BY <1>1, ElementOfSeq
  <2>2. 1 \in Int /\ Len(s) - 1 \in Int
    BY <1>1
  <2> QED BY <2>1, <2>2, SubSeqProperties
<1> QED BY <1>2, <1>3, ConcatEmptySeq DEF Without

\* An element stolen from the middle.
LEMMA IndicesOfWithout ==
  ASSUME NEW S, NEW s \in Seq(S), NEW i \in 1..Len(s), NEW x
  PROVE  /\ Without(s, i) \in Seq(S)
         /\ Cardinality(Indices(Without(s, i), x)) =
              Cardinality(Indices(s, x)) - IF s[i] = x THEN 1 ELSE 0
<1> DEFINE a == SubSeq(s, 1, i - 1)
           b == SubSeq(s, i + 1, Len(s))
           e == <<s[i]>>
           n == Len(s)
<1>1. n \in Nat /\ i \in Int /\ 1 <= i /\ i <= n
  BY LenProperties
<1>2. s[i] \in S /\ e \in Seq(S)
  BY ElementOfSeq
<1>3. a \in Seq(S) /\ b \in Seq(S)
  <2>1. /\ \A j \in 1..(i - 1) : s[j] \in S
        /\ \A j \in (i + 1)..n : s[j] \in S
    BY <1>1, ElementOfSeq
  <2>2. 1 \in Int /\ i - 1 \in Int /\ i + 1 \in Int /\ n \in Int
    BY <1>1
  <2> QED BY <2>1, <2>2, SubSeqProperties
<1>4. s = a \o (e \o b)
  <2>1. /\ 1 \in 1..(n + 1) /\ i - 1 \in (1 - 1)..n /\ n \in (i - 1)..n
        /\ i \in 1..n /\ n \in i..n /\ (i - 1) + 1 = i
    BY <1>1
  <2>2. SubSeq(s, 1, i - 1) \o SubSeq(s, (i - 1) + 1, n) = SubSeq(s, 1, n)
    BY <2>1, ConcatAdjacentSubSeq
  <2>3. SubSeq(s, i, n) = e \o b
    BY <2>1, SubSeqRecursiveFirst
  <2> QED BY <2>1, <2>2, <2>3, SubSeqFull
<1>5. Cardinality(Indices(e, x)) = IF s[i] = x THEN 1 ELSE 0
  BY IndicesOfSingleton
<1> HIDE DEF a, b, e, n
<1>6. /\ e \o b \in Seq(S) /\ a \o b \in Seq(S)
      /\ Cardinality(Indices(s, x)) = Cardinality(Indices(a, x)) + Cardinality(Indices(e \o b, x))
      /\ Cardinality(Indices(e \o b, x)) = Cardinality(Indices(e, x)) + Cardinality(Indices(b, x))
      /\ Cardinality(Indices(a \o b, x)) = Cardinality(Indices(a, x)) + Cardinality(Indices(b, x))
  <2>1. e \o b \in Seq(S) /\ a \o b \in Seq(S)
    BY <1>2, <1>3, ConcatProperties
  <2>2. Cardinality(Indices(a \o (e \o b), x)) =
          Cardinality(Indices(a, x)) + Cardinality(Indices(e \o b, x))
    BY <1>3, <2>1, IndicesOfConcat, ZenonT(60)
  <2>3. /\ Cardinality(Indices(e \o b, x)) = Cardinality(Indices(e, x)) + Cardinality(Indices(b, x))
        /\ Cardinality(Indices(a \o b, x)) = Cardinality(Indices(a, x)) + Cardinality(Indices(b, x))
    BY <1>2, <1>3, IndicesOfConcat
  <2> QED BY <1>4, <2>1, <2>2, <2>3
<1>7. Cardinality(Indices(a, x)) \in Nat /\ Cardinality(Indices(b, x)) \in Nat
  BY <1>3, IndicesFinite
<1>8. Cardinality(Indices(a \o b, x)) = Cardinality(Indices(s, x)) - IF s[i] = x THEN 1 ELSE 0
  BY <1>5, <1>6, <1>7
<1> QED BY <1>6, <1>8 DEF a, b, n, Without

-----------------------------------------------------------------------------
(* What a step does to the number of Works of a topology in the queues.    *)

QueuesHold == queue \in [Queues -> Seq(Topologies)]

\* A push adds one Work.
LEMMA QueuedPush ==
  ASSUME QueuesHold, NEW CONSTANT k \in Topologies, IsFiniteSet(Queued(k)),
         NEW q \in Queues, NEW x \in Topologies,
         queue' = [queue EXCEPT ![q] = Append(@, x)]
  PROVE  /\ IsFiniteSet(Queued(k)')
         /\ Cardinality(Queued(k)') = Cardinality(Queued(k)) + IF x = k THEN 1 ELSE 0
<1> DEFINE h == queue'
<1>1. /\ queue[q] \in Seq(Topologies) /\ Append(queue[q], x) = h[q]
      /\ \A p \in Queues \ {q} : h[p] = queue[p]
  BY DEF QueuesHold
<1>2. IsFiniteSet(Places(queue, Queues, k))
  BY DEF Queued
<1> HIDE DEF h
<1>3. /\ IsFiniteSet(Places(h, Queues, k))
      /\ Cardinality(Places(h, Queues, k)) =
           Cardinality(Places(queue, Queues, k)) + IF x = k THEN 1 ELSE 0
  BY <1>1, <1>2, PlacesAppend
<1> QED BY <1>3 DEF Queued, h

\* A pop or a steal takes one Work.
LEMMA QueuedTake ==
  ASSUME QueuesHold, NEW CONSTANT k \in Topologies, IsFiniteSet(Queued(k)),
         NEW q \in Queues, NEW i \in 1..Len(queue[q]),
         queue' = [queue EXCEPT ![q] = Without(@, i)]
  PROVE  /\ IsFiniteSet(Queued(k)')
         /\ Cardinality(Queued(k)') = Cardinality(Queued(k)) - IF queue[q][i] = k THEN 1 ELSE 0
<1> DEFINE h == queue'
<1>1. /\ queue[q] \in Seq(Topologies) /\ Without(queue[q], i) = h[q]
      /\ \A p \in Queues \ {q} : h[p] = queue[p]
  BY DEF QueuesHold
<1>2. IsFiniteSet(Places(queue, Queues, k))
  BY DEF Queued
<1> HIDE DEF h
<1>3. /\ h[q] \in Seq(Topologies)
      /\ Cardinality(Indices(h[q], k)) =
           Cardinality(Indices(queue[q], k)) - IF queue[q][i] = k THEN 1 ELSE 0
  <2>1. /\ Without(queue[q], i) \in Seq(Topologies)
        /\ Cardinality(Indices(Without(queue[q], i), k)) =
             Cardinality(Indices(queue[q], k)) - IF queue[q][i] = k THEN 1 ELSE 0
    BY <1>1, IndicesOfWithout
  <2> QED BY <1>1, <2>1
<1>4. /\ IsFiniteSet(Indices(queue[q], k)) /\ IsFiniteSet(Indices(h[q], k))
      /\ Cardinality(Indices(queue[q], k)) \in Nat
      /\ Cardinality(Places(queue, Queues, k)) \in Nat
  BY <1>1, <1>2, <1>3, IndicesFinite, FS_CardinalityType
<1>5. /\ IsFiniteSet(Places(h, Queues, k))
      /\ Cardinality(Places(h, Queues, k)) =
           Cardinality(Places(queue, Queues, k))
             - Cardinality(Indices(queue[q], k)) + Cardinality(Indices(h[q], k))
  BY <1>1, <1>2, <1>4, PlacesUpdate
<1> QED BY <1>3, <1>4, <1>5 DEF Queued, h

-----------------------------------------------------------------------------
(* What a step does to the numbers of its Works on workers and in threads  *)
(* that publish.                                                           *)

\* A worker without a job takes one.
LEMMA RunningTake ==
  ASSUME Types, NEW CONSTANT k \in Topologies, IsFiniteSet(Running(k)),
         NEW w \in Workers, NEW x, job[w] # k, job' = [job EXCEPT ![w] = x]
  PROVE  /\ IsFiniteSet(Running(k)')
         /\ Cardinality(Running(k)') = Cardinality(Running(k)) + IF x = k THEN 1 ELSE 0
<1>1. Running(k)' = IF x = k THEN Running(k) \cup {w} ELSE Running(k)
  BY DEF Running, Types
<1>2. w \notin Running(k)
  BY DEF Running
<1>3. Cardinality(Running(k)) \in Nat
  BY FS_CardinalityType
<1>4. CASE x = k
  BY <1>1, <1>2, <1>4, FS_AddElement
<1>5. CASE x # k
  BY <1>1, <1>3, <1>5
<1> QED BY <1>4, <1>5

\* A worker ends its job.
LEMMA RunningDrop ==
  ASSUME Types, NEW CONSTANT k \in Topologies, IsFiniteSet(Running(k)),
         NEW w \in Workers, job' = [job EXCEPT ![w] = Nil]
  PROVE  /\ IsFiniteSet(Running(k)')
         /\ Cardinality(Running(k)') = Cardinality(Running(k)) - IF job[w] = k THEN 1 ELSE 0
<1>1. Running(k)' = IF job[w] = k THEN Running(k) \ {w} ELSE Running(k)
  BY SchedulerAssumption DEF Running, Types
<1>2. w \in Running(k) <=> job[w] = k
  BY DEF Running
<1>3. Cardinality(Running(k)) \in Nat
  BY FS_CardinalityType
<1>4. CASE job[w] = k
  BY <1>1, <1>2, <1>4, FS_RemoveElement
<1>5. CASE job[w] # k
  BY <1>1, <1>3, <1>5
<1> QED BY <1>4, <1>5

\* A thread that publishes nothing starts to publish n Works.
LEMMA PublishingStart ==
  ASSUME Types, NEW CONSTANT k \in Topologies, IsFiniteSet(Publishing(k)),
         NEW t \in Threads, NEW x \in Topologies, NEW n \in Nat, out[t] = Nothing,
         out' = [out EXCEPT ![t] = [topology |-> x, left |-> n]]
  PROVE  /\ IsFiniteSet(Publishing(k)')
         /\ Cardinality(Publishing(k)') = Cardinality(Publishing(k)) + IF x = k THEN n ELSE 0
<1>1. /\ out'[t].topology = x /\ out'[t].left = n
      /\ \A u \in Threads \ {t} : out'[u] = out[u]
  BY DEF Types
<1>2. /\ ToPublish(k)[t] = 0 /\ ToPublish(k)'[t] = IF x = k THEN n ELSE 0
      /\ \A u \in Threads \ {t} : ToPublish(k)'[u] = ToPublish(k)[u]
  BY <1>1, SchedulerAssumption DEF ToPublish, Nothing
<1>3. /\ IsFiniteSet(Publishing(k)')
      /\ Cardinality(Publishing(k)') =
           Cardinality(Publishing(k)) - ToPublish(k)[t] + ToPublish(k)'[t]
  <2>1. ToPublish(k)[t] \in Nat /\ ToPublish(k)'[t] \in Nat
    BY <1>2
  <2> QED BY <1>2, <2>1, UnitsUpdate DEF Publishing
<1>4. Cardinality(Publishing(k)) \in Nat
  BY FS_CardinalityType
<1> QED BY <1>2, <1>3, <1>4

\* A thread that pushes has one Work less to publish.
LEMMA PublishingOne ==
  ASSUME Types, NEW CONSTANT k \in Topologies, IsFiniteSet(Publishing(k)),
         NEW t \in Threads, out[t].left >= 1,
         out' = [out EXCEPT ![t] = Remaining(t)]
  PROVE  /\ IsFiniteSet(Publishing(k)')
         /\ Cardinality(Publishing(k)') =
              Cardinality(Publishing(k)) - IF out[t].topology = k THEN 1 ELSE 0
<1> DEFINE n == out[t].left
<1>1. n \in Nat \ {0} /\ out'[t] = Remaining(t) /\ \A u \in Threads \ {t} : out'[u] = out[u]
  BY DEF Types
<1>2. IF n = 1 THEN out'[t] = Nothing ELSE out'[t].topology = out[t].topology /\ out'[t].left = n - 1
  BY <1>1 DEF Remaining
<1>3. Nothing.topology # k
  BY SchedulerAssumption DEF Nothing
<1> HIDE DEF n
<1>4. /\ ToPublish(k)[t] = IF out[t].topology = k THEN n ELSE 0
      /\ ToPublish(k)'[t] = IF out[t].topology = k THEN n - 1 ELSE 0
      /\ \A u \in Threads \ {t} : ToPublish(k)'[u] = ToPublish(k)[u]
  <2>1. ToPublish(k)[t] = IF out[t].topology = k THEN n ELSE 0
    BY DEF ToPublish, n
  <2>2. ToPublish(k)'[t] = IF out'[t].topology = k THEN out'[t].left ELSE 0
    BY DEF ToPublish
  <2>3. \A u \in Threads \ {t} : ToPublish(k)'[u] = ToPublish(k)[u]
    BY <1>1 DEF ToPublish
  <2> QED BY <1>1, <1>2, <1>3, <2>1, <2>2, <2>3
<1>5. /\ IsFiniteSet(Publishing(k)')
      /\ Cardinality(Publishing(k)') =
           Cardinality(Publishing(k)) - ToPublish(k)[t] + ToPublish(k)'[t]
  <2>1. ToPublish(k)[t] \in Nat /\ ToPublish(k)'[t] \in Nat
    BY <1>1, <1>4
  <2> QED BY <1>4, <2>1, UnitsUpdate DEF Publishing
<1>6. Cardinality(Publishing(k)) \in Nat
  BY FS_CardinalityType
<1> QED BY <1>1, <1>4, <1>5, <1>6

-----------------------------------------------------------------------------
(* The inductive invariant.  A worker has a job exactly while it runs its  *)
(* Work or publishes from it (JobHeld), a thread holds a publication       *)
(* exactly while it pushes (PublicationHeld), a topology lives exactly     *)
(* while it has slots (LiveHolds).  The topology counter is zero when the  *)
(* shutdown goes on (AllDone), and then nobody can submit any more: a      *)
(* client does not, and a worker submits from a running Work only, whose   *)
(* topology would still be counted.                                        *)

JobHeld == \A w \in Workers : job[w] \in Topologies <=> pc[w] \in {"run", "push", "notify"}

PublicationHeld ==
  \A t \in Threads : IF pc[t] = "push" THEN out[t].topology \in Topologies /\ out[t].left >= 1
                     ELSE out[t] = Nothing

CounterTypes ==
  /\ quota \in [Threads -> Nat]
  /\ slots \in [Topologies -> Nat]
  /\ works \in [Topologies -> Nat]
  /\ status \in [Topologies -> {"new", "live", "done"}]
  /\ num_topologies \in Nat
  /\ main \in {"idle", "waitAll", "blocked", "terminate", "join", "joined"}

LiveHolds == \A k \in Topologies : slots[k] = 0 <=> status[k] # "live"

PartsFinite ==
  \A k \in Topologies :
    IsFiniteSet(Queued(k)) /\ IsFiniteSet(Running(k)) /\ IsFiniteSet(Publishing(k))

AllDone == main \in {"terminate", "join", "joined"} => num_topologies = 0

Held == QueuesHold /\ JobHeld /\ PublicationHeld

CInv ==
  /\ IInv
  /\ Held
  /\ CounterTypes
  /\ LiveHolds
  /\ PartsFinite
  /\ SlotsConserved
  /\ TopologiesCounted
  /\ AllDone

\* A Work in a queue, on a worker or about to be published holds a slot, so its
\* topology lives and is counted.
LEMMA SlotHeld ==
  ASSUME CounterTypes, PartsFinite, SlotsConserved, LiveHolds, NEW k \in Topologies,
         Queued(k) # {} \/ Running(k) # {} \/ Publishing(k) # {}
  PROVE  slots[k] >= 1 /\ status[k] = "live"
<1>1. /\ Cardinality(Queued(k)) \in Nat /\ (Queued(k) # {} => Cardinality(Queued(k)) # 0)
      /\ Cardinality(Running(k)) \in Nat /\ (Running(k) # {} => Cardinality(Running(k)) # 0)
      /\ Cardinality(Publishing(k)) \in Nat
      /\ (Publishing(k) # {} => Cardinality(Publishing(k)) # 0)
  BY FS_CardinalityType, FS_EmptySet DEF PartsFinite
<1>2. slots[k] >= 1
  BY <1>1 DEF SlotsConserved
<1> QED BY <1>2 DEF LiveHolds

\* The topology of a job lives.
LEMMA JobLives ==
  ASSUME CounterTypes, PartsFinite, SlotsConserved, LiveHolds, NEW w \in Workers,
         job[w] \in Topologies
  PROVE  slots[job[w]] >= 1 /\ status[job[w]] = "live"
<1>1. w \in Running(job[w])
  BY DEF Running
<1> QED BY <1>1, SlotHeld

\* A topology without slots has nothing in queues, on workers or to publish.
LEMMA NoSlot ==
  ASSUME CounterTypes, PartsFinite, SlotsConserved, NEW k \in Topologies, slots[k] = 0
  PROVE  Queued(k) = {} /\ Running(k) = {} /\ Publishing(k) = {}
<1>1. /\ Cardinality(Queued(k)) \in Nat /\ (Queued(k) # {} => Cardinality(Queued(k)) # 0)
      /\ Cardinality(Running(k)) \in Nat /\ (Running(k) # {} => Cardinality(Running(k)) # 0)
      /\ Cardinality(Publishing(k)) \in Nat
      /\ (Publishing(k) # {} => Cardinality(Publishing(k)) # 0)
  BY FS_CardinalityType, FS_EmptySet DEF PartsFinite
<1>2. Cardinality(Queued(k)) + Cardinality(Running(k)) + Cardinality(Publishing(k)) = 0
  BY DEF SlotsConserved
<1>3. /\ Cardinality(Queued(k)) = 0 /\ Cardinality(Running(k)) = 0
      /\ Cardinality(Publishing(k)) = 0
  BY <1>1, <1>2
<1> QED BY <1>1, <1>3

\* What is in a queue, on a worker or published is a topology at the right time.
LEMMA HeldStep ==
  ASSUME Types, Held, Next
  PROVE  Held'
<1> USE DEF Goto
<1>1. /\ pc \in [Threads -> States] /\ Workers \subseteq Threads /\ Workers \subseteq Queues
      /\ job \in [Workers -> Topologies \cup {Nil}]
      /\ out \in [Threads -> [topology : Topologies \cup {Nil}, left : Int]]
      /\ queue \in [Queues -> Seq(Topologies)] /\ Nil \notin Topologies
      /\ JobHeld /\ PublicationHeld
  BY SchedulerAssumption DEF Types, Threads, Queues, Held, QueuesHold
<1>2. ASSUME UNCHANGED <<queue, job, out>>,
             \A t \in Threads : pc[t] = "push" <=> pc'[t] = "push",
             \A w \in Workers : pc[w] \in {"run", "push", "notify"} <=>
                                pc'[w] \in {"run", "push", "notify"}
      PROVE  Held'
  BY <1>1, <1>2 DEF Held, QueuesHold, JobHeld, PublicationHeld
<1>3. ASSUME NEW t \in Threads, Submit(t) PROVE Held'
  <2>1. PICK k \in Topologies : Publish(t, IF t \in Workers THEN "run" ELSE "idle", k, 1)
    BY <1>3 DEF Submit
  <2>2. /\ t \in Workers => pc[t] = "run"
        /\ pc' = [pc EXCEPT ![t] = "push"]
        /\ out' = [out EXCEPT ![t] = [topology |-> k, left |-> 1]]
    BY <2>1 DEF Publish
  <2>3. UNCHANGED <<queue, job>>
    BY <1>3 DEF Submit
  <2>4. QueuesHold'
    BY <1>1, <2>3 DEF QueuesHold
  <2>5. JobHeld'
    BY <1>1, <2>2, <2>3 DEF JobHeld
  <2>6. PublicationHeld'
    BY <1>1, <2>2 DEF PublicationHeld
  <2> QED BY <2>4, <2>5, <2>6 DEF Held
<1>4. ASSUME NEW t \in Threads, Push(t) PROVE Held'
  <2>1. /\ pc[t] = "push" /\ pc' = [pc EXCEPT ![t] = IF out[t].left = 1 THEN "notify" ELSE "push"]
        /\ out' = [out EXCEPT ![t] = Remaining(t)] /\ UNCHANGED job
    BY <1>4 DEF Push
  <2>2. out[t].topology \in Topologies /\ out[t].left >= 1 /\ out[t].left \in Int
    BY <1>1, <2>1 DEF PublicationHeld
  <2>3. PICK q \in Targets(t) : queue' = [queue EXCEPT ![q] = Append(@, out[t].topology)]
    BY <1>4 DEF Push
  <2>4. QueuesHold'
    <3>1. q \in Queues
      BY <2>3 DEF Targets, Queues
    <3>2. Append(queue[q], out[t].topology) \in Seq(Topologies)
      BY <1>1, <2>2, <3>1, AppendProperties
    <3> QED BY <1>1, <2>3, <3>2 DEF QueuesHold
  <2>5. JobHeld'
    BY <1>1, <2>1 DEF JobHeld
  <2>6. PublicationHeld'
    <3>1. IF pc'[t] = "push" THEN out'[t].topology \in Topologies /\ out'[t].left >= 1
          ELSE out'[t] = Nothing
      BY <1>1, <2>1, <2>2 DEF Remaining
    <3>2. \A u \in Threads \ {t} : pc'[u] = pc[u] /\ out'[u] = out[u]
      BY <1>1, <2>1
    <3> QED BY <1>1, <3>1, <3>2 DEF PublicationHeld
  <2> QED BY <2>4, <2>5, <2>6 DEF Held
<1>5. ASSUME NEW t \in Threads, Notify(t) PROVE Held'
  <2>1. /\ pc[t] = "notify" /\ UNCHANGED <<queue, job, out>>
        /\ pc' = [pc EXCEPT ![t] = IF quota'[t] > 0 THEN "notify"
                                   ELSE IF t \in Workers THEN "run" ELSE "idle"]
    BY <1>5 DEF Notify
  <2> QED BY <1>1, <1>2, <2>1
<1>6. ASSUME NEW w \in Workers, Continue(w) PROVE Held'
  <2>1. PICK m \in 1..MaxReady :
          IF m = 1 THEN UNCHANGED <<pc, out, quota>> ELSE Publish(w, "run", job[w], m - 1)
    BY <1>6 DEF Continue
  <2>2. pc[w] = "run" /\ UNCHANGED <<queue, job>>
    BY <1>6 DEF Continue
  <2>3. CASE m = 1
    BY <1>2, <2>1, <2>2, <2>3
  <2>4. CASE m # 1
    <3>1. m - 1 \in Int /\ m - 1 >= 1
      BY <2>4, SchedulerAssumption
    <3>2. /\ pc' = [pc EXCEPT ![w] = "push"]
          /\ out' = [out EXCEPT ![w] = [topology |-> job[w], left |-> m - 1]]
      BY <2>1, <2>4 DEF Publish
    <3>3. job[w] \in Topologies
      BY <1>1, <2>2 DEF JobHeld
    <3>4. QueuesHold' /\ JobHeld'
      BY <1>1, <2>2, <3>2 DEF QueuesHold, JobHeld
    <3>5. PublicationHeld'
      BY <1>1, <3>1, <3>2, <3>3 DEF PublicationHeld
    <3> QED BY <3>4, <3>5 DEF Held
  <2> QED BY <2>3, <2>4
<1>7. ASSUME NEW w \in Workers, NEW q \in Queues, NEW i \in 1..Len(queue[q]),
             pc[w] \in {"pop", "explore"}, pc' = [pc EXCEPT ![w] = "run"],
             job' = [job EXCEPT ![w] = queue[q][i]],
             queue' = [queue EXCEPT ![q] = Without(@, i)], UNCHANGED out
      PROVE  Held'
  <2>1. queue[q] \in Seq(Topologies)
    BY <1>1
  <2>2. queue[q][i] \in Topologies /\ Without(queue[q], i) \in Seq(Topologies)
    BY <2>1, ElementOfSeq, WithoutStep
  <2>3. QueuesHold' /\ JobHeld'
    BY <1>1, <1>7, <2>2 DEF QueuesHold, JobHeld
  <2>4. PublicationHeld'
    BY <1>1, <1>7 DEF PublicationHeld
  <2> QED BY <2>3, <2>4 DEF Held
<1>8. ASSUME NEW w \in Workers, Steal(w) PROVE Held'
  BY <1>7, <1>8 DEF Steal
<1>9. ASSUME NEW w \in Workers, Pop(w) PROVE Held'
  <2>1. CASE queue[w] = <<>>
    BY <1>1, <1>2, <1>9, <2>1 DEF Pop
  <2>2. CASE queue[w] # <<>>
    <3>1. queue[w] \in Seq(Topologies) /\ w \in Queues
      BY <1>1
    <3>2. Len(queue[w]) \in 1..Len(queue[w])
      <4>1. Len(queue[w]) \in Nat \ {0}
        BY <2>2, <3>1, EmptySeq
      <4> QED BY <4>1
    <3>3. queue' = [queue EXCEPT ![w] = Without(@, Len(queue[w]))]
      BY <1>9, <2>2, <3>1, WithoutLast DEF Pop
    <3> QED BY <1>7, <1>9, <2>2, <3>1, <3>2, <3>3 DEF Pop
  <2> QED BY <2>1, <2>2
<1>10. ASSUME NEW w \in Workers, Finish(w) PROVE Held'
  <2>1. /\ pc[w] = "run" /\ pc' = [pc EXCEPT ![w] = IF slots[job[w]] = 1 THEN "complete" ELSE "pop"]
        /\ job' = [job EXCEPT ![w] = Nil] /\ UNCHANGED <<queue, out>>
    BY <1>10 DEF Finish
  <2>2. QueuesHold' /\ JobHeld'
    BY <1>1, <2>1 DEF QueuesHold, JobHeld
  <2>3. PublicationHeld'
    BY <1>1, <2>1 DEF PublicationHeld
  <2> QED BY <2>2, <2>3 DEF Held
<1>11. ASSUME NEW w \in Workers, Decrement(w) \/ WakeMain(w) PROVE Held'
  BY <1>1, <1>2, <1>11 DEF Decrement, WakeMain
<1>12. ASSUME NEW w \in Workers, ExitExploring(w) \/ PrepareWait(w) \/ Scan(w) \/ ScanDone(w)
                                 \/ CancelWait(w) \/ CommitWait(w) \/ Wake(w)
       PROVE  Held'
  <2>1. /\ UNCHANGED <<queue, job, out>>
        /\ pc[w] \in Looking /\ pc'[w] \in Looking /\ \A t \in Threads \ {w} : pc'[t] = pc[t]
    BY <1>1, <1>12
       DEF ExitExploring, PrepareWait, Scan, ScanDone, CancelWait, CommitWait, Wake, Looking
  <2>2. {"run", "push", "notify"} \cap Looking = {}
    BY DEF Looking
  <2> QED BY <1>1, <1>2, <2>1, <2>2
<1>13. ASSUME \/ Shutdown /\ UNCHANGED <<queue, pc, job, out, quota, unscanned, topoVars, num_topologies>>
              \/ MainRuns
       PROVE  Held'
  BY <1>2, <1>13 DEF MainRuns
<1> QED BY <1>3, <1>4, <1>5, <1>6, <1>8, <1>9, <1>10, <1>11, <1>12, <1>13
        DEF Next, PublisherRuns, WorkerRuns

\* The slots of a topology stay what its Works in queues, on workers and about
\* to be published add up to.
LEMMA SlotsStep ==
  ASSUME Types, Held, CounterTypes, LiveHolds, PartsFinite, SlotsConserved, Next
  PROVE  PartsFinite' /\ SlotsConserved'
<1> USE DEF Goto
<1>1. /\ pc \in [Threads -> States] /\ Workers \subseteq Threads /\ Workers \subseteq Queues
      /\ queue \in [Queues -> Seq(Topologies)] /\ slots \in [Topologies -> Nat]
      /\ QueuesHold /\ JobHeld /\ PublicationHeld /\ Nil \notin Topologies
  BY SchedulerAssumption DEF Types, Threads, Queues, Held, QueuesHold, CounterTypes
<1> DEFINE Q(k) == Cardinality(Queued(k))
           R(k) == Cardinality(Running(k))
           P(k) == Cardinality(Publishing(k))
           Finite(k) == /\ IsFiniteSet(Queued(k)) /\ IsFiniteSet(Running(k))
                        /\ IsFiniteSet(Publishing(k))
           Kept(k) == Finite(k)' /\ slots'[k] = Q(k)' + R(k)' + P(k)'
<1>2. ASSUME NEW k \in Topologies
      PROVE  /\ Q(k) \in Nat /\ R(k) \in Nat /\ P(k) \in Nat
             /\ slots[k] = Q(k) + R(k) + P(k) /\ Finite(k)
  BY FS_CardinalityType DEF PartsFinite, SlotsConserved
<1>3. (\A k \in Topologies : Kept(k)) => PartsFinite' /\ SlotsConserved'
  BY DEF PartsFinite, SlotsConserved
<1>4. ASSUME UNCHANGED queue, NEW k \in Topologies PROVE Queued(k)' = Queued(k)
  BY <1>4 DEF Queued, Places, Family
<1>5. ASSUME UNCHANGED job, NEW k \in Topologies PROVE Running(k)' = Running(k)
  BY <1>5 DEF Running
<1>6. ASSUME UNCHANGED out, NEW k \in Topologies PROVE Publishing(k)' = Publishing(k)
  BY <1>6 DEF Publishing, ToPublish
<1>7. ASSUME UNCHANGED <<queue, job, out, slots>> PROVE PartsFinite' /\ SlotsConserved'
  <2>1. ASSUME NEW k \in Topologies PROVE Kept(k)
    BY <1>2, <1>4, <1>5, <1>6, <1>7
  <2> QED BY <1>3, <2>1
<1>8. ASSUME NEW t \in Threads, NEW x \in Topologies, NEW n \in Nat, pc[t] # "push",
             out' = [out EXCEPT ![t] = [topology |-> x, left |-> n]],
             slots' = [slots EXCEPT ![x] = @ + n], UNCHANGED <<queue, job>>
      PROVE  PartsFinite' /\ SlotsConserved'
  <2>1. out[t] = Nothing
    BY <1>1, <1>8 DEF PublicationHeld
  <2>2. ASSUME NEW k \in Topologies PROVE Kept(k)
    <3>1. IsFiniteSet(Publishing(k)') /\ P(k)' = P(k) + IF x = k THEN n ELSE 0
      BY <1>2, <1>8, <2>1, PublishingStart
    <3>2. Q(k)' = Q(k) /\ R(k)' = R(k) /\ IsFiniteSet(Queued(k)') /\ IsFiniteSet(Running(k)')
      BY <1>2, <1>4, <1>5, <1>8
    <3>3. slots'[k] = slots[k] + IF x = k THEN n ELSE 0
      BY <1>1, <1>8
    <3> HIDE DEF Q, R, P
    <3>4. slots'[k] = Q(k)' + R(k)' + P(k)'
      BY <1>2, <3>1, <3>2, <3>3
    <3> QED BY <3>1, <3>2, <3>4
  <2> QED BY <1>3, <2>2
<1>9. ASSUME NEW t \in Threads, Submit(t) PROVE PartsFinite' /\ SlotsConserved'
  <2>1. PICK k \in Topologies : /\ status[k] = "new" /\ slots' = [slots EXCEPT ![k] = 1]
                                /\ Publish(t, IF t \in Workers THEN "run" ELSE "idle", k, 1)
    BY <1>9 DEF Submit
  <2>2. slots[k] = 0 /\ pc[t] # "push"
    BY <2>1 DEF LiveHolds, Publish
  <2>3. slots' = [slots EXCEPT ![k] = @ + 1]
    BY <1>1, <2>1, <2>2
  <2>4. out' = [out EXCEPT ![t] = [topology |-> k, left |-> 1]] /\ UNCHANGED <<queue, job>>
    BY <1>9, <2>1 DEF Publish, Submit
  <2>5. 1 \in Nat
    OBVIOUS
  <2> QED BY <1>8, <2>2, <2>3, <2>4, <2>5
<1>10. ASSUME NEW w \in Workers, Continue(w) PROVE PartsFinite' /\ SlotsConserved'
  <2>1. PICK m \in 1..MaxReady :
          /\ slots' = [slots EXCEPT ![job[w]] = @ + m - 1]
          /\ IF m = 1 THEN UNCHANGED <<pc, out, quota>> ELSE Publish(w, "run", job[w], m - 1)
    BY <1>10 DEF Continue
  <2>2. pc[w] = "run" /\ UNCHANGED <<queue, job>> /\ job[w] \in Topologies
    BY <1>1, <1>10 DEF Continue, JobHeld
  <2>3. m - 1 \in Nat /\ m \in Int
    BY SchedulerAssumption
  <2>4. slots' = [slots EXCEPT ![job[w]] = @ + (m - 1)]
    BY <1>1, <2>1, <2>2, <2>3
  <2>5. CASE m = 1
    <3>1. slots' = slots
      BY <1>1, <2>2, <2>4, <2>5
    <3> QED BY <1>7, <2>1, <2>2, <2>5, <3>1
  <2>6. CASE m # 1
    <3>1. out' = [out EXCEPT ![w] = [topology |-> job[w], left |-> m - 1]]
      BY <2>1, <2>6 DEF Publish
    <3> QED BY <1>1, <1>8, <2>2, <2>3, <2>4, <3>1
  <2> QED BY <2>5, <2>6
<1>11. ASSUME NEW t \in Threads, Push(t) PROVE PartsFinite' /\ SlotsConserved'
  <2>1. pc[t] = "push" /\ out' = [out EXCEPT ![t] = Remaining(t)] /\ UNCHANGED <<job, slots>>
    BY <1>11 DEF Push, topoVars
  <2>2. out[t].topology \in Topologies /\ out[t].left >= 1
    BY <1>1, <2>1 DEF PublicationHeld
  <2>3. PICK q \in Targets(t) : queue' = [queue EXCEPT ![q] = Append(@, out[t].topology)]
    BY <1>11 DEF Push
  <2>4. q \in Queues
    BY <2>3 DEF Targets, Queues
  <2>5. ASSUME NEW k \in Topologies PROVE Kept(k)
    <3> DEFINE d == IF out[t].topology = k THEN 1 ELSE 0
    <3>1. IsFiniteSet(Queued(k)') /\ Q(k)' = Q(k) + d
      BY <1>1, <1>2, <2>2, <2>3, <2>4, QueuedPush
    <3>2. IsFiniteSet(Publishing(k)') /\ P(k)' = P(k) - d
      BY <1>2, <2>1, <2>2, PublishingOne
    <3>3. R(k)' = R(k) /\ IsFiniteSet(Running(k)') /\ slots'[k] = slots[k]
      BY <1>2, <1>5, <2>1
    <3>4. d \in Nat
      OBVIOUS
    <3> HIDE DEF Q, R, P, d
    <3>5. slots'[k] = Q(k)' + R(k)' + P(k)'
      BY <1>2, <3>1, <3>2, <3>3, <3>4
    <3> QED BY <3>1, <3>2, <3>3, <3>5
  <2> QED BY <1>3, <2>5
<1>12. ASSUME NEW w \in Workers, NEW q \in Queues, NEW i \in 1..Len(queue[q]),
              pc[w] \in {"pop", "explore"}, job' = [job EXCEPT ![w] = queue[q][i]],
              queue' = [queue EXCEPT ![q] = Without(@, i)], UNCHANGED <<out, slots>>
       PROVE  PartsFinite' /\ SlotsConserved'
  <2>1. job[w] \notin Topologies
    BY <1>1, <1>12 DEF JobHeld
  <2>2. ASSUME NEW k \in Topologies PROVE Kept(k)
    <3> DEFINE d == IF queue[q][i] = k THEN 1 ELSE 0
    <3>1. IsFiniteSet(Queued(k)') /\ Q(k)' = Q(k) - d
      BY <1>1, <1>2, <1>12, QueuedTake
    <3>2. IsFiniteSet(Running(k)') /\ R(k)' = R(k) + d
      BY <1>2, <1>12, <2>1, RunningTake
    <3>3. P(k)' = P(k) /\ IsFiniteSet(Publishing(k)') /\ slots'[k] = slots[k]
      BY <1>2, <1>6, <1>12
    <3>4. d \in Nat
      OBVIOUS
    <3> HIDE DEF Q, R, P, d
    <3>5. slots'[k] = Q(k)' + R(k)' + P(k)'
      BY <1>2, <3>1, <3>2, <3>3, <3>4
    <3> QED BY <3>1, <3>2, <3>3, <3>5
  <2> QED BY <1>3, <2>2
<1>13. ASSUME NEW w \in Workers, Steal(w) PROVE PartsFinite' /\ SlotsConserved'
  BY <1>12, <1>13 DEF Steal, topoVars
<1>14. ASSUME NEW w \in Workers, Pop(w) PROVE PartsFinite' /\ SlotsConserved'
  <2>1. CASE queue[w] = <<>>
    BY <1>7, <1>14, <2>1 DEF Pop, topoVars
  <2>2. CASE queue[w] # <<>>
    <3>1. queue[w] \in Seq(Topologies) /\ w \in Queues
      BY <1>1
    <3>2. Len(queue[w]) \in 1..Len(queue[w])
      <4>1. Len(queue[w]) \in Nat \ {0}
        BY <2>2, <3>1, EmptySeq
      <4> QED BY <4>1
    <3>3. queue' = [queue EXCEPT ![w] = Without(@, Len(queue[w]))]
      BY <1>14, <2>2, <3>1, WithoutLast DEF Pop
    <3> QED BY <1>12, <1>14, <2>2, <3>1, <3>2, <3>3 DEF Pop, topoVars
  <2> QED BY <2>1, <2>2
<1>15. ASSUME NEW w \in Workers, Finish(w) PROVE PartsFinite' /\ SlotsConserved'
  <2>1. /\ pc[w] = "run" /\ slots' = [slots EXCEPT ![job[w]] = @ - 1]
        /\ job' = [job EXCEPT ![w] = Nil] /\ UNCHANGED <<queue, out>>
    BY <1>15 DEF Finish
  <2>2. job[w] \in Topologies
    BY <1>1, <2>1 DEF JobHeld
  <2>3. ASSUME NEW k \in Topologies PROVE Kept(k)
    <3> DEFINE d == IF job[w] = k THEN 1 ELSE 0
    <3>1. IsFiniteSet(Running(k)') /\ R(k)' = R(k) - d
      BY <1>2, <2>1, RunningDrop
    <3>2. /\ Q(k)' = Q(k) /\ IsFiniteSet(Queued(k)')
          /\ P(k)' = P(k) /\ IsFiniteSet(Publishing(k)')
      BY <1>2, <1>4, <1>6, <2>1
    <3>3. slots'[k] = slots[k] - d
      BY <1>1, <2>1, <2>2
    <3>4. d \in Nat
      OBVIOUS
    <3> HIDE DEF Q, R, P, d
    <3>5. slots'[k] = Q(k)' + R(k)' + P(k)'
      BY <1>2, <3>1, <3>2, <3>3, <3>4
    <3> QED BY <3>1, <3>2, <3>5
  <2> QED BY <1>3, <2>3
<1>16. ASSUME NEW w \in Workers, Decrement(w) \/ WakeMain(w) PROVE PartsFinite' /\ SlotsConserved'
  BY <1>7, <1>16 DEF Decrement, WakeMain, topoVars
<1>17. ASSUME NEW w \in Workers, ExitExploring(w) \/ PrepareWait(w) \/ Scan(w) \/ ScanDone(w)
                                 \/ CancelWait(w) \/ CommitWait(w) \/ Wake(w)
       PROVE  PartsFinite' /\ SlotsConserved'
  BY <1>7, <1>17 DEF ExitExploring, PrepareWait, Scan, ScanDone, CancelWait, CommitWait, Wake, topoVars
<1>18. ASSUME NEW t \in Threads, Notify(t) PROVE PartsFinite' /\ SlotsConserved'
  BY <1>7, <1>18 DEF Notify, topoVars
<1>19. ASSUME \/ Shutdown /\ UNCHANGED <<queue, pc, job, out, quota, unscanned, topoVars, num_topologies>>
              \/ MainRuns
       PROVE  PartsFinite' /\ SlotsConserved'
  BY <1>7, <1>19 DEF MainRuns, topoVars
<1> QED BY <1>9, <1>10, <1>11, <1>13, <1>14, <1>15, <1>16, <1>17, <1>18, <1>19
        DEF Next, PublisherRuns, WorkerRuns

\* A topology lives from its submission until its last slot is given back.
LEMMA LiveStep ==
  ASSUME Types, Held, CounterTypes, LiveHolds, PartsFinite, SlotsConserved, Next
  PROVE  /\ slots' \in [Topologies -> Nat] /\ works' \in [Topologies -> Nat]
         /\ status' \in [Topologies -> {"new", "live", "done"}] /\ LiveHolds'
<1> DEFINE Goal == /\ slots' \in [Topologies -> Nat] /\ works' \in [Topologies -> Nat]
                   /\ status' \in [Topologies -> {"new", "live", "done"}] /\ LiveHolds'
<1>1. /\ slots \in [Topologies -> Nat] /\ works \in [Topologies -> Nat]
      /\ status \in [Topologies -> {"new", "live", "done"}]
      /\ \A k \in Topologies : slots[k] = 0 <=> status[k] # "live"
      /\ \A w \in Workers : pc[w] = "run" =>
           job[w] \in Topologies /\ slots[job[w]] >= 1 /\ status[job[w]] = "live"
  BY JobLives DEF CounterTypes, LiveHolds, Held, JobHeld
<1>2. ASSUME UNCHANGED topoVars PROVE Goal
  BY <1>1, <1>2 DEF topoVars, LiveHolds
<1>3. ASSUME NEW t \in Threads, Submit(t) PROVE Goal
  BY <1>1, <1>3 DEF Submit, LiveHolds
<1>4. ASSUME NEW w \in Workers, Continue(w) PROVE Goal
  <2>1. PICK m \in 1..MaxReady : /\ works' = [works EXCEPT ![job[w]] = @ + m]
                                 /\ slots' = [slots EXCEPT ![job[w]] = @ + m - 1]
    BY <1>4 DEF Continue
  <2>2. m \in Nat /\ m >= 1 /\ pc[w] = "run" /\ UNCHANGED status
    BY <1>4, SchedulerAssumption DEF Continue
  <2>3. /\ slots' \in [Topologies -> Nat] /\ works' \in [Topologies -> Nat]
        /\ slots'[job[w]] >= 1 /\ \A k \in Topologies \ {job[w]} : slots'[k] = slots[k]
    BY <1>1, <2>1, <2>2
  <2> QED BY <1>1, <2>2, <2>3 DEF LiveHolds
<1>5. ASSUME NEW w \in Workers, Finish(w) PROVE Goal
  <2>1. /\ pc[w] = "run" /\ slots' = [slots EXCEPT ![job[w]] = @ - 1] /\ UNCHANGED works
        /\ status' = [status EXCEPT ![job[w]] = IF slots[job[w]] = 1 THEN "done" ELSE @]
    BY <1>5 DEF Finish, Goto
  <2>2. /\ slots' \in [Topologies -> Nat] /\ slots'[job[w]] = slots[job[w]] - 1
        /\ \A k \in Topologies \ {job[w]} : slots'[k] = slots[k] /\ status'[k] = status[k]
    BY <1>1, <2>1
  <2> QED BY <1>1, <2>1, <2>2 DEF LiveHolds
<1>6. ASSUME NEW t \in Threads, Push(t) \/ Notify(t) PROVE Goal
  BY <1>2, <1>6 DEF Push, Notify
<1>7. ASSUME NEW w \in Workers, Steal(w) \/ Decrement(w) \/ WakeMain(w) \/ Pop(w) PROVE Goal
  BY <1>2, <1>7 DEF Steal, Decrement, WakeMain, Pop
<1>8. ASSUME NEW w \in Workers, ExitExploring(w) \/ PrepareWait(w) \/ Scan(w) \/ ScanDone(w)
                                \/ CancelWait(w) \/ CommitWait(w) \/ Wake(w)
      PROVE  Goal
  BY <1>2, <1>8 DEF ExitExploring, PrepareWait, Scan, ScanDone, CancelWait, CommitWait, Wake
<1>9. ASSUME \/ Shutdown /\ UNCHANGED <<queue, pc, job, out, quota, unscanned, topoVars, num_topologies>>
             \/ MainRuns
      PROVE  Goal
  BY <1>2, <1>9 DEF MainRuns
<1> HIDE DEF Goal
<1>10. Goal
  BY <1>3, <1>4, <1>5, <1>6, <1>7, <1>8, <1>9 DEF Next, PublisherRuns, WorkerRuns
<1> QED BY <1>10 DEF Goal

Live == {k \in Topologies : status[k] = "live"}

Completing == {w \in Workers : pc[w] = "complete"}

\* Both are finite, and the topology counter adds them up.
LEMMA CountsFinite ==
  /\ IsFiniteSet(Live) /\ Cardinality(Live) \in Nat
  /\ IsFiniteSet(Completing) /\ Cardinality(Completing) \in Nat
<1>1. Live \subseteq Topologies /\ Completing \subseteq Workers
  BY DEF Live, Completing
<1>2. IsFiniteSet(Live) /\ IsFiniteSet(Completing)
  BY <1>1, SchedulerAssumption, FS_Subset
<1> QED BY <1>2, FS_CardinalityType

\* The topology counter changes with the topologies it counts.
LEMMA TopologiesStep ==
  ASSUME Types, Held, CounterTypes, LiveHolds, PartsFinite, SlotsConserved, TopologiesCounted, Next
  PROVE  TopologiesCounted' /\ num_topologies' \in Nat
<1> USE DEF Goto
<1>1. /\ pc \in [Threads -> States] /\ Workers \subseteq Threads
      /\ status \in [Topologies -> {"new", "live", "done"}]
      /\ num_topologies = Cardinality(Live) + Cardinality(Completing) /\ num_topologies \in Nat
      /\ \A w \in Workers : pc[w] = "run" => job[w] \in Topologies /\ status[job[w]] = "live"
  BY JobLives DEF Types, Threads, CounterTypes, TopologiesCounted, Live, Completing, Held, JobHeld
<1>2. TopologiesCounted' <=> num_topologies' = Cardinality(Live') + Cardinality(Completing')
  BY DEF TopologiesCounted, Live, Completing
<1>3. ASSUME UNCHANGED <<status, num_topologies>>,
             \A w \in Workers : pc[w] = "complete" <=> pc'[w] = "complete"
      PROVE  TopologiesCounted' /\ num_topologies' \in Nat
  <2>1. Live' = Live
    BY <1>3 DEF Live
  <2>2. Completing' = Completing
    BY <1>3 DEF Completing
  <2> QED BY <1>1, <1>2, <1>3, <2>1, <2>2
<1>4. ASSUME NEW t \in Threads, Submit(t) PROVE TopologiesCounted' /\ num_topologies' \in Nat
  <2>1. PICK k \in Topologies : /\ status[k] = "new" /\ status' = [status EXCEPT ![k] = "live"]
                                /\ Publish(t, IF t \in Workers THEN "run" ELSE "idle", k, 1)
    BY <1>4 DEF Submit
  <2>2. Live' = Live \cup {k} /\ k \notin Live
    BY <1>1, <2>1 DEF Live
  <2>3. Completing' = Completing
    BY <1>1, <2>1 DEF Completing, Publish
  <2>4. Cardinality(Live') = Cardinality(Live) + 1
    BY <2>2, CountsFinite, FS_AddElement
  <2> QED BY <1>1, <1>2, <1>4, <2>3, <2>4, CountsFinite DEF Submit
<1>5. ASSUME NEW w \in Workers, Finish(w) PROVE TopologiesCounted' /\ num_topologies' \in Nat
  <2> DEFINE k == job[w]
  <2>1. /\ pc[w] = "run" /\ pc' = [pc EXCEPT ![w] = IF slots[k] = 1 THEN "complete" ELSE "pop"]
        /\ status' = [status EXCEPT ![k] = IF slots[k] = 1 THEN "done" ELSE @]
        /\ UNCHANGED num_topologies
    BY <1>5 DEF Finish
  <2>2. CASE slots[k] = 1
    <3>1. Live' = Live \ {k} /\ k \in Live
      BY <1>1, <2>1, <2>2 DEF Live
    <3>2. Completing' = Completing \cup {w} /\ w \notin Completing
      BY <1>1, <2>1, <2>2 DEF Completing
    <3>3. Cardinality(Live') = Cardinality(Live) - 1
      BY <3>1, CountsFinite, FS_RemoveElement
    <3>4. Cardinality(Completing') = Cardinality(Completing) + 1
      BY <3>2, CountsFinite, FS_AddElement
    <3> QED BY <1>1, <1>2, <2>1, <3>3, <3>4, CountsFinite
  <2>3. CASE slots[k] # 1
    <3>1. status' = status
      BY <1>1, <2>1, <2>3
    <3> QED BY <1>1, <1>3, <2>1, <2>3, <3>1
  <2> QED BY <2>2, <2>3
<1>6. ASSUME NEW w \in Workers, Decrement(w) PROVE TopologiesCounted' /\ num_topologies' \in Nat
  <2>1. /\ pc[w] = "complete" /\ num_topologies' = num_topologies - 1 /\ status' = status
        /\ pc' = [pc EXCEPT ![w] = IF num_topologies = 1 THEN "wakeMain" ELSE "pop"]
    BY <1>6 DEF Decrement, topoVars
  <2>2. Live' = Live
    BY <2>1 DEF Live
  <2>3. Completing' = Completing \ {w} /\ w \in Completing
    BY <1>1, <2>1 DEF Completing
  <2>4. Cardinality(Completing') = Cardinality(Completing) - 1 /\ Cardinality(Completing) # 0
    BY <2>3, CountsFinite, FS_RemoveElement, FS_EmptySet
  <2> QED BY <1>1, <1>2, <2>1, <2>2, <2>4, CountsFinite
<1>7. ASSUME NEW t \in Threads, Push(t) \/ Notify(t)
      PROVE  TopologiesCounted' /\ num_topologies' \in Nat
  BY <1>1, <1>3, <1>7 DEF Push, Notify, topoVars
<1>8. ASSUME NEW w \in Workers, Continue(w) PROVE TopologiesCounted' /\ num_topologies' \in Nat
  <2>1. PICK m \in 1..MaxReady :
          IF m = 1 THEN UNCHANGED <<pc, out, quota>> ELSE Publish(w, "run", job[w], m - 1)
    BY <1>8 DEF Continue
  <2> QED BY <1>1, <1>3, <1>8, <2>1 DEF Continue, Publish
<1>9. ASSUME NEW w \in Workers, Steal(w) \/ WakeMain(w) \/ Pop(w)
      PROVE  TopologiesCounted' /\ num_topologies' \in Nat
  BY <1>1, <1>3, <1>9 DEF Steal, WakeMain, Pop, topoVars
<1>10. ASSUME NEW w \in Workers, ExitExploring(w) \/ PrepareWait(w) \/ Scan(w) \/ ScanDone(w)
                                 \/ CancelWait(w) \/ CommitWait(w) \/ Wake(w)
       PROVE  TopologiesCounted' /\ num_topologies' \in Nat
  BY <1>1, <1>3, <1>10
     DEF ExitExploring, PrepareWait, Scan, ScanDone, CancelWait, CommitWait, Wake, topoVars
<1>11. ASSUME \/ Shutdown /\ UNCHANGED <<queue, pc, job, out, quota, unscanned, topoVars, num_topologies>>
              \/ MainRuns
       PROVE  TopologiesCounted' /\ num_topologies' \in Nat
  BY <1>3, <1>11 DEF MainRuns, topoVars
<1> QED BY <1>4, <1>5, <1>6, <1>7, <1>8, <1>9, <1>10, <1>11 DEF Next, PublisherRuns, WorkerRuns

\* Once wait_for_all has returned nobody submits and nothing is left to count.
LEMMA AllDoneStep ==
  ASSUME Types, Held, CounterTypes, LiveHolds, PartsFinite, SlotsConserved, TopologiesCounted,
         AllDone, Next
  PROVE  AllDone' /\ main' \in {"idle", "waitAll", "blocked", "terminate", "join", "joined"}
<1> DEFINE Goal == /\ AllDone'
                   /\ main' \in {"idle", "waitAll", "blocked", "terminate", "join", "joined"}
<1>1. main \in {"idle", "waitAll", "blocked", "terminate", "join", "joined"}
  BY DEF CounterTypes
<1>2. ASSUME UNCHANGED <<main, num_topologies>> PROVE Goal
  BY <1>1, <1>2 DEF AllDone
<1>3. num_topologies = Cardinality(Live) + Cardinality(Completing)
  BY DEF TopologiesCounted, Live, Completing
<1>4. ASSUME NEW t \in Threads, Submit(t) PROVE Goal
  <2>1. UNCHANGED main /\ (main = "idle" \/ t \in Workers)
    BY <1>4 DEF Submit
  <2>2. CASE main = "idle"
    BY <2>1, <2>2 DEF AllDone
  <2>3. CASE t \in Workers
    <3>1. pc[t] = "run"
      BY <1>4, <2>3 DEF Submit, Publish, Goto
    <3>2. job[t] \in Topologies
      BY <2>3, <3>1 DEF Held, JobHeld
    <3>3. job[t] \in Live
      BY <2>3, <3>2, JobLives DEF Live
    <3>4. Cardinality(Live) # 0
      BY <3>3, CountsFinite, FS_EmptySet
    <3>5. num_topologies # 0
      BY <1>3, <3>4, CountsFinite
    <3> QED BY <1>1, <2>1, <3>5 DEF AllDone
  <2> QED BY <2>1, <2>2, <2>3
<1>5. ASSUME NEW w \in Workers, Decrement(w) PROVE Goal
  <2>1. pc[w] = "complete" /\ UNCHANGED main
    BY <1>5 DEF Decrement, Goto
  <2>2. w \in Completing
    BY <2>1 DEF Completing
  <2>3. Cardinality(Completing) # 0
    BY <2>2, CountsFinite, FS_EmptySet
  <2>4. num_topologies # 0
    BY <1>3, <2>3, CountsFinite
  <2> QED BY <1>1, <2>1, <2>4 DEF AllDone
<1>6. ASSUME NEW w \in Workers, WakeMain(w) PROVE Goal
  BY <1>1, <1>6 DEF WakeMain, AllDone
<1>7. ASSUME NEW t \in Threads, Push(t) \/ Notify(t) PROVE Goal
  BY <1>2, <1>7 DEF Push, Notify
<1>8. ASSUME NEW w \in Workers, Continue(w) \/ Steal(w) \/ Finish(w) \/ Pop(w) PROVE Goal
  BY <1>2, <1>8 DEF Continue, Steal, Finish, Pop
<1>9. ASSUME NEW w \in Workers, ExitExploring(w) \/ PrepareWait(w) \/ Scan(w) \/ ScanDone(w)
                                \/ CancelWait(w) \/ CommitWait(w) \/ Wake(w)
      PROVE  Goal
  BY <1>2, <1>9 DEF ExitExploring, PrepareWait, Scan, ScanDone, CancelWait, CommitWait, Wake
<1>10. ASSUME Shutdown, UNCHANGED num_topologies PROVE Goal
  BY <1>10 DEF Shutdown, AllDone
<1>11. ASSUME MainRuns PROVE Goal
  BY <1>11 DEF MainRuns, WaitForAll, SetTerminate, NotifyTerminate, Join, AllDone
<1> QED BY <1>4, <1>5, <1>6, <1>7, <1>8, <1>9, <1>10, <1>11 DEF Next, PublisherRuns, WorkerRuns

\* A notification is counted down to zero and not below.
LEMMA QuotaNatStep ==
  ASSUME Types, QuotaLeft, CounterTypes, Next
  PROVE  quota' \in [Threads -> Nat]
<1>1. quota \in [Threads -> Nat] /\ Workers \subseteq Threads
  BY DEF CounterTypes, Threads
<1>2. ASSUME UNCHANGED quota PROVE quota' \in [Threads -> Nat]
  BY <1>1, <1>2
<1>3. ASSUME NEW t \in Threads, Submit(t) PROVE quota' \in [Threads -> Nat]
  BY <1>1, <1>3 DEF Submit, Publish
<1>4. ASSUME NEW t \in Threads, Notify(t) PROVE quota' \in [Threads -> Nat]
  <2>1. quota[t] \in Nat /\ quota[t] >= 1
    BY <1>1, <1>4 DEF Notify, QuotaLeft
  <2>2. Len(tickets) \in Nat
    BY LenProperties DEF Types
  <2>3. CASE quota' = [quota EXCEPT ![t] = 0]
    BY <1>1, <2>3
  <2>4. CASE quota' = [quota EXCEPT ![t] = IF @ < Len(tickets) THEN 0 ELSE @ - Len(tickets)]
    BY <1>1, <2>1, <2>2, <2>4
  <2>5. CASE quota' = [quota EXCEPT ![t] = @ - 1]
    BY <1>1, <2>1, <2>5
  <2> QED BY <1>4, <2>3, <2>4, <2>5 DEF Notify
<1>5. ASSUME NEW w \in Workers, Continue(w) PROVE quota' \in [Threads -> Nat]
  <2>1. PICK m \in 1..MaxReady :
          IF m = 1 THEN UNCHANGED <<pc, out, quota>> ELSE Publish(w, "run", job[w], m - 1)
    BY <1>5 DEF Continue
  <2>2. m - 1 \in Nat
    BY SchedulerAssumption
  <2> QED BY <1>1, <2>1, <2>2 DEF Publish
<1>6. ASSUME NEW t \in Threads, Push(t) PROVE quota' \in [Threads -> Nat]
  BY <1>2, <1>6 DEF Push
<1>7. ASSUME NEW w \in Workers, Steal(w) \/ Finish(w) \/ Decrement(w) \/ WakeMain(w) \/ Pop(w)
      PROVE  quota' \in [Threads -> Nat]
  BY <1>2, <1>7 DEF Steal, Finish, Decrement, WakeMain, Pop
<1>8. ASSUME NEW w \in Workers, ExitExploring(w) \/ PrepareWait(w) \/ Scan(w) \/ ScanDone(w)
                                \/ CancelWait(w) \/ CommitWait(w) \/ Wake(w)
      PROVE  quota' \in [Threads -> Nat]
  BY <1>2, <1>8 DEF ExitExploring, PrepareWait, Scan, ScanDone, CancelWait, CommitWait, Wake
<1>9. ASSUME \/ Shutdown /\ UNCHANGED <<queue, pc, job, out, quota, unscanned, topoVars, num_topologies>>
             \/ MainRuns
      PROVE  quota' \in [Threads -> Nat]
  BY <1>2, <1>9 DEF MainRuns
<1> QED BY <1>3, <1>4, <1>5, <1>6, <1>7, <1>8, <1>9 DEF Next, PublisherRuns, WorkerRuns

-----------------------------------------------------------------------------
(* The theorems.                                                           *)

\* The executor starts with nothing to count.
LEMMA InitCInv == Init => CInv
<1> SUFFICES ASSUME Init PROVE CInv
  OBVIOUS
<1>1. IInv
  BY InitIInv
<1>2. Held
  <2>1. <<>> \in Seq(Topologies)
    BY EmptySeq
  <2>2. QueuesHold
    BY <2>1 DEF Init, QueuesHold
  <2>3. JobHeld /\ PublicationHeld
    BY SchedulerAssumption DEF Init, JobHeld, PublicationHeld, Threads
  <2> QED BY <2>2, <2>3 DEF Held
<1>3. CounterTypes /\ LiveHolds /\ AllDone
  BY DEF Init, CounterTypes, LiveHolds, AllDone
<1>4. ASSUME NEW k \in Topologies
      PROVE  /\ IsFiniteSet(Queued(k)) /\ Cardinality(Queued(k)) = 0
             /\ IsFiniteSet(Running(k)) /\ Cardinality(Running(k)) = 0
             /\ IsFiniteSet(Publishing(k)) /\ Cardinality(Publishing(k)) = 0
  <2>1. IsFiniteSet(Queued(k)) /\ Cardinality(Queued(k)) = 0
    BY PlacesEmpty DEF Init, Queued
  <2>2. Running(k) = {}
    BY SchedulerAssumption DEF Init, Running
  <2>3. \A t \in Threads : ToPublish(k)[t] = 0
    BY SchedulerAssumption DEF Init, ToPublish, Nothing
  <2>4. IsFiniteSet(Publishing(k)) /\ Cardinality(Publishing(k)) = 0
    BY <2>3, UnitsEmpty DEF Publishing
  <2> QED BY <2>1, <2>2, <2>4, FS_EmptySet
<1>5. PartsFinite /\ SlotsConserved
  <2>1. slots = [k \in Topologies |-> 0]
    BY DEF Init
  <2> QED BY <1>4, <2>1 DEF PartsFinite, SlotsConserved
<1>6. TopologiesCounted
  <2>1. Live = {} /\ Completing = {}
    BY DEF Init, Live, Completing, Threads
  <2>2. Cardinality(Live) = 0 /\ Cardinality(Completing) = 0 /\ num_topologies = 0
    BY <2>1, FS_EmptySet DEF Init
  <2> QED BY <2>2 DEF TopologiesCounted, Live, Completing
<1> QED BY <1>1, <1>2, <1>3, <1>5, <1>6 DEF CInv

\* Every step of the executor preserves the invariant.
LEMMA NextCInv == CInv /\ [Next]_vars => CInv'
<1> SUFFICES ASSUME CInv, [Next]_vars PROVE CInv'
  OBVIOUS
<1>1. IInv'
  BY NextIInv DEF CInv
<1>2. CASE Next
  <2>1. Types /\ QuotaLeft
    BY DEF CInv, IInv
  <2>2. Held' /\ PartsFinite' /\ SlotsConserved'
    BY <1>2, <2>1, HeldStep, SlotsStep DEF CInv
  <2>3. CounterTypes' /\ LiveHolds' /\ TopologiesCounted' /\ AllDone'
    BY <1>2, <2>1, LiveStep, TopologiesStep, AllDoneStep, QuotaNatStep DEF CInv, CounterTypes
  <2> QED BY <1>1, <2>2, <2>3 DEF CInv
<1>3. CASE UNCHANGED vars
  <2>1. Held' /\ CounterTypes' /\ LiveHolds' /\ AllDone'
    BY <1>3 DEF vars, topoVars, CInv, Held, QueuesHold, JobHeld, PublicationHeld, CounterTypes,
                LiveHolds, AllDone
  <2>2. ASSUME NEW k \in Topologies
        PROVE  /\ Queued(k)' = Queued(k) /\ Running(k)' = Running(k)
               /\ Publishing(k)' = Publishing(k)
    <3>1. queue' = queue /\ job' = job /\ out' = out
      BY <1>3 DEF vars
    <3> QED BY <3>1 DEF Queued, Places, Family, Running, Publishing, ToPublish
  <2>3. slots' = slots /\ status' = status /\ pc' = pc /\ num_topologies' = num_topologies
    BY <1>3 DEF vars, topoVars
  <2>4. PartsFinite'
    BY <2>2 DEF CInv, PartsFinite
  <2>5. SlotsConserved'
    BY <2>2, <2>3 DEF CInv, SlotsConserved
  <2>6. TopologiesCounted'
    BY <2>3 DEF CInv, TopologiesCounted
  <2> QED BY <1>1, <2>1, <2>4, <2>5, <2>6 DEF CInv
<1> QED BY <1>2, <1>3

\* The invariant holds in every reachable state.
LEMMA CountingInvariant == Spec => []CInv
  BY InitCInv, NextCInv, PTL DEF Spec

\* The join slots of a topology are exactly its Works in queues, on workers and
\* about to be published, and m_num_topologies is exactly the number of
\* topologies that have not reported their end (executor.hpp).
THEOREM CountersAreExact == Spec => []CountersExact
<1>1. CInv => CountersExact
  <2> SUFFICES ASSUME CInv PROVE TypeOK
    BY DEF CInv, CountersExact
  <2> USE DEF CInv, IInv, Types, Held, CounterTypes, QueuesHold
  <2>1. out \in [Threads -> [topology : Topologies \cup {Nil}, left : Nat]]
    <3>1. out \in [Threads -> [topology : Topologies \cup {Nil}, left : Int]]
      OBVIOUS
    <3>2. ASSUME NEW t \in Threads PROVE out[t].left \in Nat
      <4>1. out[t].left \in Int
        BY <3>1
      <4>2. CASE pc[t] = "push"
        BY <4>1, <4>2 DEF PublicationHeld
      <4>3. CASE pc[t] # "push"
        BY <4>3 DEF PublicationHeld, Nothing
      <4> QED BY <4>2, <4>3
    <3> QED BY <3>1, <3>2
  <2>2. pc \in [Threads -> {"idle", "run", "push", "notify", "complete", "wakeMain", "pop",
                            "explore", "scan", "commit", "cancel", "cancelExit", "asleep", "exit"}]
    BY DEF States, Looking
  <2> QED BY <2>1, <2>2 DEF TypeOK, EC!ECTypeOK
<1> QED BY <1>1, CountingInvariant, PTL

\* wait_for_all returns when everything submitted is done, and a worker exits
\* when no Work is left (executor.hpp, _shutdown).
THEOREM ShutdownCleans == Spec => []ShutdownIsClean
<1>1. CInv => ShutdownIsClean
  <2> SUFFICES ASSUME CInv PROVE ShutdownIsClean
    OBVIOUS
  <2>1. ASSUME main \in {"terminate", "join", "joined"}, NEW k \in Topologies
        PROVE  status[k] # "live"
    <3>1. num_topologies = Cardinality(Live) + Cardinality(Completing) /\ num_topologies = 0
      BY <2>1 DEF CInv, TopologiesCounted, AllDone, Live, Completing
    <3>2. Cardinality(Live) = 0
      BY <3>1, CountsFinite
    <3>3. Live = {}
      BY <3>2, CountsFinite, FS_EmptySet
    <3> QED BY <3>3 DEF Live
  <2>2. ASSUME NEW w \in Workers, pc[w] = "exit", NEW q \in Queues
        PROVE  queue[q] = <<>>
    <3>1. main \in {"terminate", "join", "joined"}
      BY <2>2 DEF CInv, IInv, ExitOnlyTold
    <3>2. queue[q] \in Seq(Topologies)
      BY DEF CInv, Held, QueuesHold
    <3>3. ASSUME queue[q] # <<>> PROVE FALSE
      <4>1. 1 \in 1..Len(queue[q]) /\ queue[q][1] \in Topologies
        <5>1. Len(queue[q]) \in Nat \ {0}
          BY <3>2, <3>3, EmptySeq
        <5> QED BY <3>2, <5>1, ElementOfSeq
      <4>2. <<q, 1>> \in Queued(queue[q][1])
        BY <4>1 DEF Queued, Places, Family, Indices
      <4>3. status[queue[q][1]] = "live"
        BY <4>1, <4>2, SlotHeld DEF CInv
      <4> QED BY <2>1, <3>1, <4>1, <4>3
    <3> QED BY <3>3
  <2> QED BY <2>1, <2>2 DEF ShutdownIsClean
<1> QED BY <1>1, CountingInvariant, PTL

-----------------------------------------------------------------------------
(* The ring buffer.  The inductive invariant: the indices in use fit into  *)
(* the ring, the owner's stores reach memory in an order in which m_bottom *)
(* never runs ahead of the slots, the tasks in the ring have not come out, *)
(* and a thief whose top is still the top holds the first of them.         *)

StoreRecords == [at : Int, val : Int]

QueueTypes == QueueTypeOK /\ stores \in Seq(StoreRecords)

\* The indices in use fit into the ring.
Window == m_top <= End /\ End <= m_top + Cap /\ End <= offered

\* The buffered store that may stand at place k of st: m_bottom never goes past
\* the last task, and a slot is written before m_bottom goes past it and after
\* it has come up to it.
Ordered(st, k, low, top, end) ==
  \/ st[k].at = BottomCell /\ st[k].val \in -1..end
  \/ /\ st[k].at \in top..(end - 1) /\ low <= st[k].at
     /\ st[k].val \in Tasks
     /\ \A j \in 1..(k - 1) :
          IF st[j].at = BottomCell THEN st[j].val <= st[k].at ELSE st[j].at < st[k].at

StoresInOrder ==
  /\ m_bottom <= End
  /\ IF stores = <<>> THEN m_bottom = bottom ELSE stores[Len(stores)] = StoreBottom(bottom)
  /\ opc = "popCas" => stores = <<>> /\ bottom <= m_top
  /\ \A k \in 1..Len(stores) : Ordered(stores, k, m_bottom, m_top, End)

\* The tasks in the ring are distinct and have not been taken.
Untaken(buf, st, top, end, off, tk) ==
  /\ \A i \in top..(end - 1) : Seen(buf, st, i) \in 1..off /\ tk[Seen(buf, st, i)] = 0
  /\ \A i, j \in top..(end - 1) : Seen(buf, st, i) = Seen(buf, st, j) => i = j
  /\ \A v \in Tasks : v > off => tk[v] = 0

Fresh == Untaken(m_buf, stores, m_top, End, offered, taken)

Drained(st, i) == \A k \in 1..Len(st) : st[k].at # i

\* A thief whose top is still the top will take the first task: the slot is in
\* memory, and the value it has read from it is still there.
ThievesAgree ==
  \A t \in Thieves :
    /\ ttop[t] <= m_top
    /\ tpc[t] \in {"read", "cas"} /\ ttop[t] = m_top => m_top < End /\ Drained(stores, m_top)
    /\ tpc[t] = "cas" /\ ttop[t] = m_top => tval[t] = m_buf[Slot(m_top)]

QueueIInv == QueueTypes /\ Window /\ StoresInOrder /\ Fresh /\ ThievesAgree

-----------------------------------------------------------------------------
(* The ring.                                                               *)

\* Indices less than a turn apart have different cells.
LEMMA SlotsDiffer ==
  ASSUME NEW i \in Nat, NEW j \in Nat, i # j, i < j + Cap, j < i + Cap
  PROVE  Slot(i) # Slot(j)
<1>1. Cap \in Nat /\ Cap > 0
  BY QueueAssumption
<1>2. i = Cap * (i \div Cap) + (i % Cap) /\ i \div Cap \in Int /\ i % Cap \in 0..(Cap - 1)
  BY <1>1
<1>3. j = Cap * (j \div Cap) + (j % Cap) /\ j \div Cap \in Int /\ j % Cap \in 0..(Cap - 1)
  BY <1>1
<1> DEFINE q == i \div Cap
           r == j \div Cap
<1>4. ASSUME i % Cap = j % Cap PROVE FALSE
  <2>1. j - i = Cap * (r - q) /\ r - q \in Int
    BY <1>1, <1>2, <1>3, <1>4
  <2> HIDE DEF q, r
  <2>2. CASE r - q = 0
    BY <1>1, <2>1, <2>2
  <2>3. CASE r - q >= 1
    <3>1. Cap * (r - q) >= Cap
      BY <1>1, <2>1, <2>3
    <3> QED BY <1>1, <2>1, <3>1
  <2>4. CASE r - q <= -1
    <3>1. Cap * (r - q) <= -Cap
      BY <1>1, <2>1, <2>4
    <3> QED BY <1>1, <2>1, <3>1
  <2> QED BY <2>1, <2>2, <2>3, <2>4
<1> QED BY <1>4 DEF Slot

\* A slot is a cell of the ring.
LEMMA SlotType == ASSUME NEW i \in Nat PROVE Slot(i) \in 0..(Cap - 1)
BY QueueAssumption DEF Slot

\* Without a buffered store for it, a slot is what is in memory.
LEMMA SeenDrained ==
  ASSUME NEW buf, NEW st \in Seq(StoreRecords), NEW i, Drained(st, i)
  PROVE  Seen(buf, st, i) = buf[Slot(i)]
<1>1. DOMAIN st = 1..Len(st)
  OBVIOUS
<1>2. Pending(st, i) = {}
  BY <1>1 DEF Range, Drained, Pending
<1> QED BY <1>2 DEF Seen

\* With one it is what that stores.
LEMMA SeenPending ==
  ASSUME NEW buf, NEW st \in Seq(StoreRecords), NEW k \in 1..Len(st),
         \A j \in 1..Len(st) : st[j].at = st[k].at => j = k
  PROVE  Seen(buf, st, st[k].at) = st[k].val
<1>1. DOMAIN st = 1..Len(st)
  OBVIOUS
<1>2. Pending(st, st[k].at) = {st[k]}
  BY <1>1 DEF Range, Pending
<1>3. OneOf({st[k]}) = st[k]
  BY DEF OneOf
<1> QED BY <1>2, <1>3 DEF Seen

\* Stores to other cells do not matter.
LEMMA SeenSame ==
  ASSUME NEW buf, NEW new, NEW st, NEW su, NEW i,
         \A s : s.at = i => (s \in Range(st) <=> s \in Range(su)), new[Slot(i)] = buf[Slot(i)]
  PROVE  Seen(new, su, i) = Seen(buf, st, i)
<1>1. Pending(su, i) = Pending(st, i)
  BY DEF Pending
<1> QED BY <1>1 DEF Seen

\* The content is a sequence of tasks.
LEMMA BetweenShape ==
  ASSUME NEW top \in Int, NEW end \in Int, NEW buf, NEW st, top <= end,
         \A i \in top..(end - 1) : Seen(buf, st, i) \in Tasks
  PROVE  /\ Between(buf, st, top, end) \in Seq(Tasks)
         /\ Len(Between(buf, st, top, end)) = end - top
         /\ \A k \in 1..(end - top) : Between(buf, st, top, end)[k] = Seen(buf, st, top + k - 1)
<1>1. end - top \in Nat /\ \A k \in 1..(end - top) : Seen(buf, st, top + k - 1) \in Tasks
  OBVIOUS
<1>2. Between(buf, st, top, end) \in [1..(end - top) -> Tasks]
  BY <1>1 DEF Between
<1> QED BY <1>1, <1>2 DEF Between

\* It depends on the cells only.
LEMMA BetweenSame ==
  ASSUME NEW top \in Int, NEW end \in Int, NEW buf, NEW st, NEW new, NEW su,
         \A i \in top..(end - 1) : Seen(new, su, i) = Seen(buf, st, i)
  PROVE  Between(new, su, top, end) = Between(buf, st, top, end)
<1>1. \A k \in 1..(end - top) : Seen(new, su, top + k - 1) = Seen(buf, st, top + k - 1)
  OBVIOUS
<1> QED BY <1>1 DEF Between

-----------------------------------------------------------------------------
(* Facts that follow from the invariant.                                   *)

LEMMA Facts ==
  ASSUME QueueIInv
  PROVE  /\ Cap \in Nat /\ Cap > 0 /\ MaxTasks \in Nat /\ Tasks = 1..MaxTasks
         /\ m_top \in Nat /\ m_bottom \in Int /\ bottom \in Int /\ End \in Int /\ offered \in Nat
         /\ m_bottom >= -1 /\ bottom >= -1 /\ offered <= MaxTasks
         /\ opc \in {"idle", "popFence", "popCas"} /\ taken \in [Tasks -> 0..1]
         /\ stores \in Seq(StoreRecords) /\ Len(stores) \in Nat
         /\ m_top <= End /\ End <= m_top + Cap /\ End <= offered
<1>1. Cap \in Nat /\ Cap > 0 /\ MaxTasks \in Nat
  BY QueueAssumption
<1>2. /\ m_top \in Nat /\ m_bottom \in Int /\ bottom \in Int /\ offered \in Nat
      /\ m_bottom >= -1 /\ bottom >= -1 /\ offered <= MaxTasks
      /\ opc \in {"idle", "popFence", "popCas"} /\ taken \in [Tasks -> 0..1]
  BY <1>1 DEF QueueIInv, QueueTypes, QueueTypeOK
<1>3. End \in Int
  BY <1>2 DEF End
<1>4. stores \in Seq(StoreRecords) /\ Len(stores) \in Nat
  BY LenProperties DEF QueueIInv, QueueTypes
<1> QED BY <1>1, <1>2, <1>3, <1>4 DEF QueueIInv, Window, Tasks

\* The tasks in the ring.
LEMMA InRing ==
  ASSUME QueueIInv, NEW i \in m_top..(End - 1)
  PROVE  /\ i \in Nat /\ Seen(m_buf, stores, i) \in Tasks /\ Seen(m_buf, stores, i) <= offered
         /\ taken[Seen(m_buf, stores, i)] = 0
<1>1. Seen(m_buf, stores, i) \in 1..offered /\ taken[Seen(m_buf, stores, i)] = 0
  BY DEF QueueIInv, Fresh, Untaken
<1> QED BY <1>1, Facts

\* The content of the queue.
LEMMA ContentType ==
  ASSUME QueueIInv
  PROVE  /\ Content \in Seq(Tasks) /\ Len(Content) = End - m_top
         /\ \A k \in 1..(End - m_top) : Content[k] = Seen(m_buf, stores, m_top + k - 1)
<1>1. \A i \in m_top..(End - 1) : Seen(m_buf, stores, i) \in Tasks
  BY InRing
<1>2. m_top \in Int /\ End \in Int /\ m_top <= End
  BY Facts
<1> DEFINE end == End
           buf == m_buf
           st == stores
<1>3. /\ Between(buf, st, m_top, end) \in Seq(Tasks)
      /\ Len(Between(buf, st, m_top, end)) = end - m_top
      /\ \A k \in 1..(end - m_top) : Between(buf, st, m_top, end)[k] = Seen(buf, st, m_top + k - 1)
  <2>1. m_top \in Int /\ end \in Int /\ m_top <= end /\ \A i \in m_top..(end - 1) : Seen(buf, st, i) \in Tasks
    BY <1>1, <1>2
  <2> HIDE DEF end, buf, st
  <2> QED BY <2>1, BetweenShape
<1> QED BY <1>3 DEF Content

\* Buffered stores to cells are to distinct ones, inside the ring.
LEMMA OneStore ==
  ASSUME QueueIInv, NEW k \in 1..Len(stores), stores[k].at # BottomCell
  PROVE  /\ stores[k].at \in m_top..(End - 1) /\ m_bottom <= stores[k].at /\ stores[k].val \in Tasks
         /\ \A j \in 1..(k - 1) :
              IF stores[j].at = BottomCell THEN stores[j].val <= stores[k].at
              ELSE stores[j].at < stores[k].at
         /\ \A j \in 1..Len(stores) : stores[j].at = stores[k].at => j = k
<1>1. \A l \in 1..Len(stores) : Ordered(stores, l, m_bottom, m_top, End)
  BY DEF QueueIInv, StoresInOrder
<1>2. \A l \in 1..Len(stores) : stores[l].at \in Int /\ stores[l].val \in Int
  <2>1. \A l \in 1..Len(stores) : stores[l] \in StoreRecords
    BY Facts
  <2> QED BY <2>1 DEF StoreRecords
<1>3. \A l \in 1..Len(stores) : stores[l].at # BottomCell =>
        \A j \in 1..(l - 1) : stores[j].at # BottomCell => stores[j].at < stores[l].at
  BY <1>1 DEF Ordered
<1>4. ASSUME NEW j \in 1..Len(stores), stores[j].at = stores[k].at, j # k
      PROVE  FALSE
  <2>1. CASE j < k
    BY <1>2, <1>3, <1>4, <2>1, Facts, SMTT(30)
  <2>2. CASE k < j
    BY <1>2, <1>3, <1>4, <2>2, Facts, SMTT(30)
  <2> QED BY <1>4, <2>1, <2>2, Facts
<1> QED BY <1>1, <1>4 DEF Ordered

-----------------------------------------------------------------------------
(* Steps that change nothing of the owner's.                               *)

LEMMA QuietStep ==
  ASSUME QueueIInv, UNCHANGED <<m_buf, m_top, m_bottom, taken, ownerVars>>
  PROVE  Window' /\ StoresInOrder' /\ Fresh' /\ Content' = Content /\ End' = End
<1>1. /\ End' = End /\ m_top' = m_top /\ m_bottom' = m_bottom /\ m_buf' = m_buf /\ taken' = taken
      /\ stores' = stores /\ offered' = offered /\ bottom' = bottom /\ opc' = opc
  BY DEF End, ownerVars
<1>2. Window'
  BY <1>1 DEF QueueIInv, Window
<1>3. StoresInOrder'
  BY <1>1 DEF QueueIInv, StoresInOrder
<1>4. Fresh'
  BY <1>1 DEF QueueIInv, Fresh
<1> QED BY <1>1, <1>2, <1>3, <1>4 DEF Content

\* A thief reads the top.
LEMMA StealTopStep ==
  ASSUME QueueIInv, NEW t \in Thieves, StealTop(t)
  PROVE  QueueIInv' /\ Content' = Content
<1>1. UNCHANGED <<m_buf, m_top, m_bottom, taken, tval, ownerVars>>
  BY DEF StealTop
<1>2. /\ ttop' = [ttop EXCEPT ![t] = m_top] /\ tpc' = [tpc EXCEPT ![t] = "bottom"]
      /\ steals' = [steals EXCEPT ![t] = @ + 1] /\ steals[t] < MaxSteals
  BY DEF StealTop
<1>3. QueueTypeOK
  BY DEF QueueIInv, QueueTypes
<1>4. QueueTypes'
  <2>1. ttop' \in [Thieves -> 0..MaxTasks] /\ tpc' \in [Thieves -> {"idle", "bottom", "read", "cas"}]
    BY <1>2, <1>3 DEF QueueTypeOK
  <2>2. steals' \in [Thieves -> 0..MaxSteals]
    BY <1>2, <1>3, QueueAssumption DEF QueueTypeOK
  <2> QED BY <1>1, <2>1, <2>2 DEF QueueIInv, QueueTypes, QueueTypeOK, ownerVars
<1>5. ThievesAgree'
  <2> SUFFICES ASSUME NEW u \in Thieves
               PROVE  /\ ttop'[u] <= m_top'
                      /\ tpc'[u] \in {"read", "cas"} /\ ttop'[u] = m_top' =>
                           m_top' < End' /\ Drained(stores', m_top')
                      /\ tpc'[u] = "cas" /\ ttop'[u] = m_top' => tval'[u] = m_buf'[Slot(m_top')]
    BY DEF ThievesAgree
  <2>1. CASE u = t
    BY <1>1, <1>2, <1>3, <2>1, Facts DEF QueueTypeOK
  <2>2. CASE u # t
    <3>1. ttop'[u] = ttop[u] /\ tpc'[u] = tpc[u]
      BY <1>2, <1>3, <2>2 DEF QueueTypeOK
    <3> QED BY <1>1, <3>1, QuietStep DEF QueueIInv, ThievesAgree, ownerVars
  <2> QED BY <2>1, <2>2
<1> QED BY <1>1, <1>4, <1>5, QuietStep DEF QueueIInv

\* A thief compares it with m_bottom, which never is past the last task.
LEMMA StealBottomStep ==
  ASSUME QueueIInv, NEW t \in Thieves, StealBottom(t)
  PROVE  QueueIInv' /\ Content' = Content
<1>1. UNCHANGED <<m_buf, m_top, m_bottom, taken, ttop, tval, steals, ownerVars>> /\ tpc[t] = "bottom"
  BY DEF StealBottom
<1>2. tpc' = [tpc EXCEPT ![t] = IF ttop[t] < m_bottom THEN "read" ELSE "idle"]
  BY DEF StealBottom
<1>3. QueueTypeOK
  BY DEF QueueIInv, QueueTypes
<1>4. QueueTypes'
  <2>1. tpc' \in [Thieves -> {"idle", "bottom", "read", "cas"}]
    BY <1>2, <1>3 DEF QueueTypeOK
  <2> QED BY <1>1, <2>1 DEF QueueIInv, QueueTypes, QueueTypeOK, ownerVars
<1>5. ThievesAgree'
  <2> SUFFICES ASSUME NEW u \in Thieves
               PROVE  /\ ttop'[u] <= m_top'
                      /\ tpc'[u] \in {"read", "cas"} /\ ttop'[u] = m_top' =>
                           m_top' < End' /\ Drained(stores', m_top')
                      /\ tpc'[u] = "cas" /\ ttop'[u] = m_top' => tval'[u] = m_buf'[Slot(m_top')]
    BY DEF ThievesAgree
  <2>1. CASE u = t /\ tpc'[t] = "read" /\ ttop[t] = m_top
    <3>1. m_top < m_bottom
      BY <1>2, <1>3, <2>1 DEF QueueTypeOK
    <3>2. m_top < End
      BY <3>1, Facts DEF QueueIInv, StoresInOrder
    <3>3. ASSUME NEW k \in 1..Len(stores), stores[k].at = m_top PROVE FALSE
      <4>1. stores[k].at # BottomCell
        BY <3>3, Facts DEF BottomCell
      <4> QED BY <3>1, <3>3, <4>1, OneStore, Facts
    <3> QED BY <1>1, <2>1, <3>2, <3>3, QuietStep DEF Drained, ThievesAgree, QueueIInv, ownerVars
  <2>2. CASE u = t /\ ~(tpc'[t] = "read" /\ ttop[t] = m_top)
    <3>1. tpc'[t] \in {"read", "idle"}
      BY <1>2, <1>3 DEF QueueTypeOK
    <3> QED BY <1>1, <2>2, <3>1 DEF QueueIInv, ThievesAgree, ownerVars
  <2>3. CASE u # t
    <3>1. tpc'[u] = tpc[u]
      BY <1>2, <1>3, <2>3 DEF QueueTypeOK
    <3> QED BY <1>1, <3>1, QuietStep DEF QueueIInv, ThievesAgree, ownerVars
  <2> QED BY <2>1, <2>2, <2>3
<1> QED BY <1>1, <1>4, <1>5, QuietStep DEF QueueIInv

\* A thief reads the slot.
LEMMA StealReadStep ==
  ASSUME QueueIInv, NEW t \in Thieves, StealRead(t)
  PROVE  QueueIInv' /\ Content' = Content
<1>1. UNCHANGED <<m_buf, m_top, m_bottom, taken, ttop, steals, ownerVars>> /\ tpc[t] = "read"
  BY DEF StealRead
<1>2. tpc' = [tpc EXCEPT ![t] = "cas"] /\ tval' = [tval EXCEPT ![t] = m_buf[Slot(ttop[t])]]
  BY DEF StealRead
<1>3. QueueTypeOK
  BY DEF QueueIInv, QueueTypes
<1>4. QueueTypes'
  <2>1. Slot(ttop[t]) \in 0..(Cap - 1)
    BY <1>3, SlotType DEF QueueTypeOK
  <2>2. /\ tpc' \in [Thieves -> {"idle", "bottom", "read", "cas"}]
        /\ tval' \in [Thieves -> Tasks \cup {Null}]
    BY <1>2, <1>3, <2>1 DEF QueueTypeOK
  <2> QED BY <1>1, <2>2 DEF QueueIInv, QueueTypes, QueueTypeOK, ownerVars
<1>5. ThievesAgree'
  <2> SUFFICES ASSUME NEW u \in Thieves
               PROVE  /\ ttop'[u] <= m_top'
                      /\ tpc'[u] \in {"read", "cas"} /\ ttop'[u] = m_top' =>
                           m_top' < End' /\ Drained(stores', m_top')
                      /\ tpc'[u] = "cas" /\ ttop'[u] = m_top' => tval'[u] = m_buf'[Slot(m_top')]
    BY DEF ThievesAgree
  <2>1. CASE u = t
    <3>1. tval'[t] = m_buf[Slot(ttop[t])]
      BY <1>2, <1>3 DEF QueueTypeOK
    <3> QED BY <1>1, <2>1, <3>1, QuietStep DEF QueueIInv, ThievesAgree, ownerVars
  <2>2. CASE u # t
    <3>1. tpc'[u] = tpc[u] /\ tval'[u] = tval[u]
      BY <1>2, <1>3, <2>2 DEF QueueTypeOK
    <3> QED BY <1>1, <3>1, QuietStep DEF QueueIInv, ThievesAgree, ownerVars
  <2> QED BY <2>1, <2>2
<1> QED BY <1>1, <1>4, <1>5, QuietStep DEF QueueIInv

-----------------------------------------------------------------------------
(* The oldest buffered store reaches memory.                               *)

\* The stores left in the buffer.
LEMMA DrainLeaves ==
  ASSUME QueueIInv, stores # <<>>, stores' = Tail(stores)
  PROVE  /\ 1 \in 1..Len(stores) /\ Head(stores) = stores[1]
         /\ stores' \in Seq(StoreRecords) /\ Len(stores') = Len(stores) - 1
         /\ \A k \in 1..Len(stores') : k + 1 \in 1..Len(stores) /\ stores'[k] = stores[k + 1]
         /\ stores' # <<>> => Len(stores') \in 1..Len(stores')
         /\ stores' = <<>> => Len(stores) = 1
<1>1. stores \in Seq(StoreRecords) /\ Len(stores) \in Nat /\ Len(stores) # 0
  BY Facts, EmptySeq
<1>2. /\ Head(stores) = stores[1] /\ stores' \in Seq(StoreRecords) /\ Len(stores') = Len(stores) - 1
      /\ \A k \in 1..(Len(stores) - 1) : stores'[k] = stores[k + 1]
  BY <1>1, HeadTailProperties
<1>3. stores' = <<>> <=> Len(stores') = 0
  BY <1>2, EmptySeq
<1> QED BY <1>1, <1>2, <1>3

\* Whatever is drained, the owner sees the same cells in the ring.
LEMMA DrainSeen ==
  ASSUME QueueIInv, Drain, NEW CONSTANT i \in m_top..(End - 1)
  PROVE  Seen(m_buf', stores', i) = Seen(m_buf, stores, i)
<1>1. stores # <<>> /\ stores' = Tail(stores)
  BY DEF Drain
<1>2. i \in Nat /\ m_top \in Nat /\ End \in Int /\ End <= m_top + Cap
  BY Facts, InRing
<1>3. Range(stores) = {stores[1]} \cup Range(stores')
  BY <1>1, Facts, RangeOfHeadTail, DrainLeaves
<1>4. CASE stores[1].at # i
  <2>1. \A s : s.at = i => (s \in Range(stores) <=> s \in Range(stores'))
    BY <1>3, <1>4
  <2>2. m_buf'[Slot(i)] = m_buf[Slot(i)]
    <3>1. CASE stores[1].at = BottomCell
      BY <1>1, <3>1, DrainLeaves DEF Drain
    <3>2. CASE stores[1].at # BottomCell
      <4>1. stores[1].at \in m_top..(End - 1)
        BY <1>1, <3>2, DrainLeaves, OneStore
      <4> DEFINE j == stores[1].at
      <4>7. j # i /\ j \in m_top..(End - 1)
        BY <1>4, <4>1
      <4> HIDE DEF j
      <4>5. j \in Nat /\ i < j + Cap /\ j < i + Cap
        BY <1>2, <4>7, QueueAssumption
      <4>6. Slot(j) # Slot(i)
        BY <1>2, <4>5, <4>7, SlotsDiffer
      <4>2. Slot(stores[1].at) # Slot(i)
        BY <4>6 DEF j
      <4>3. m_buf' = [m_buf EXCEPT ![Slot(stores[1].at)] = stores[1].val]
        BY <1>1, <3>2, DrainLeaves DEF Drain
      <4>4. m_buf \in [0..(Cap - 1) -> Tasks \cup {Null}] /\ Slot(i) \in 0..(Cap - 1)
        BY <1>2, SlotType DEF QueueIInv, QueueTypes, QueueTypeOK
      <4> QED BY <4>2, <4>3, <4>4
    <3> QED BY <3>1, <3>2
  <2> QED BY <2>1, <2>2, SeenSame
<1>5. CASE stores[1].at = i
  <2>1. stores[1].at # BottomCell /\ 1 \in 1..Len(stores)
    BY <1>1, <1>2, <1>5, DrainLeaves DEF BottomCell
  <2>2. \A j \in 1..Len(stores) : stores[j].at = i => j = 1
    BY <1>5, <2>1, OneStore
  <2>3. Seen(m_buf, stores, i) = stores[1].val
    BY <1>5, <2>1, <2>2, Facts, SeenPending
  <2>4. Drained(stores', i)
    <3> SUFFICES ASSUME NEW k \in 1..Len(stores'), stores'[k].at = i PROVE FALSE
      BY DEF Drained
    <3>1. k + 1 \in 1..Len(stores) /\ stores'[k] = stores[k + 1] /\ k + 1 # 1
      BY <1>1, DrainLeaves
    <3> QED BY <2>2, <3>1
  <2>5. m_buf' = [m_buf EXCEPT ![Slot(i)] = stores[1].val]
    BY <1>1, <1>5, <2>1, DrainLeaves DEF Drain
  <2>6. m_buf \in [0..(Cap - 1) -> Tasks \cup {Null}] /\ Slot(i) \in 0..(Cap - 1)
    BY <1>2, SlotType DEF QueueIInv, QueueTypes, QueueTypeOK
  <2>7. Seen(m_buf', stores', i) = m_buf'[Slot(i)]
    BY <1>1, <2>4, DrainLeaves, SeenDrained
  <2> QED BY <2>3, <2>5, <2>6, <2>7
<1> QED BY <1>4, <1>5

\* A drain is not a step of the deque.
LEMMA DrainStep ==
  ASSUME QueueIInv, Drain
  PROVE  QueueIInv' /\ Content' = Content
<1>1. /\ stores # <<>> /\ stores' = Tail(stores)
      /\ UNCHANGED <<m_top, taken, bottom, opc, offered, overflowed, pops, thiefVars>>
  BY DEF Drain
<1>2. End' = End
  BY <1>1 DEF End
<1>3. /\ 1 \in 1..Len(stores) /\ Head(stores) = stores[1] /\ stores[1] \in StoreRecords
      /\ stores' \in Seq(StoreRecords) /\ Len(stores') = Len(stores) - 1 /\ Len(stores) \in Nat
  BY <1>1, Facts, DrainLeaves
<1>4. \A k \in 1..Len(stores) : Ordered(stores, k, m_bottom, m_top, End)
  BY DEF QueueIInv, StoresInOrder
<1>5. /\ m_bottom' \in -1..End
      /\ stores[1].at = BottomCell => m_bottom' = stores[1].val
      /\ stores[1].at # BottomCell => m_bottom' = m_bottom
      /\ m_buf' \in [0..(Cap - 1) -> Tasks \cup {Null}]
  <2>1. CASE stores[1].at = BottomCell
    <3>1. m_bottom' = stores[1].val /\ m_buf' = m_buf
      BY <1>1, <1>3, <2>1 DEF Drain
    <3>2. stores[1].val \in -1..End
      <4>1. End - 1 >= m_top => -1 \notin m_top..(End - 1)
        BY Facts
      <4> QED BY <1>3, <1>4, <2>1, <4>1, Facts, SMTT(30) DEF Ordered, BottomCell
    <3> QED BY <2>1, <3>1, <3>2 DEF QueueIInv, QueueTypes, QueueTypeOK
  <2>2. CASE stores[1].at # BottomCell
    <3>1. m_bottom' = m_bottom /\ m_buf' = [m_buf EXCEPT ![Slot(stores[1].at)] = stores[1].val]
      BY <1>1, <1>3, <2>2 DEF Drain
    <3>2. stores[1].at \in Nat /\ stores[1].val \in Tasks
      BY <1>3, <2>2, OneStore, Facts, SMTT(30)
    <3>3. m_buf' \in [0..(Cap - 1) -> Tasks \cup {Null}]
      BY <3>1, <3>2, SlotType DEF QueueIInv, QueueTypes, QueueTypeOK
    <3> QED BY <2>2, <3>1, <3>3, Facts, SMTT(30) DEF QueueIInv, StoresInOrder
  <2> QED BY <2>1, <2>2
<1>6. QueueTypes'
  <2>1. m_bottom' \in -1..MaxTasks
    BY <1>5, Facts
  <2> QED BY <1>1, <1>3, <1>5, <2>1 DEF QueueIInv, QueueTypes, QueueTypeOK, thiefVars
<1>7. Window'
  BY <1>1, <1>2 DEF QueueIInv, Window
<1>8. StoresInOrder'
  <2>1. opc # "popCas"
    BY <1>1 DEF QueueIInv, StoresInOrder
  <2>2. stores[Len(stores)] = StoreBottom(bottom)
    BY <1>1 DEF QueueIInv, StoresInOrder
  <2>3. IF stores' = <<>> THEN m_bottom' = bottom' ELSE stores'[Len(stores')] = StoreBottom(bottom')
    <3>1. CASE stores' = <<>>
      <4>1. stores[1] = StoreBottom(bottom)
        BY <1>1, <2>2, <3>1, DrainLeaves
      <4> QED BY <1>1, <1>5, <3>1, <4>1 DEF StoreBottom
    <3>2. CASE stores' # <<>>
      <4>1. stores'[Len(stores')] = stores[Len(stores)]
        BY <1>1, <1>3, <3>2, DrainLeaves
      <4> QED BY <1>1, <2>2, <3>2, <4>1
    <3> QED BY <3>1, <3>2
  <2>4. ASSUME NEW CONSTANT k \in 1..Len(stores')
        PROVE  Ordered(stores', k, m_bottom', m_top, End)
    <3>1. k + 1 \in 1..Len(stores) /\ stores'[k] = stores[k + 1] /\ k \in Nat
      BY <1>1, <1>3, DrainLeaves
    <3>2. CASE stores[k + 1].at = BottomCell
      <4>1. stores[k + 1].val \in -1..End
        <5>1. End - 1 >= m_top => -1 \notin m_top..(End - 1)
          BY Facts
        <5>2. Ordered(stores, k + 1, m_bottom, m_top, End)
          BY <1>4, <3>1
        <5>3. stores[k + 1].at \notin m_top..(End - 1)
          BY <3>2, <5>1, Facts DEF BottomCell
        <5> QED BY <3>2, <5>2, <5>3 DEF Ordered
      <4> QED BY <3>1, <3>2, <4>1 DEF Ordered
    <3>3. CASE stores[k + 1].at # BottomCell
      <4>1. /\ stores[k + 1].at \in m_top..(End - 1) /\ m_bottom <= stores[k + 1].at
            /\ stores[k + 1].val \in Tasks
            /\ \A j \in 1..k : IF stores[j].at = BottomCell THEN stores[j].val <= stores[k + 1].at
                               ELSE stores[j].at < stores[k + 1].at
        <5> DEFINE l == k + 1
        <5>1. l \in 1..Len(stores) /\ stores[l].at # BottomCell /\ 1..(l - 1) = 1..k
          BY <3>1, <3>3
        <5> HIDE DEF l
        <5>2. /\ stores[l].at \in m_top..(End - 1) /\ m_bottom <= stores[l].at /\ stores[l].val \in Tasks
              /\ \A j \in 1..(l - 1) : IF stores[j].at = BottomCell THEN stores[j].val <= stores[l].at
                                       ELSE stores[j].at < stores[l].at
          BY <5>1, OneStore
        <5> QED BY <5>1, <5>2 DEF l
      <4>2. m_bottom' <= stores[k + 1].at
        <5>1. 1 \in 1..k
          BY <3>1
        <5> QED BY <1>5, <4>1, <5>1
      <4>3. \A j \in 1..(k - 1) : j + 1 \in 1..k /\ stores'[j] = stores[j + 1]
        BY <1>1, <3>1, DrainLeaves
      <4> QED BY <3>1, <4>1, <4>2, <4>3 DEF Ordered
    <3> QED BY <3>2, <3>3
  <2>5. m_bottom' <= End' /\ opc' # "popCas"
    BY <1>1, <1>2, <1>5, <2>1, Facts
  <2> QED BY <1>1, <1>2, <2>3, <2>4, <2>5 DEF StoresInOrder
<1>9. \A i \in m_top..(End - 1) : Seen(m_buf', stores', i) = Seen(m_buf, stores, i)
  BY DrainSeen
<1>10. Fresh'
  <2>1. Untaken(m_buf', stores', m_top, End, offered, taken)
    BY <1>9 DEF QueueIInv, Fresh, Untaken
  <2> QED BY <1>1, <1>2, <2>1 DEF Fresh
<1>11. ThievesAgree'
  <2>1. ASSUME Drained(stores, m_top) PROVE Drained(stores', m_top)
    BY <1>1, <2>1, DrainLeaves DEF Drained
  <2>2. ASSUME Drained(stores, m_top), m_top < End
        PROVE  m_buf'[Slot(m_top)] = m_buf[Slot(m_top)]
    <3>1. Seen(m_buf, stores, m_top) = m_buf[Slot(m_top)] /\ Seen(m_buf', stores', m_top) = m_buf'[Slot(m_top)]
      BY <1>3, <2>1, <2>2, Facts, SeenDrained
    <3>2. m_top \in m_top..(End - 1)
      BY <2>2, Facts
    <3> QED BY <1>9, <3>1, <3>2
  <2>3. ThievesAgree /\ UNCHANGED <<m_top, End, tpc, ttop, tval>>
    BY <1>1, <1>2 DEF QueueIInv, thiefVars
  <2> QED BY <2>1, <2>2, <2>3 DEF ThievesAgree
<1>12. Content' = Content
  <2>1. Between(m_buf', stores', m_top, End) = Between(m_buf, stores, m_top, End)
    BY <1>9, Facts, BetweenSame
  <2> QED BY <1>1, <1>2, <2>1 DEF Content
<1> QED BY <1>6, <1>7, <1>8, <1>10, <1>11, <1>12 DEF QueueIInv

-----------------------------------------------------------------------------
(* pop.                                                                    *)

\* A store of m_bottom is buffered.
LEMMA AppendBottom ==
  ASSUME QueueIInv, NEW CONSTANT b \in Int, b >= -1, b <= End, stores' = Append(stores, StoreBottom(b))
  PROVE  /\ stores' \in Seq(StoreRecords) /\ stores' # <<>> /\ stores'[Len(stores')] = StoreBottom(b)
         /\ \A i \in Nat : Seen(m_buf, stores', i) = Seen(m_buf, stores, i)
         /\ \A k \in 1..Len(stores') : Ordered(stores', k, m_bottom, m_top, End)
         /\ \A i \in Nat : Drained(stores, i) => Drained(stores', i)
<1>1. StoreBottom(b) \in StoreRecords /\ StoreBottom(b).at = BottomCell /\ StoreBottom(b).val = b
  BY DEF StoreBottom, StoreRecords, BottomCell
<1>2. stores \in Seq(StoreRecords) /\ Len(stores) \in Nat
  BY Facts
<1>3. /\ stores' \in Seq(StoreRecords) /\ Len(stores') = Len(stores) + 1
      /\ stores'[Len(stores) + 1] = StoreBottom(b)
      /\ \A k \in 1..Len(stores) : stores'[k] = stores[k]
  BY <1>1, <1>2, AppendProperties
<1>4. stores' # <<>>
  BY <1>2, <1>3, EmptySeq
<1>5. ASSUME NEW i \in Nat PROVE Seen(m_buf, stores', i) = Seen(m_buf, stores, i)
  <2>1. Range(stores') = Range(stores) \cup {StoreBottom(b)}
    BY <1>1, <1>2, RangeOfAppend
  <2>2. \A s : s.at = i => (s \in Range(stores) <=> s \in Range(stores'))
    BY <1>1, <2>1 DEF BottomCell
  <2> QED BY <2>2, SeenSame
<1>6. ASSUME NEW CONSTANT k \in 1..Len(stores')
      PROVE  Ordered(stores', k, m_bottom, m_top, End)
  <2>1. CASE k \in 1..Len(stores)
    <3>1. Ordered(stores, k, m_bottom, m_top, End)
      BY <2>1 DEF QueueIInv, StoresInOrder
    <3>2. stores'[k] = stores[k] /\ \A j \in 1..(k - 1) : stores'[j] = stores[j]
      BY <1>2, <1>3, <2>1
    <3> QED BY <3>1, <3>2 DEF Ordered
  <2>2. CASE k = Len(stores) + 1
    BY <1>1, <1>3, <2>2, Facts DEF Ordered
  <2> QED BY <1>2, <1>3, <2>1, <2>2
<1>7. ASSUME NEW i \in Nat, Drained(stores, i) PROVE Drained(stores', i)
  <2> SUFFICES ASSUME NEW k \in 1..Len(stores') PROVE stores'[k].at # i
    BY DEF Drained
  <2>1. CASE k \in 1..Len(stores)
    BY <1>3, <1>7, <2>1 DEF Drained
  <2>2. CASE k = Len(stores) + 1
    BY <1>1, <1>3, <2>2 DEF BottomCell
  <2> QED BY <1>2, <1>3, <2>1, <2>2
<1> QED BY <1>3, <1>4, <1>5, <1>6, <1>7

\* The thieves' part where top, end and memory stay.
LEMMA ThievesStep ==
  ASSUME QueueIInv, UNCHANGED <<m_buf, m_top, thiefVars>>, End' >= End \/ m_top < End',
         End' \in Int, m_top < End /\ Drained(stores, m_top) => Drained(stores', m_top)
  PROVE  ThievesAgree'
<1>1. m_top < End => m_top < End'
  BY Facts
<1> QED BY <1>1 DEF QueueIInv, ThievesAgree, thiefVars

\* The owner claims the last slot, or gives a claim back that has failed.
LEMMA ClaimStep ==
  ASSUME QueueIInv, UNCHANGED <<m_buf, m_top, m_bottom, taken, offered, overflowed, thiefVars>>,
         NEW CONSTANT b \in -1..MaxTasks, bottom' = b, stores' = Append(stores, StoreBottom(b)),
         opc' \in {"idle", "popFence"}, pops' \in 0..MaxPops, End' = End, b <= End
  PROVE  QueueIInv' /\ Content' = Content
<1>1. b \in Int /\ b >= -1
  BY QueueAssumption
<1>2. QueueTypes'
  BY <1>1, AppendBottom DEF QueueIInv, QueueTypes, QueueTypeOK, thiefVars
<1>3. Window'
  BY DEF QueueIInv, Window
<1>4. StoresInOrder'
  <2>1. m_bottom' <= End' /\ opc' # "popCas"
    BY DEF QueueIInv, StoresInOrder
  <2> QED BY <1>1, <2>1, AppendBottom DEF StoresInOrder
<1>5. \A i \in m_top..(End - 1) : Seen(m_buf, stores', i) = Seen(m_buf, stores, i)
  BY <1>1, AppendBottom, InRing
<1>6. Fresh'
  <2>1. Untaken(m_buf, stores', m_top, End, offered, taken)
    BY <1>5 DEF QueueIInv, Fresh, Untaken
  <2> QED BY <2>1 DEF Fresh
<1>7. ThievesAgree'
  BY <1>1, Facts, AppendBottom, ThievesStep
<1>8. Content' = Content
  <2> DEFINE top == m_top
             end == End
             st == stores
             su == stores'
             buf == m_buf
  <2>1. top \in Int /\ end \in Int /\ \A i \in top..(end - 1) : Seen(buf, su, i) = Seen(buf, st, i)
    BY <1>5, Facts
  <2> HIDE DEF top, end, st, su, buf
  <2>2. Between(buf, su, top, end) = Between(buf, st, top, end)
    BY <2>1, BetweenSame
  <2>3. Between(m_buf, stores', m_top, End) = Between(m_buf, stores, m_top, End)
    BY <2>2 DEF top, end, st, su, buf
  <2> QED BY <2>3 DEF Content
<1> QED BY <1>2, <1>3, <1>4, <1>6, <1>7, <1>8 DEF QueueIInv

LEMMA PopClaimStep ==
  ASSUME QueueIInv, PopClaim
  PROVE  QueueIInv' /\ Content' = Content
<1>1. /\ opc = "idle" /\ pops < MaxPops /\ opc' = "popFence" /\ pops' = pops + 1
      /\ bottom' = bottom - 1 /\ stores' = Append(stores, StoreBottom(bottom - 1))
      /\ UNCHANGED <<m_buf, m_top, m_bottom, taken, offered, overflowed, thiefVars>>
  BY DEF PopClaim
<1>2. End = bottom /\ End' = bottom - 1 + 1
  BY <1>1 DEF End
<1>3. End' = End /\ bottom - 1 \in -1..MaxTasks /\ bottom - 1 <= End
  BY <1>2, Facts
<1>4. pops' \in 0..MaxPops
  BY <1>1, QueueAssumption DEF QueueIInv, QueueTypes, QueueTypeOK
<1> QED BY <1>1, <1>3, <1>4, ClaimStep

\* A task is taken off the ring.
LEMMA Takes ==
  ASSUME QueueIInv, NEW CONSTANT i \in m_top..(End - 1), NEW CONSTANT v, v = Seen(m_buf, stores, i),
         NEW CONSTANT top \in Int, NEW CONSTANT end \in Int, m_top <= top, end <= End, i \notin top..(end - 1)
  PROVE  /\ v \in Tasks /\ [taken EXCEPT ![v] = @ + 1] \in [Tasks -> 0..1]
         /\ [taken EXCEPT ![v] = @ + 1] # taken
         /\ Untaken(m_buf, stores, top, end, offered, [taken EXCEPT ![v] = @ + 1])
<1>1. v \in Tasks /\ v <= offered /\ taken[v] = 0 /\ taken \in [Tasks -> 0..1]
  BY InRing, Facts
<1> DEFINE tk == [taken EXCEPT ![v] = @ + 1]
<1>2. tk[v] = 1 /\ \A u \in Tasks \ {v} : tk[u] = taken[u]
  BY <1>1
<1>3. tk \in [Tasks -> 0..1] /\ tk # taken
  BY <1>1, <1>2
<1> HIDE DEF tk
<1>4. top..(end - 1) \subseteq m_top..(End - 1)
  BY Facts, SMTT(30)
<1>5. \A j \in top..(end - 1) : Seen(m_buf, stores, j) \in 1..offered /\ tk[Seen(m_buf, stores, j)] = 0
  <2> SUFFICES ASSUME NEW j \in top..(end - 1)
               PROVE  Seen(m_buf, stores, j) \in 1..offered /\ tk[Seen(m_buf, stores, j)] = 0
    OBVIOUS
  <2>1. j \in m_top..(End - 1) /\ j # i
    BY <1>4
  <2>2. Seen(m_buf, stores, j) # v /\ Seen(m_buf, stores, j) \in 1..offered
    BY <2>1 DEF QueueIInv, Fresh, Untaken
  <2>3. Seen(m_buf, stores, j) \in Tasks /\ taken[Seen(m_buf, stores, j)] = 0
    BY <2>1, InRing
  <2> QED BY <1>2, <2>2, <2>3
<1>6. \A j, k \in top..(end - 1) : Seen(m_buf, stores, j) = Seen(m_buf, stores, k) => j = k
  BY <1>4 DEF QueueIInv, Fresh, Untaken
<1>7. \A u \in Tasks : u > offered => tk[u] = 0
  <2>1. \A u \in Tasks : u > offered => taken[u] = 0 /\ u # v
    BY <1>1, Facts DEF QueueIInv, Fresh, Untaken
  <2> QED BY <1>2, <2>1
<1>8. Untaken(m_buf, stores, top, end, offered, tk)
  BY <1>5, <1>6, <1>7 DEF Untaken
<1> QED BY <1>1, <1>3, <1>8 DEF tk

\* The first and the last task of a queue that has one.
LEMMA BetweenEnds ==
  ASSUME NEW top \in Int, NEW end \in Int, NEW buf, NEW st, top < end,
         \A i \in top..(end - 1) : Seen(buf, st, i) \in Tasks
  PROVE  LET c == Between(buf, st, top, end)
         IN  /\ c # <<>>
             /\ Head(c) = Seen(buf, st, top) /\ Tail(c) = Between(buf, st, top + 1, end)
             /\ c[Len(c)] = Seen(buf, st, end - 1)
             /\ SubSeq(c, 1, Len(c) - 1) = Between(buf, st, top, end - 1)
<1> DEFINE c == Between(buf, st, top, end)
           d == Between(buf, st, top + 1, end)
           e == Between(buf, st, top, end - 1)
<1>1. /\ c \in Seq(Tasks) /\ Len(c) = end - top
      /\ \A k \in 1..(end - top) : c[k] = Seen(buf, st, top + k - 1)
  BY BetweenShape
<1>2. /\ d \in Seq(Tasks) /\ Len(d) = end - (top + 1)
      /\ \A k \in 1..(end - (top + 1)) : d[k] = Seen(buf, st, top + 1 + k - 1)
  <2>1. top + 1 \in Int /\ top + 1 <= end /\ \A i \in (top + 1)..(end - 1) : Seen(buf, st, i) \in Tasks
    OBVIOUS
  <2> QED BY <2>1, BetweenShape
<1>3. /\ e \in Seq(Tasks) /\ Len(e) = end - 1 - top
      /\ \A k \in 1..(end - 1 - top) : e[k] = Seen(buf, st, top + k - 1)
  <2> DEFINE last == end - 1
  <2>1. last \in Int /\ top <= last /\ \A i \in top..(last - 1) : Seen(buf, st, i) \in Tasks
    OBVIOUS
  <2> HIDE DEF last
  <2>2. /\ Between(buf, st, top, last) \in Seq(Tasks) /\ Len(Between(buf, st, top, last)) = last - top
        /\ \A k \in 1..(last - top) : Between(buf, st, top, last)[k] = Seen(buf, st, top + k - 1)
    BY <2>1, BetweenShape
  <2> QED BY <2>2 DEF last
<1> HIDE DEF c, d, e
<1>4. c # <<>>
  BY <1>1, EmptySeq
<1>5. Head(c) = c[1] /\ c[1] = Seen(buf, st, top) /\ c[Len(c)] = Seen(buf, st, end - 1)
  <2>1. top + 1 - 1 = top /\ top + (end - top) - 1 = end - 1 /\ 1 \in 1..(end - top) /\ end - top \in 1..(end - top)
    OBVIOUS
  <2>2. c[1] = Seen(buf, st, top + 1 - 1) /\ c[end - top] = Seen(buf, st, top + (end - top) - 1)
    BY <1>1, <2>1
  <2>3. Head(c) = c[1]
    BY <1>1, <1>4, HeadTailProperties
  <2> QED BY <1>1, <2>1, <2>2, <2>3
<1>6. Tail(c) = d
  <2>1. /\ Tail(c) \in Seq(Tasks) /\ Len(Tail(c)) = Len(c) - 1
        /\ \A k \in 1..(Len(c) - 1) : Tail(c)[k] = c[k + 1]
    BY <1>1, <1>4, HeadTailProperties
  <2>2. ASSUME NEW k \in 1..(Len(c) - 1) PROVE Tail(c)[k] = d[k]
    <3>1. top + (k + 1) - 1 = top + 1 + k - 1 /\ k + 1 \in 1..(end - top) /\ k \in 1..(end - (top + 1))
      BY <1>1
    <3> QED BY <1>1, <1>2, <2>1, <3>1
  <2>3. Len(Tail(c)) = Len(d) /\ Len(Tail(c)) = Len(c) - 1
    BY <1>1, <1>2, <2>1
  <2> QED BY <1>2, <2>1, <2>2, <2>3, SeqEqual
<1>7. SubSeq(c, 1, Len(c) - 1) = e
  <2>1. /\ SubSeq(c, 1, Len(c) - 1) \in Seq(Tasks) /\ Len(SubSeq(c, 1, Len(c) - 1)) = Len(c) - 1
        /\ \A k \in 1..(Len(c) - 1) : SubSeq(c, 1, Len(c) - 1)[k] = c[k]
    BY <1>1
  <2>2. \A k \in 1..(Len(c) - 1) : SubSeq(c, 1, Len(c) - 1)[k] = e[k]
    BY <1>1, <1>3, <2>1
  <2>3. Len(SubSeq(c, 1, Len(c) - 1)) = Len(e) /\ Len(e) = Len(c) - 1
    BY <1>1, <1>3, <2>1
  <2> QED BY <1>3, <2>1, <2>2, <2>3, SeqEqual
<1> QED BY <1>4, <1>5, <1>6, <1>7 DEF c, d, e

\* An empty queue.
LEMMA BetweenNothing ==
  ASSUME NEW top \in Int, NEW end \in Int, NEW buf, NEW st, end <= top
  PROVE  Between(buf, st, top, end) = <<>>
<1>1. 1..(end - top) = {}
  OBVIOUS
<1>2. Between(buf, st, top, end) \in Seq({}) /\ Len(Between(buf, st, top, end)) = 0
  <2>1. Between(buf, st, top, end) = [k \in 1..0 |-> Seen(buf, st, top + k - 1)] /\ 1..0 = {}
    BY <1>1 DEF Between
  <2> QED BY <2>1
<1> QED BY <1>2, EmptySeq

\* The first and the last task of the queue.
LEMMA ContentEnds ==
  ASSUME QueueIInv, m_top < End
  PROVE  /\ Content # <<>>
         /\ Head(Content) = Seen(m_buf, stores, m_top)
         /\ Tail(Content) = Between(m_buf, stores, m_top + 1, End)
         /\ Content[Len(Content)] = Seen(m_buf, stores, End - 1)
         /\ SubSeq(Content, 1, Len(Content) - 1) = Between(m_buf, stores, m_top, End - 1)
<1> DEFINE top == m_top
           end == End
           buf == m_buf
           st == stores
<1>1. top \in Int /\ end \in Int /\ top < end /\ \A i \in top..(end - 1) : Seen(buf, st, i) \in Tasks
  BY Facts, InRing
<1>2. Content = Between(buf, st, top, end)
  BY DEF Content
<1> HIDE DEF top, end, buf, st
<1> DEFINE c == Content
<1>3. /\ c # <<>>
      /\ Head(c) = Seen(buf, st, top) /\ Tail(c) = Between(buf, st, top + 1, end)
      /\ c[Len(c)] = Seen(buf, st, end - 1)
      /\ SubSeq(c, 1, Len(c) - 1) = Between(buf, st, top, end - 1)
  BY <1>1, <1>2, BetweenEnds
<1> QED BY <1>3 DEF top, end, buf, st

\* An empty queue has no content.
LEMMA ContentNothing == ASSUME QueueIInv, m_top = End PROVE Content = <<>>
BY Facts, BetweenNothing DEF Content

-----------------------------------------------------------------------------
(* The steps that take a task.                                             *)

\* pop takes the newest task, or races for the last one, or finds nothing.
LEMMA PopFenceStep ==
  ASSUME QueueIInv, PopFence
  PROVE  /\ QueueIInv'
         /\ Deque!PopBack \/ UNCHANGED <<Content, taken>>
         /\ opc' = "idle" /\ taken' = taken => Content' = <<>>
<1>1. /\ opc = "popFence" /\ stores = <<>>
      /\ UNCHANGED <<m_buf, m_top, m_bottom, offered, overflowed, pops, thiefVars>>
  BY DEF PopFence
<1>2. m_bottom = bottom /\ End = bottom + 1
  BY <1>1 DEF QueueIInv, StoresInOrder, End
<1>3. CASE m_top < bottom /\ Take(m_buf[Slot(bottom)]) /\ opc' = "idle" /\ UNCHANGED <<bottom, stores>>
  <2> DEFINE v == m_buf[Slot(bottom)]
  <2>1. End' = bottom /\ bottom \in m_top..(End - 1) /\ bottom \notin m_top..(bottom - 1)
        /\ m_top \in Int /\ bottom \in Int /\ m_top <= m_top /\ bottom <= End
    BY <1>2, <1>3, Facts DEF End
  <2>2. v = Seen(m_buf, stores, bottom)
    <3>1. Drained(stores, bottom)
      BY <1>1 DEF Drained
    <3> QED BY <3>1, Facts, SeenDrained
  <2>3. taken' = [taken EXCEPT ![v] = @ + 1]
    BY <1>3 DEF Take
  <2> HIDE DEF v
  <2>4. /\ v \in Tasks /\ taken' \in [Tasks -> 0..1] /\ taken' # taken
        /\ Untaken(m_buf, stores, m_top, bottom, offered, taken')
    BY <2>1, <2>2, <2>3, Takes
  <2>5. QueueTypes'
    BY <1>1, <1>3, <2>4 DEF QueueIInv, QueueTypes, QueueTypeOK, thiefVars
  <2>6. Window'
    BY <1>1, <1>3, <2>1, Facts DEF Window
  <2>7. StoresInOrder'
    <3>1. Len(stores') = 0
      BY <1>1, <1>3
    <3> QED BY <1>1, <1>2, <1>3, <2>1, <3>1 DEF StoresInOrder
  <2>8. Fresh'
    BY <1>1, <1>3, <2>1, <2>4 DEF Fresh
  <2>9. ThievesAgree'
    BY <1>1, <1>3, <2>1, ThievesStep
  <2>10. Deque!PopBack
    <3>1. Content' = SubSeq(Content, 1, Len(Content) - 1) /\ Content # <<>> /\ v = Content[Len(Content)]
      <4>1. Content' = Between(m_buf, stores, m_top, bottom)
        BY <1>1, <1>3, <2>1 DEF Content
      <4>2. m_top < End /\ End - 1 = bottom
        BY <1>2, <1>3, Facts
      <4> QED BY <2>2, <4>1, <4>2, ContentEnds
    <3> QED BY <2>3, <3>1 DEF Deque!PopBack, Deque!Take, Deque!Front, Deque!Last
  <2> QED BY <2>4, <2>5, <2>6, <2>7, <2>8, <2>9, <2>10 DEF QueueIInv
<1>4. CASE m_top = bottom /\ opc' = "popCas" /\ UNCHANGED <<bottom, stores, taken>>
  <2>1. End' = End
    BY <1>2, <1>4 DEF End
  <2>2. QueueTypes'
    BY <1>1, <1>4 DEF QueueIInv, QueueTypes, QueueTypeOK, thiefVars
  <2>3. Window' /\ Fresh' /\ Content' = Content
    BY <1>1, <1>4, <2>1 DEF QueueIInv, Window, Fresh, Content
  <2>4. StoresInOrder'
    <3>1. Len(stores') = 0
      BY <1>1, <1>4
    <3>2. bottom' <= m_top' /\ m_bottom' <= End'
      BY <1>1, <1>2, <1>4, <2>1, Facts
    <3> QED BY <1>1, <1>2, <1>4, <3>1, <3>2 DEF StoresInOrder
  <2>5. ThievesAgree'
    BY <1>1, <1>4, <2>1, Facts, ThievesStep
  <2> QED BY <1>4, <2>2, <2>3, <2>4, <2>5 DEF QueueIInv
<1>5. CASE m_top > bottom /\ Restore /\ opc' = "idle" /\ UNCHANGED taken
  <2>1. bottom' = bottom + 1 /\ stores' = Append(stores, StoreBottom(bottom + 1))
    BY <1>5 DEF Restore
  <2>2. End' = End /\ bottom + 1 \in -1..MaxTasks /\ bottom + 1 <= End /\ pops' \in 0..MaxPops
    <3>1. End' = bottom + 1
      BY <1>5, <2>1 DEF End
    <3> QED BY <1>1, <1>2, <3>1, Facts DEF QueueIInv, QueueTypes, QueueTypeOK
  <2>3. QueueIInv' /\ Content' = Content
    BY <1>1, <1>5, <2>1, <2>2, ClaimStep
  <2>4. m_top = End
    BY <1>2, <1>5, Facts
  <2> QED BY <1>5, <2>3, <2>4, ContentNothing
<1> QED BY <1>3, <1>4, <1>5 DEF PopFence

\* The race for the last task.
LEMMA PopCasStep ==
  ASSUME QueueIInv, PopCas
  PROVE  /\ QueueIInv'
         /\ Deque!PopBack \/ UNCHANGED <<Content, taken>>
         /\ Content' = <<>>
<1>1. /\ opc = "popCas" /\ stores = <<>> /\ opc' = "idle" /\ bottom <= m_top /\ m_bottom = bottom
      /\ bottom' = bottom + 1 /\ stores' = Append(stores, StoreBottom(bottom + 1))
      /\ UNCHANGED <<m_buf, m_bottom, offered, overflowed, pops, thiefVars>>
  BY DEF PopCas, Restore, QueueIInv, StoresInOrder
<1>2. End = bottom + 1 /\ End' = bottom + 1
  BY <1>1 DEF End
<1>3. CASE m_top = bottom
  <2> DEFINE v == m_buf[Slot(bottom)]
  <2>1. m_top' = bottom + 1 /\ taken' = [taken EXCEPT ![v] = @ + 1]
    BY <1>3 DEF PopCas, Take
  <2>2. bottom \in m_top..(End - 1) /\ bottom \notin m_top'..(End' - 1) /\ m_top' \in Int /\ End' \in Int
        /\ m_top <= m_top' /\ End' <= End /\ m_top' = End'
    BY <1>2, <1>3, <2>1, Facts
  <2>3. v = Seen(m_buf, stores, bottom)
    <3>1. Drained(stores, bottom)
      BY <1>1 DEF Drained
    <3> QED BY <3>1, Facts, SeenDrained
  <2> HIDE DEF v
  <2>4. v \in Tasks /\ taken' \in [Tasks -> 0..1] /\ \A u \in Tasks : u > offered => taken'[u] = 0
    <3>1. /\ v \in Tasks /\ [taken EXCEPT ![v] = @ + 1] \in [Tasks -> 0..1]
          /\ Untaken(m_buf, stores, m_top', End', offered, [taken EXCEPT ![v] = @ + 1])
      BY <2>2, <2>3, Takes
    <3> QED BY <2>1, <3>1 DEF Untaken
  <2>5. /\ stores' \in Seq(StoreRecords) /\ Len(stores') = 1 /\ stores' # <<>>
        /\ stores'[1] = StoreBottom(bottom + 1)
    <3>1. StoreBottom(bottom + 1) \in StoreRecords /\ stores' = <<StoreBottom(bottom + 1)>>
      BY <1>1, Facts DEF StoreBottom, StoreRecords, BottomCell
    <3> QED BY <3>1
  <2>6. QueueTypes'
    <3>1. m_top' \in 0..MaxTasks /\ bottom' \in -1..MaxTasks
      BY <1>1, <1>2, <1>3, <2>1, Facts
    <3> QED BY <1>1, <2>4, <2>5, <3>1 DEF QueueIInv, QueueTypes, QueueTypeOK, thiefVars
  <2>7. Window'
    BY <1>1, <1>2, <2>2, Facts DEF Window
  <2>8. StoresInOrder'
    <3>1. m_bottom' <= End'
      BY <1>1, <1>2, Facts
    <3>2. ASSUME NEW CONSTANT k \in 1..Len(stores') PROVE Ordered(stores', k, m_bottom', m_top', End')
      <4>1. k = 1
        BY <2>5
      <4> QED BY <1>2, <2>5, <4>1, Facts DEF Ordered, StoreBottom
    <3> QED BY <1>1, <2>5, <3>1, <3>2 DEF StoresInOrder
  <2>9. Fresh'
    <3>1. m_top'..(End' - 1) = {}
      <4>1. m_top' = bottom + 1 /\ End' - 1 = bottom /\ bottom \in Int
        BY <1>2, <2>1, Facts
      <4> QED BY <4>1
    <3> QED BY <1>1, <2>4, <3>1 DEF Fresh, Untaken
  <2>10. ThievesAgree'
    <3>1. \A t \in Thieves : ttop[t] <= m_top /\ ttop[t] \in Nat
      BY DEF QueueIInv, ThievesAgree, QueueTypes, QueueTypeOK
    <3>2. \A t \in Thieves : ttop'[t] < m_top'
      BY <1>1, <1>3, <2>1, <3>1, Facts DEF thiefVars
    <3> QED BY <2>2, <3>1, <3>2, <1>1 DEF ThievesAgree, thiefVars
  <2>11. Content' = <<>>
    BY <2>2, BetweenNothing DEF Content
  <2>12. Deque!PopBack
    <3>1. m_top < End /\ End - 1 = bottom /\ m_top \in Int
      BY <1>2, <1>3, Facts
    <3>2. Content # <<>> /\ v = Content[Len(Content)]
      BY <2>3, <3>1, ContentEnds
    <3>3. SubSeq(Content, 1, Len(Content) - 1) = <<>>
      <4>1. Between(m_buf, stores, m_top, bottom) = <<>>
        BY <1>3, Facts, BetweenNothing
      <4> QED BY <3>1, <4>1, ContentEnds
    <3> QED BY <2>1, <2>11, <3>2, <3>3 DEF Deque!PopBack, Deque!Take, Deque!Front, Deque!Last
  <2> QED BY <2>6, <2>7, <2>8, <2>9, <2>10, <2>11, <2>12 DEF QueueIInv
<1>4. CASE m_top # bottom
  <2>1. m_top' = m_top /\ taken' = taken /\ m_top = End
    BY <1>1, <1>2, <1>4, Facts DEF PopCas
  <2>2. End' = End /\ bottom + 1 \in -1..MaxTasks /\ bottom + 1 <= End /\ pops' \in 0..MaxPops
    BY <1>1, <1>2, Facts DEF QueueIInv, QueueTypes, QueueTypeOK
  <2>3. QueueIInv' /\ Content' = Content
    BY <1>1, <2>1, <2>2, ClaimStep
  <2> QED BY <2>1, <2>3, ContentNothing
<1> QED BY <1>3, <1>4

\* A thief takes the oldest task.
LEMMA StealCasStep ==
  ASSUME QueueIInv, NEW t \in Thieves, StealCas(t)
  PROVE  QueueIInv' /\ (Deque!StealFront \/ UNCHANGED <<Content, taken>>)
<1>1. /\ tpc[t] = "cas" /\ tpc' = [tpc EXCEPT ![t] = "idle"]
      /\ UNCHANGED <<m_buf, m_bottom, ttop, tval, steals, ownerVars>>
  BY DEF StealCas
<1>2. UNCHANGED <<stores, bottom, opc, offered, overflowed, pops>> /\ End' = End
  BY <1>1 DEF ownerVars, End
<1>3. QueueTypeOK /\ tpc' \in [Thieves -> {"idle", "bottom", "read", "cas"}]
  BY <1>1 DEF QueueIInv, QueueTypes, QueueTypeOK
<1>4. \A u \in Thieves : u # t => tpc'[u] = tpc[u]
  BY <1>1, <1>3 DEF QueueTypeOK
<1>5. tpc'[t] = "idle"
  BY <1>1, <1>3 DEF QueueTypeOK
<1>6. CASE m_top = ttop[t]
  <2> DEFINE v == tval[t]
  <2>1. m_top' = m_top + 1 /\ taken' = [taken EXCEPT ![v] = @ + 1]
    BY <1>6 DEF StealCas, Take
  <2>2. m_top < End /\ Drained(stores, m_top) /\ v = m_buf[Slot(m_top)]
    BY <1>1, <1>6 DEF QueueIInv, ThievesAgree
  <2>3. v = Seen(m_buf, stores, m_top)
    BY <2>2, Facts, SeenDrained
  <2>4. m_top \in m_top..(End - 1) /\ m_top \notin (m_top + 1)..(End - 1) /\ m_top + 1 \in Int /\ End \in Int
        /\ m_top <= m_top + 1 /\ End <= End
    BY <2>2, Facts
  <2> HIDE DEF v
  <2>5. /\ v \in Tasks /\ taken' \in [Tasks -> 0..1]
        /\ Untaken(m_buf, stores, m_top', End, offered, taken')
    BY <2>1, <2>3, <2>4, Takes
  <2>6. QueueTypes'
    <3>1. m_top' \in 0..MaxTasks
      BY <2>1, <2>2, Facts
    <3> QED BY <1>1, <1>2, <1>3, <2>5, <3>1 DEF QueueIInv, QueueTypes, QueueTypeOK
  <2>7. Window'
    BY <1>1, <1>2, <2>1, <2>2, Facts DEF Window
  <2>8. StoresInOrder'
    <3>1. m_bottom' <= End' /\ (opc' = "popCas" => bottom' <= m_top')
      BY <1>1, <1>2, <2>1, Facts DEF QueueIInv, StoresInOrder
    <3>2. ASSUME NEW CONSTANT k \in 1..Len(stores) PROVE Ordered(stores, k, m_bottom, m_top', End)
      <4>1. Ordered(stores, k, m_bottom, m_top, End) /\ stores[k].at # m_top
        BY <2>2 DEF QueueIInv, StoresInOrder, Drained
      <4>2. stores[k].at \in m_top..(End - 1) => stores[k].at \in m_top'..(End - 1)
        BY <2>1, <4>1, Facts, SMTT(30)
      <4> QED BY <4>1, <4>2 DEF Ordered
    <3> QED BY <1>1, <1>2, <3>1, <3>2 DEF QueueIInv, StoresInOrder
  <2>9. Fresh'
    BY <1>1, <1>2, <2>5 DEF Fresh
  <2>10. ThievesAgree'
    <3>1. \A u \in Thieves : ttop[u] <= m_top /\ ttop[u] \in Nat
      BY <1>3 DEF QueueIInv, ThievesAgree, QueueTypeOK
    <3>2. \A u \in Thieves : ttop'[u] < m_top' /\ ttop'[u] <= m_top' /\ ttop'[u] # m_top'
      BY <1>1, <2>1, <3>1, Facts
    <3> QED BY <3>2 DEF ThievesAgree
  <2>11. Deque!StealFront
    <3>1. Content' = Tail(Content) /\ Content # <<>> /\ v = Head(Content)
      <4>1. Content' = Between(m_buf, stores, m_top + 1, End)
        BY <1>1, <1>2, <2>1 DEF Content
      <4> QED BY <2>2, <2>3, <4>1, ContentEnds
    <3> QED BY <2>1, <3>1 DEF Deque!StealFront, Deque!Take
  <2> QED BY <2>6, <2>7, <2>8, <2>9, <2>10, <2>11 DEF QueueIInv
<1>7. CASE m_top # ttop[t]
  <2>1. m_top' = m_top /\ taken' = taken
    BY <1>7 DEF StealCas
  <2>2. UNCHANGED <<m_buf, m_top, m_bottom, taken, ownerVars>>
    BY <1>1, <2>1
  <2>3. QueueTypes'
    BY <1>1, <1>2, <1>3, <2>1 DEF QueueIInv, QueueTypes, QueueTypeOK
  <2>4. ThievesAgree'
    BY <1>1, <1>2, <1>4, <1>5, <2>1 DEF QueueIInv, ThievesAgree
  <2> QED BY <2>1, <2>2, <2>3, <2>4, QuietStep DEF QueueIInv
<1> QED BY <1>6, <1>7

-----------------------------------------------------------------------------
(* push.                                                                   *)

\* The cells that a push writes: c tasks from number o + 1, from index b.
Slots(b, o, c) == [i \in 1..c |-> StoreSlot(b + i - 1, o + i)]

\* su is st and what such a push buffers: the cells in turn, then m_bottom.
Buffered(st, su, b, o, c) ==
  /\ su \in Seq(StoreRecords) /\ Len(su) = Len(st) + c + 1
  /\ \A k \in 1..Len(st) : su[k] = st[k]
  /\ \A i \in 1..c : su[Len(st) + i].at = b + i - 1 /\ su[Len(st) + i].val = o + i
  /\ su[Len(st) + c + 1] = StoreBottom(b + c)

\* The fields of a store.
LEMMA StoreFields ==
  ASSUME NEW i \in Int, NEW v \in Int
  PROVE  /\ StoreSlot(i, v) \in StoreRecords /\ StoreSlot(i, v).at = i /\ StoreSlot(i, v).val = v
         /\ StoreBottom(v) \in StoreRecords
         /\ StoreBottom(v).at = BottomCell /\ StoreBottom(v).val = v /\ BottomCell = -1
BY DEF StoreSlot, StoreBottom, StoreRecords, BottomCell

\* What a push buffers.
LEMMA PushedStores ==
  ASSUME NEW st \in Seq(StoreRecords), NEW c \in Nat, NEW b \in Int, NEW o \in Int
  PROVE  Buffered(st, st \o Slots(b, o, c) \o <<StoreBottom(b + c)>>, b, o, c)
<1> DEFINE cells == Slots(b, o, c)
           n == Len(st)
           mid == st \o cells
           last == StoreBottom(b + c)
           su == Append(mid, last)
<1>1. \A i \in 1..c : /\ cells[i] \in StoreRecords /\ cells[i].at = b + i - 1 /\ cells[i].val = o + i
  <2> SUFFICES ASSUME NEW i \in 1..c
               PROVE  cells[i] \in StoreRecords /\ cells[i].at = b + i - 1 /\ cells[i].val = o + i
    OBVIOUS
  <2>1. cells[i] = StoreSlot(b + i - 1, o + i) /\ b + i - 1 \in Int /\ o + i \in Int
    BY DEF Slots
  <2> QED BY <2>1, StoreFields
<1>2. cells \in [1..c -> StoreRecords]
  <2>1. DOMAIN cells = 1..c /\ cells = [i \in 1..c |-> cells[i]]
    BY DEF Slots
  <2> HIDE DEF cells
  <2> QED BY <1>1, <2>1
<1>3. last \in StoreRecords
  BY StoreFields
<1> HIDE DEF cells, last
<1>4. cells \in Seq(StoreRecords) /\ Len(cells) = c
  BY <1>2
<1>5. n \in Nat
  BY LenProperties
<1>6. /\ mid \in Seq(StoreRecords) /\ Len(mid) = n + c
      /\ \A k \in 1..(n + c) : mid[k] = IF k <= n THEN st[k] ELSE cells[k - n]
  BY <1>4, ConcatProperties
<1> HIDE DEF mid
<1>7. /\ su \in Seq(StoreRecords) /\ Len(su) = n + c + 1
      /\ \A k \in 1..(n + c) : su[k] = mid[k]
      /\ su[n + c + 1] = last
  BY <1>3, <1>5, <1>6, AppendProperties
<1>8. su = mid \o <<last>>
  BY <1>3, <1>6, AppendIsConcat
<1> HIDE DEF su
<1>9. \A k \in 1..n : su[k] = st[k]
  BY <1>5, <1>6, <1>7
<1>10. ASSUME NEW i \in 1..c PROVE su[n + i].at = b + i - 1 /\ su[n + i].val = o + i
  <2>1. n + i \in 1..(n + c) /\ ~(n + i <= n) /\ n + i - n = i
    BY <1>5
  <2>2. su[n + i] = cells[i]
    BY <1>6, <1>7, <2>1
  <2> QED BY <1>1, <2>2
<1>11. Buffered(st, su, b, o, c)
  BY <1>7, <1>9, <1>10 DEF Buffered, last
<1> QED BY <1>8, <1>11 DEF mid, last, cells

\* The places of what a push buffers.
LEMMA PushedPlaces ==
  ASSUME NEW n \in Nat, NEW c \in Nat, NEW k \in 1..(n + c + 1)
  PROVE  \/ k \in 1..n
         \/ k - n \in 1..c /\ k = n + (k - n)
         \/ k = n + c + 1
OBVIOUS

\* A place of the buffer and what it holds.
BufferedAt(st, su, b, o, c, k) ==
  \/ k \in 1..Len(st) /\ su[k] = st[k]
  \/ /\ k \notin 1..Len(st) /\ k - Len(st) \in 1..c
     /\ su[k].at = b + (k - Len(st)) - 1 /\ su[k].val = o + (k - Len(st))
  \/ /\ k \notin 1..Len(st) /\ k = Len(st) + c + 1
     /\ su[k].at = BottomCell /\ su[k].val = b + c

LEMMA PushedAt ==
  ASSUME NEW st \in Seq(StoreRecords), NEW c \in Nat, NEW b \in Int, NEW o \in Int, NEW su,
         Buffered(st, su, b, o, c), NEW k \in 1..Len(su)
  PROVE  BufferedAt(st, su, b, o, c, k)
<1> DEFINE n == Len(st)
           i == k - n
<1>1. n \in Nat /\ Len(su) = n + c + 1
  BY LenProperties DEF Buffered
<1>2. \/ k \in 1..n
      \/ i \in 1..c /\ k = n + i /\ k \notin 1..n
      \/ k = n + c + 1 /\ k \notin 1..n
  BY <1>1
<1>3. CASE k \in 1..n
  BY <1>3 DEF Buffered, BufferedAt
<1>4. CASE i \in 1..c /\ k = n + i /\ k \notin 1..n
  <2> HIDE DEF i
  <2>1. su[n + i].at = b + i - 1 /\ su[n + i].val = o + i
    BY <1>4 DEF Buffered
  <2>2. su[k].at = b + i - 1 /\ su[k].val = o + i
    BY <1>4, <2>1
  <2> QED BY <1>4, <2>2 DEF i, BufferedAt
<1>5. CASE k = n + c + 1 /\ k \notin 1..n
  <2>1. su[k] = StoreBottom(b + c) /\ b + c \in Int
    BY <1>5 DEF Buffered
  <2> QED BY <1>5, <2>1, StoreFields DEF BufferedAt
<1> QED BY <1>2, <1>3, <1>4, <1>5

\* What is still buffered stays in order.
LEMMA PushedOrdered ==
  ASSUME NEW st \in Seq(StoreRecords), NEW c \in Nat, NEW b \in Nat, NEW o \in Nat, NEW su,
         Buffered(st, su, b, o, c), NEW low \in Int, NEW top \in Nat, low <= b, top <= b,
         o + c <= MaxTasks, MaxTasks \in Nat, c >= 1,
         \A k \in 1..Len(st) : Ordered(st, k, low, top, b), NEW k \in 1..Len(su)
  PROVE  Ordered(su, k, low, top, b + c)
<1> DEFINE n == Len(st)
           i == k - n
<1>1. n \in Nat /\ Len(su) = n + c + 1 /\ k \in Nat /\ k >= 1 /\ k <= n + c + 1
  BY LenProperties DEF Buffered
<1>2. ASSUME NEW j \in 1..n
      PROVE  \/ st[j].at = BottomCell /\ st[j].val \in -1..b
             \/ st[j].at \in top..(b - 1) /\ st[j].at # BottomCell
  <2>1. Ordered(st, j, low, top, b)
    OBVIOUS
  <2> QED BY <2>1 DEF Ordered, BottomCell
<1>3. CASE k \in 1..n
  <2>1. Ordered(st, k, low, top, b) /\ su[k] = st[k]
    BY <1>3 DEF Buffered
  <2>2. \A j \in 1..(k - 1) : j \in 1..n
    BY <1>1, <1>3
  <2>3. \A j \in 1..(k - 1) : su[j] = st[j]
    BY <2>2 DEF Buffered
  <2>4. CASE st[k].at = BottomCell /\ st[k].val \in -1..b
    <3>1. st[k].val \in -1..(b + c)
      BY <2>4
    <3> QED BY <2>1, <2>4, <3>1 DEF Ordered
  <2>5. CASE ~(st[k].at = BottomCell /\ st[k].val \in -1..b)
    <3>1. st[k].at \in top..(b - 1)
      BY <2>1, <2>5 DEF Ordered
    <3>2. st[k].at \in top..(b + c - 1)
      BY <3>1
    <3>3. /\ st[k].at # BottomCell \/ st[k].val \notin -1..b
          /\ low <= st[k].at /\ st[k].val \in Tasks
          /\ \A j \in 1..(k - 1) :
               IF st[j].at = BottomCell THEN st[j].val <= st[k].at ELSE st[j].at < st[k].at
      BY <2>1, <2>5 DEF Ordered
    <3>4. \A j \in 1..(k - 1) :
            IF su[j].at = BottomCell THEN su[j].val <= su[k].at ELSE su[j].at < su[k].at
      BY <2>1, <2>3, <3>3
    <3> QED BY <2>1, <3>2, <3>3, <3>4 DEF Ordered
  <2> QED BY <2>4, <2>5
<1>4. CASE k \notin 1..n /\ i \in 1..c /\ su[k].at = b + i - 1 /\ su[k].val = o + i
  <2>1. /\ b + i - 1 \in top..(b + c - 1) /\ low <= b + i - 1 /\ o + i \in Tasks
    BY <1>4, SMTT(30) DEF Tasks
  <2>2. ASSUME NEW j \in 1..(k - 1)
        PROVE  IF su[j].at = BottomCell THEN su[j].val <= b + i - 1 ELSE su[j].at < b + i - 1
    <3>1. j \in 1..Len(su) /\ j < k
      BY <1>1
    <3>2. CASE j \in 1..n /\ su[j] = st[j]
      <4>1. b <= b + i - 1 /\ b + i - 1 \in Int
        BY <1>1, <1>4, SMTT(30)
      <4>2. st[j].at = BottomCell => st[j].val <= b + i - 1
        BY <1>2, <3>2, <4>1, SMTT(30) DEF BottomCell
      <4>3. st[j].at # BottomCell => st[j].at < b + i - 1
        BY <1>2, <3>2, <4>1
      <4> QED BY <3>2, <4>2, <4>3
    <3>3. CASE j - n \in 1..c /\ su[j].at = b + (j - n) - 1
      <4>1. j - n < i
        BY <1>1, <3>1
      <4>2. b + (j - n) - 1 # BottomCell /\ b + (j - n) - 1 < b + i - 1
        BY <1>1, <1>4, <3>3, <4>1, SMTT(30) DEF BottomCell
      <4> QED BY <3>3, <4>2
    <3>4. ~(j = n + c + 1)
      BY <1>1, <3>1
    <3>5. BufferedAt(st, su, b, o, c, j)
      BY <3>1, PushedAt
    <3> QED BY <3>1, <3>2, <3>3, <3>4, <3>5 DEF BufferedAt
  <2>3. /\ su[k].at \in top..(b + c - 1) /\ low <= su[k].at
        /\ su[k].val \in Tasks
    BY <1>4, <2>1
  <2>4. \A j \in 1..(k - 1) :
          IF su[j].at = BottomCell THEN su[j].val <= su[k].at ELSE su[j].at < su[k].at
    BY <1>4, <2>2
  <2> HIDE DEF n, i
  <2> QED BY <2>3, <2>4 DEF Ordered
<1>5. CASE su[k].at = BottomCell /\ su[k].val = b + c
  <2>1. b + c \in -1..(b + c)
    OBVIOUS
  <2> QED BY <1>5, <2>1 DEF Ordered
<1>6. BufferedAt(st, su, b, o, c, k)
  BY PushedAt
<1> QED BY <1>3, <1>4, <1>5, <1>6 DEF BufferedAt

\* The cells from top to b are as they were, the c next ones hold the tasks from
\* number o + 1.
Keeps(buf, st, su, top, b, o, c) ==
  /\ \A i \in top..(b - 1) : Seen(buf, su, i) = Seen(buf, st, i)
  /\ \A i \in top..(b - 1) : Drained(st, i) => Drained(su, i)
  /\ \A i \in 1..c : Seen(buf, su, b + i - 1) = o + i

\* A push keeps the cells in use.
LEMMA PushedSeen ==
  ASSUME NEW st \in Seq(StoreRecords), NEW c \in Nat, NEW b \in Nat, NEW o \in Nat, NEW su,
         Buffered(st, su, b, o, c), NEW buf, NEW low \in Int, NEW top \in Nat, top <= b,
         \A k \in 1..Len(st) : Ordered(st, k, low, top, b)
  PROVE  Keeps(buf, st, su, top, b, o, c)
<1> DEFINE n == Len(st)
<1>1. n \in Nat /\ Len(su) = n + c + 1 /\ 1..n \subseteq 1..Len(su)
  BY LenProperties DEF Buffered
<1>2. DOMAIN st = 1..n /\ DOMAIN su = 1..Len(su)
  BY DEF Buffered
<1>3. ASSUME NEW j \in 1..n PROVE st[j].at < b /\ st[j] = su[j] /\ st[j].at \in Int
  <2>1. Ordered(st, j, low, top, b)
    OBVIOUS
  <2>2. st[j].at < b /\ st[j].at \in Int
    BY <2>1 DEF Ordered, BottomCell
  <2> QED BY <2>2 DEF Buffered
<1>4. ASSUME NEW i \in top..(b - 1), NEW k \in 1..Len(su), su[k].at = i PROVE k \in 1..n
  <2>1. i \in Int /\ i >= 0 /\ i < b
    OBVIOUS
  <2>2. ~(k - n \in 1..c /\ su[k].at = b + (k - n) - 1)
    BY <1>1, <1>4, <2>1
  <2>3. ~(su[k].at = BottomCell)
    BY <1>4, <2>1 DEF BottomCell
  <2>4. BufferedAt(st, su, b, o, c, k)
    BY PushedAt
  <2> QED BY <2>2, <2>3, <2>4 DEF BufferedAt
<1>5. ASSUME NEW i \in top..(b - 1) PROVE Seen(buf, su, i) = Seen(buf, st, i)
  <2>1. ASSUME NEW s, s.at = i PROVE s \in Range(st) <=> s \in Range(su)
    <3>1. ASSUME s \in Range(st) PROVE s \in Range(su)
      <4>1. PICK k \in 1..n : s = st[k]
        BY <1>2, <3>1 DEF Range
      <4>2. k \in 1..Len(su) /\ su[k] = s
        BY <1>1, <1>3, <4>1
      <4> QED BY <1>2, <4>2 DEF Range
    <3>2. ASSUME s \in Range(su) PROVE s \in Range(st)
      <4>1. PICK k \in 1..Len(su) : s = su[k]
        BY <1>2, <3>2 DEF Range
      <4>2. k \in 1..n /\ st[k] = s
        BY <1>3, <1>4, <2>1, <4>1
      <4> QED BY <1>2, <4>2 DEF Range
    <3> QED BY <3>1, <3>2
  <2> QED BY <2>1, SeenSame
<1>6. ASSUME NEW i \in top..(b - 1), Drained(st, i) PROVE Drained(su, i)
  <2>1. ASSUME NEW k \in 1..Len(su), su[k].at = i PROVE FALSE
    <3>1. k \in 1..n /\ st[k].at = i
      BY <1>3, <1>4, <2>1
    <3> QED BY <1>6, <3>1 DEF Drained
  <2> QED BY <2>1 DEF Drained
<1>7. ASSUME NEW i \in 1..c PROVE Seen(buf, su, b + i - 1) = o + i
  <2> DEFINE k == n + i
             at == b + i - 1
  <2>1. k \in 1..Len(su) /\ at \in Nat /\ at >= b
    BY <1>1
  <2>2. su[k].at = at /\ su[k].val = o + i
    BY DEF Buffered
  <2>3. ASSUME NEW j \in 1..Len(su), su[j].at = at PROVE j = k
    <3>1. CASE j \in 1..n
      <4>1. su[j].at < b /\ su[j].at \in Int
        BY <1>3, <3>1
      <4> QED BY <2>1, <2>3, <4>1
    <3>2. CASE j - n \in 1..c /\ su[j].at = b + (j - n) - 1
      <4>1. b + (j - n) - 1 = b + i - 1 /\ j \in Int
        BY <2>3, <3>2, SMTT(30)
      <4> QED BY <1>1, <4>1, SMTT(30)
    <3>3. CASE su[j].at = BottomCell
      BY <2>1, <2>3, <3>3 DEF BottomCell
    <3>4. \/ j \in 1..n
          \/ j - n \in 1..c /\ su[j].at = b + (j - n) - 1
          \/ su[j].at = BottomCell
      <4>1. BufferedAt(st, su, b, o, c, j)
        BY PushedAt
      <4> QED BY <4>1 DEF BufferedAt
    <3> HIDE DEF k, at
    <3> QED BY <3>1, <3>2, <3>3, <3>4
  <2> HIDE DEF k, at
  <2>4. \A j \in 1..Len(su) : su[j].at = su[k].at => j = k
    BY <2>2, <2>3
  <2>5. su \in Seq(StoreRecords)
    BY DEF Buffered
  <2>6. Seen(buf, su, su[k].at) = su[k].val
    BY <2>1, <2>4, <2>5, SeenPending
  <2> QED BY <2>2, <2>6 DEF at
<1> QED BY <1>5, <1>6, <1>7 DEF Keeps

\* The tasks in the ring are still distinct, and none has been taken.
LEMMA PushedUntaken ==
  ASSUME NEW st, NEW su, NEW buf, NEW tk, NEW c \in Nat, NEW b \in Nat, NEW o \in Nat, NEW m \in Nat,
         NEW top \in Nat, top <= b, c <= m, o + m <= MaxTasks, MaxTasks \in Nat,
         Untaken(buf, st, top, b, o, tk),
         \A i \in top..(b - 1) : Seen(buf, su, i) = Seen(buf, st, i),
         \A i \in 1..c : Seen(buf, su, b + i - 1) = o + i
  PROVE  Untaken(buf, su, top, b + c, o + m, tk)
<1> DEFINE val(i) == Seen(buf, su, i)
<1>1. \A i \in top..(b - 1) : val(i) \in 1..o /\ tk[val(i)] = 0
  BY DEF Untaken
<1>2. \A i, j \in top..(b - 1) : val(i) = val(j) => i = j
  BY DEF Untaken
<1>3. \A v \in Tasks : v > o => tk[v] = 0
  BY DEF Untaken
<1>4. ASSUME NEW i \in top..(b + c - 1)
      PROVE  \/ i \in top..(b - 1)
             \/ i \in b..(b + c - 1) /\ val(i) = o + (i - b) + 1
  <2>1. CASE i >= b
    <3> DEFINE k == i - b + 1
    <3>1. k \in 1..c /\ b + k - 1 = i /\ o + k = o + (i - b) + 1
      BY <2>1
    <3> HIDE DEF k
    <3>2. val(i) = o + k
      BY <3>1
    <3> QED BY <2>1, <3>1, <3>2
  <2>2. CASE i < b
    BY <2>2
  <2> QED BY <2>1, <2>2
<1> HIDE DEF val
<1>5. ASSUME NEW i \in top..(b + c - 1) PROVE val(i) \in 1..(o + m) /\ tk[val(i)] = 0
  <2>1. CASE i \in top..(b - 1)
    BY <1>1, <2>1
  <2>2. CASE i \in b..(b + c - 1) /\ val(i) = o + (i - b) + 1
    <3>1. val(i) \in 1..(o + m) /\ val(i) > o /\ val(i) \in Tasks
      BY <2>2 DEF Tasks
    <3> QED BY <1>3, <3>1
  <2> QED BY <1>4, <2>1, <2>2
<1>6. ASSUME NEW i \in top..(b + c - 1), NEW j \in top..(b + c - 1), val(i) = val(j) PROVE i = j
  <2>1. CASE i \in top..(b - 1) /\ j \in top..(b - 1)
    BY <1>2, <1>6, <2>1
  <2>2. CASE i \in b..(b + c - 1) /\ val(i) = o + (i - b) + 1 /\ j \in top..(b - 1)
    <3>1. val(j) <= o /\ val(i) > o /\ val(j) \in Int
      BY <1>1, <2>2
    <3> QED BY <1>6, <3>1
  <2>3. CASE j \in b..(b + c - 1) /\ val(j) = o + (j - b) + 1 /\ i \in top..(b - 1)
    <3>1. val(i) <= o /\ val(j) > o /\ val(i) \in Int
      BY <1>1, <2>3
    <3> QED BY <1>6, <3>1
  <2>4. CASE /\ i \in b..(b + c - 1) /\ val(i) = o + (i - b) + 1
             /\ j \in b..(b + c - 1) /\ val(j) = o + (j - b) + 1
    <3>1. o + (i - b) + 1 = o + (j - b) + 1
      BY <1>6, <2>4
    <3>2. i \in Int /\ j \in Int
      OBVIOUS
    <3> QED BY <3>1, <3>2
  <2> QED BY <1>4, <2>1, <2>2, <2>3, <2>4
<1>7. \A v \in Tasks : v > o + m => tk[v] = 0
  BY <1>3 DEF Tasks
<1> QED BY <1>5, <1>6, <1>7 DEF Untaken, val

\* One more index, one more task at the end.
LEMMA BetweenAppend ==
  ASSUME NEW top \in Int, NEW end \in Int, NEW buf, NEW st, NEW su, top <= end,
         \A i \in top..(end - 1) : Seen(buf, st, i) \in Tasks /\ Seen(buf, su, i) = Seen(buf, st, i),
         Seen(buf, su, end) \in Tasks
  PROVE  Between(buf, su, top, end + 1) = Append(Between(buf, st, top, end), Seen(buf, su, end))
<1> DEFINE old == Between(buf, st, top, end)
           new == Between(buf, su, top, end + 1)
           last == Seen(buf, su, end)
           n == end - top
<1>1. n \in Nat /\ end = top + n /\ end + 1 - top = n + 1
  OBVIOUS
<1>2. old \in Seq(Tasks) /\ Len(old) = n /\ \A k \in 1..n : old[k] = Seen(buf, st, top + k - 1)
  BY BetweenShape
<1>3. /\ new \in Seq(Tasks) /\ Len(new) = n + 1
      /\ \A k \in 1..(n + 1) : new[k] = Seen(buf, su, top + k - 1)
  <2>1. \A i \in top..end : Seen(buf, su, i) \in Tasks
    <3>1. \A i \in top..end : i \in top..(end - 1) \/ i = end
      OBVIOUS
    <3> QED BY <3>1
  <2>2. \A i \in top..(end + 1 - 1) : Seen(buf, su, i) \in Tasks
    BY <2>1
  <2>3. /\ new \in Seq(Tasks) /\ Len(new) = end + 1 - top
        /\ \A k \in 1..(end + 1 - top) : new[k] = Seen(buf, su, top + k - 1)
    <3>1. end + 1 \in Int /\ top <= end + 1
      OBVIOUS
    <3> QED BY <2>2, <3>1, BetweenShape
  <2> QED BY <1>1, <2>3
<1>4. \A k \in 1..n : top + k - 1 \in top..(end - 1)
  BY <1>1
<1>5. \A k \in 1..n : new[k] = old[k]
  <2>1. \A k \in 1..n : k \in 1..(n + 1)
    BY <1>1
  <2> QED BY <1>2, <1>3, <1>4, <2>1
<1>6. new[n + 1] = last
  <2>1. n + 1 \in 1..(n + 1) /\ top + (n + 1) - 1 = end
    BY <1>1
  <2> QED BY <1>3, <2>1
<1>7. last \in Tasks
  OBVIOUS
<1> HIDE DEF old, new, last, n
<1>8. /\ Append(old, last) \in Seq(Tasks) /\ Len(Append(old, last)) = n + 1
      /\ \A k \in 1..n : Append(old, last)[k] = old[k]
      /\ Append(old, last)[n + 1] = last
  BY <1>2, <1>7, AppendProperties
<1>9. \A k \in 1..(n + 1) : k \in 1..n \/ k = n + 1
  BY <1>1
<1>10. \A k \in 1..(n + 1) : new[k] = Append(old, last)[k]
  BY <1>5, <1>6, <1>8, <1>9
<1>11. new = Append(old, last)
  BY <1>3, <1>8, <1>10, SeqEqual
<1> QED BY <1>11 DEF old, new, last

\* Two more.
LEMMA BetweenAppendTwo ==
  ASSUME NEW top \in Int, NEW end \in Int, NEW buf, NEW st, NEW su, top <= end,
         \A i \in top..(end - 1) : Seen(buf, st, i) \in Tasks /\ Seen(buf, su, i) = Seen(buf, st, i),
         NEW next, next = end + 1, Seen(buf, su, end) \in Tasks, Seen(buf, su, next) \in Tasks
  PROVE  Between(buf, su, top, next + 1) =
           Between(buf, st, top, end) \o <<Seen(buf, su, end), Seen(buf, su, next)>>
<1> DEFINE old == Between(buf, st, top, end)
           x == Seen(buf, su, end)
           y == Seen(buf, su, next)
<1>1. Between(buf, su, top, end + 1) = Append(old, x)
  BY BetweenAppend
<1>2. Between(buf, su, top, next + 1) = Append(Append(old, x), y)
  <2>1. end + 1 \in Int /\ top <= end + 1 /\ end + 1 + 1 = end + 2
    OBVIOUS
  <2>2. \A i \in top..(end + 1 - 1) : Seen(buf, su, i) \in Tasks
    <3>1. \A i \in top..(end + 1 - 1) : i \in top..(end - 1) \/ i = end
      OBVIOUS
    <3> QED BY <3>1
  <2>3. Between(buf, su, top, end + 1 + 1) = Append(Between(buf, su, top, end + 1), y)
    BY <2>1, <2>2, BetweenAppend
  <2> QED BY <1>1, <2>1, <2>3
<1>3. old \in Seq(Tasks) /\ x \in Tasks /\ y \in Tasks
  BY BetweenShape
<1> HIDE DEF old, x, y
<1>4. Append(Append(old, x), y) = old \o <<x, y>>
  <2>1. Append(old, x) = old \o <<x>> /\ Append(old, x) \in Seq(Tasks)
    BY <1>3, AppendIsConcat, AppendProperties
  <2>2. Append(Append(old, x), y) = (old \o <<x>>) \o <<y>>
    BY <1>3, <2>1, AppendIsConcat
  <2>3. <<x>> \in Seq(Tasks) /\ <<y>> \in Seq(Tasks)
    BY <1>3
  <2>4. <<x>> \o <<y>> = <<x, y>>
    <3>1. <<x, y>> \in Seq(Tasks) /\ Len(<<x, y>>) = 2 /\ Len(<<x>>) = 1 /\ Len(<<y>>) = 1
      BY <1>3
    <3>2. <<x>> \o <<y>> \in Seq(Tasks) /\ Len(<<x>> \o <<y>>) = 2
      BY <2>3, <3>1, ConcatProperties
    <3>3. (<<x>> \o <<y>>)[1] = x /\ (<<x>> \o <<y>>)[2] = y
      BY <2>3, <3>1, ConcatProperties
    <3>4. \A k \in 1..2 : (<<x>> \o <<y>>)[k] = <<x, y>>[k]
      BY <3>3
    <3> QED BY <3>1, <3>2, <3>4, SeqEqual
  <2> QED BY <1>3, <2>2, <2>3, <2>4, ConcatAssociative
<1> QED BY <1>2, <1>4 DEF old, x, y

\* push stores as many as there is room for.
LEMMA PushStep ==
  ASSUME QueueIInv, NEW CONSTANT n \in {1, 2}, PushTasks(n)
  PROVE  QueueIInv' /\ (Deque!PushBack \/ UNCHANGED <<Content, taken>>)
<1> DEFINE count == IF n < Available THEN n ELSE Available
           b == bottom
           o == offered
           top == m_top
           buf == m_buf
           tk == taken
           st == stores
           su == stores'
<1>1. /\ opc = "idle" /\ o + n <= MaxTasks /\ offered' = o + n /\ bottom' = b + count
      /\ overflowed' = overflowed \cup (o + count + 1)..(o + n)
      /\ su = IF count = 0 THEN st ELSE st \o Slots(b, o, count) \o <<StoreBottom(b + count)>>
      /\ UNCHANGED <<m_buf, m_top, m_bottom, taken, opc, pops, thiefVars>>
  BY DEF PushTasks, Slots
<1>2. /\ Cap \in Nat /\ MaxTasks \in Nat /\ Tasks = 1..MaxTasks
      /\ End = b /\ b \in Nat /\ o \in Nat /\ top \in Nat /\ top <= b /\ b <= top + Cap /\ b <= o
      /\ m_bottom \in Int /\ m_bottom <= b /\ st \in Seq(StoreRecords) /\ Len(st) \in Nat
  BY <1>1, Facts DEF End, QueueIInv, StoresInOrder
<1>3. count \in Nat /\ count <= n /\ b + count <= top + Cap
  BY <1>2 DEF Available
<1>4. End' = b + count /\ n \in Nat
  BY <1>1 DEF End
<1>5. overflowed' \subseteq Tasks
  <2>1. overflowed \subseteq Tasks
    BY DEF QueueIInv, QueueTypes, QueueTypeOK
  <2>2. (o + count + 1)..(o + n) \subseteq Tasks
    BY <1>1, <1>2, <1>3, <1>4
  <2> QED BY <1>1, <2>1, <2>2
<1> HIDE DEF count
<1>6. /\ \A i \in top..(b - 1) : Seen(buf, su, i) = Seen(buf, st, i)
      /\ \A i \in top..(b - 1) : Drained(st, i) => Drained(su, i)
      /\ \A i \in 1..count : Seen(buf, su, b + i - 1) = o + i
      /\ su \in Seq(StoreRecords)
      /\ IF su = <<>> THEN m_bottom = b + count ELSE su[Len(su)] = StoreBottom(b + count)
      /\ \A k \in 1..Len(su) : Ordered(su, k, m_bottom, top, b + count)
  <2>1. /\ IF st = <<>> THEN m_bottom = b ELSE st[Len(st)] = StoreBottom(b)
        /\ \A k \in 1..Len(st) : Ordered(st, k, m_bottom, top, b)
    BY <1>2 DEF QueueIInv, StoresInOrder
  <2>2. CASE count = 0
    BY <1>1, <1>2, <2>1, <2>2
  <2>3. CASE count # 0
    <3>1. su = st \o Slots(b, o, count) \o <<StoreBottom(b + count)>>
      BY <1>1, <2>3
    <3> DEFINE low == m_bottom
    <3>2. low \in Int /\ low <= b /\ \A k \in 1..Len(st) : Ordered(st, k, low, top, b)
      BY <1>2, <2>1
    <3>3. count >= 1 /\ o + count <= MaxTasks
      BY <1>1, <1>2, <1>3, <2>3
    <3> HIDE DEF b, o, top, buf, st, su, low
    <3>4. Buffered(st, su, b, o, count)
      BY <1>2, <1>3, <3>1, PushedStores
    <3>5. \A k \in 1..Len(su) : Ordered(su, k, low, top, b + count)
      BY <1>2, <1>3, <3>2, <3>3, <3>4, PushedOrdered
    <3>6. /\ \A i \in top..(b - 1) : Seen(buf, su, i) = Seen(buf, st, i)
          /\ \A i \in top..(b - 1) : Drained(st, i) => Drained(su, i)
          /\ \A i \in 1..count : Seen(buf, su, b + i - 1) = o + i
      <4>1. st \in Seq(StoreRecords) /\ count \in Nat /\ b \in Nat /\ o \in Nat /\ top \in Nat /\ top <= b
        BY <1>2, <1>3
      <4>2. Keeps(buf, st, su, top, b, o, count)
        BY <3>2, <3>4, <4>1, PushedSeen
      <4> QED BY <4>2 DEF Keeps
    <3>7. /\ su \in Seq(StoreRecords) /\ su[Len(su)] = StoreBottom(b + count)
      BY <3>4 DEF Buffered
    <3>8. su # <<>>
      <4>1. Len(su) = Len(st) + count + 1
        BY <3>4 DEF Buffered
      <4> QED BY <1>2, <1>3, <4>1
    <3> QED BY <3>5, <3>6, <3>7, <3>8 DEF low
  <2> QED BY <2>2, <2>3
<1>7. QueueTypes'
  <2>1. bottom' \in -1..MaxTasks /\ offered' \in 0..MaxTasks
    BY <1>1, <1>2, <1>3, <1>4
  <2> QED BY <1>1, <1>5, <1>6, <2>1 DEF QueueIInv, QueueTypes, QueueTypeOK, thiefVars
<1>8. Window'
  BY <1>1, <1>2, <1>3, <1>4 DEF Window
<1>9. StoresInOrder'
  <2>1. m_bottom' <= End' /\ opc' # "popCas"
    BY <1>1, <1>2, <1>3, <1>4
  <2> QED BY <1>1, <1>4, <1>6, <2>1 DEF StoresInOrder
<1>10. Fresh'
  <2>1. Untaken(buf, st, top, b, o, tk)
    BY <1>2 DEF QueueIInv, Fresh
  <2> HIDE DEF b, o, top, buf, st, su, tk
  <2>2. Untaken(buf, su, top, b + count, o + n, tk)
    BY <1>1, <1>2, <1>3, <1>4, <1>6, <2>1, PushedUntaken, ZenonT(30)
  <2> QED BY <1>1, <1>4, <2>2 DEF Fresh, b, o, top, buf, st, su, tk
<1>11. ThievesAgree'
  <2>1. ASSUME m_top < End, Drained(stores, m_top) PROVE Drained(stores', m_top)
    <3>1. top \in top..(b - 1)
      BY <1>2, <2>1
    <3> QED BY <1>6, <2>1, <3>1
  <2>2. End' >= End /\ End' \in Int
    BY <1>2, <1>3, <1>4
  <2> QED BY <1>1, <2>1, <2>2, ThievesStep
<1>12. Deque!PushBack \/ UNCHANGED <<Content, taken>>
  <2>1. \A i \in top..(b - 1) : Seen(buf, st, i) \in Tasks
    BY <1>2, InRing
  <2>2. Content = Between(buf, st, top, b) /\ Content' = Between(buf, su, top, b + count)
    BY <1>1, <1>2, <1>4 DEF Content
  <2>3. Content \in Seq(Tasks) /\ Len(Content) = b - top
    BY <1>2, ContentType
  <2>4. count = 0 \/ count = 1 \/ count = 2
    BY <1>3
  <2>5. CASE count = 0
    <3> HIDE DEF b, o, top, buf, st, su, tk
    <3>1. Between(buf, su, top, b) = Between(buf, st, top, b) /\ b + 0 = b
      BY <1>2, <1>6, BetweenSame
    <3> QED BY <1>1, <2>2, <2>5, <3>1 DEF tk
  <2>6. CASE count = 1
    <3>1. Seen(buf, su, b) = o + 1 /\ o + 1 \in Tasks
      <4>1. 1 \in 1..count /\ b + 1 - 1 = b
        BY <1>2, <2>6
      <4>2. o + 1 \in Tasks
        BY <1>1, <1>2, <1>3, <1>4, <2>6
      <4> QED BY <1>6, <4>1, <4>2
    <3>2. Between(buf, su, top, b + 1) = Append(Between(buf, st, top, b), o + 1)
      <4> HIDE DEF b, o, top, buf, st, su, tk
      <4>1. /\ top \in Int /\ b \in Int /\ top <= b /\ Seen(buf, su, b) \in Tasks
            /\ \A i \in top..(b - 1) : Seen(buf, st, i) \in Tasks /\ Seen(buf, su, i) = Seen(buf, st, i)
        BY <1>2, <1>6, <2>1, <3>1
      <4> QED BY <3>1, <4>1, BetweenAppend
    <3>3. Content' = Append(Content, o + 1)
      BY <2>2, <2>6, <3>2
    <3>4. Len(Content') <= Cap
      <4>1. Len(Content') = Len(Content) + 1
        BY <2>3, <3>1, <3>3, AppendProperties
      <4> QED BY <1>2, <1>3, <2>3, <2>6, <4>1
    <3> QED BY <1>1, <3>1, <3>3, <3>4 DEF Deque!PushBack
  <2>7. CASE count = 2
    <3>1. /\ Seen(buf, su, b) = o + 1 /\ Seen(buf, su, b + 1) = o + 2
          /\ o + 1 \in Tasks /\ o + 2 \in Tasks
      <4>1. 1 \in 1..count /\ 2 \in 1..count /\ b + 1 - 1 = b /\ b + 2 - 1 = b + 1
        BY <1>2, <2>7
      <4>2. o + 1 \in Tasks /\ o + 2 \in Tasks
        BY <1>1, <1>2, <1>3, <1>4, <2>7
      <4> QED BY <1>6, <4>1, <4>2
    <3>2. Between(buf, su, top, b + 2) = Between(buf, st, top, b) \o <<o + 1, o + 2>>
      <4> HIDE DEF b, o, top, buf, st, su, tk
      <4> DEFINE next == b + 1
      <4>1. /\ top \in Int /\ b \in Int /\ top <= b
            /\ Seen(buf, su, b) \in Tasks /\ Seen(buf, su, next) \in Tasks
            /\ \A i \in top..(b - 1) : Seen(buf, st, i) \in Tasks /\ Seen(buf, su, i) = Seen(buf, st, i)
        BY <1>2, <1>6, <2>1, <3>1
      <4>2. next = b + 1 /\ next + 1 = b + 2
        BY <4>1
      <4> HIDE DEF next
      <4>3. Between(buf, su, top, next + 1) = Between(buf, st, top, b) \o <<Seen(buf, su, b), Seen(buf, su, next)>>
        BY <4>1, <4>2, BetweenAppendTwo, SMTT(30)
      <4> QED BY <3>1, <4>2, <4>3
    <3>3. Content' = Content \o <<o + 1, o + 2>>
      BY <2>2, <2>7, <3>2
    <3>4. Len(Content') <= Cap
      <4>1. <<o + 1, o + 2>> \in Seq(Tasks) /\ Len(<<o + 1, o + 2>>) = 2
        BY <3>1
      <4>2. Len(Content') = Len(Content) + 2
        BY <2>3, <3>3, <4>1, ConcatProperties
      <4> QED BY <1>2, <1>3, <2>3, <2>7, <4>2
    <3>5. o + 2 = o + 1 + 1
      BY <1>2
    <3> QED BY <1>1, <3>1, <3>3, <3>4, <3>5 DEF Deque!PushBack
  <2> QED BY <2>4, <2>5, <2>6, <2>7
<1> QED BY <1>7, <1>8, <1>9, <1>10, <1>11, <1>12 DEF QueueIInv

-----------------------------------------------------------------------------
(* The invariant, the refinement and pop's promise.                        *)

\* The empty queue.
LEMMA InitHolds ==
  ASSUME QueueInit
  PROVE  QueueIInv /\ Deque!DequeInit
<1>1. /\ Cap \in Nat /\ Cap > 0 /\ MaxTasks \in Nat /\ MaxPops \in Nat /\ MaxSteals \in Nat
  BY QueueAssumption
<1>2. /\ m_top = 0 /\ m_bottom = 0 /\ bottom = 0 /\ stores = <<>> /\ opc = "idle" /\ offered = 0
      /\ taken = [v \in Tasks |-> 0] /\ End = 0
  BY DEF QueueInit, End
<1>3. QueueTypes
  BY <1>1 DEF QueueInit, QueueTypes, QueueTypeOK
<1>4. Window
  BY <1>1, <1>2 DEF Window
<1>5. StoresInOrder
  <2>1. Len(stores) = 0 /\ 1..0 = {}
    BY <1>2
  <2> QED BY <1>2, <2>1 DEF StoresInOrder
<1>6. Fresh
  <2>1. m_top..(End - 1) = {}
    BY <1>2
  <2> QED BY <1>2, <2>1 DEF Fresh, Untaken
<1>7. ThievesAgree
  BY <1>2 DEF QueueInit, ThievesAgree
<1>8. Content = <<>>
  BY <1>2, BetweenNothing DEF Content
<1> QED BY <1>2, <1>3, <1>4, <1>5, <1>6, <1>7, <1>8 DEF QueueIInv, Deque!DequeInit

\* Every step keeps the invariant, is a step of the deque or none, and a pop
\* that comes back with nothing leaves the queue empty.
LEMMA NextStep ==
  ASSUME QueueIInv, [QueueNext]_queueVars
  PROVE  /\ QueueIInv'
         /\ Deque!DequeNext \/ UNCHANGED <<Content, taken>>
         /\ opc # "idle" /\ opc' = "idle" /\ taken' = taken => Content' = <<>>
<1>1. ASSUME NEW CONSTANT n \in {1, 2}, PushTasks(n)
      PROVE  QueueIInv' /\ (Deque!PushBack \/ UNCHANGED <<Content, taken>>) /\ opc = "idle"
  BY <1>1, PushStep DEF PushTasks
<1>2. CASE PopClaim
  BY <1>2, PopClaimStep DEF PopClaim
<1>3. CASE PopFence
  BY <1>3, PopFenceStep DEF Deque!DequeNext
<1>4. CASE PopCas
  BY <1>4, PopCasStep DEF Deque!DequeNext
<1>5. CASE Drain
  BY <1>5, DrainStep DEF Drain
<1>6. ASSUME NEW t \in Thieves, StealTop(t) \/ StealBottom(t) \/ StealRead(t)
      PROVE  QueueIInv' /\ Content' = Content /\ taken' = taken /\ opc' = opc
  <2>1. taken' = taken /\ opc' = opc
    BY <1>6 DEF StealTop, StealBottom, StealRead, ownerVars
  <2> QED BY <1>6, <2>1, StealTopStep, StealBottomStep, StealReadStep
<1>7. ASSUME NEW t \in Thieves, StealCas(t)
      PROVE  QueueIInv' /\ (Deque!StealFront \/ UNCHANGED <<Content, taken>>) /\ opc' = opc
  BY <1>7, StealCasStep DEF StealCas, ownerVars
<1>8. CASE UNCHANGED queueVars
  <2>1. /\ UNCHANGED <<m_buf, m_top, m_bottom, taken, ownerVars>> /\ UNCHANGED thiefVars /\ opc' = opc
    BY <1>8 DEF queueVars, ownerVars
  <2>2. QueueTypes' /\ ThievesAgree'
    BY <2>1, QuietStep DEF QueueIInv, QueueTypes, QueueTypeOK, ThievesAgree, ownerVars, thiefVars
  <2> QED BY <2>1, <2>2, QuietStep DEF QueueIInv
<1>9. CASE PushTasks(1) \/ PushTasks(2)
  BY <1>1, <1>9 DEF Deque!DequeNext
<1>10. CASE \E t \in Thieves : StealTop(t) \/ StealBottom(t) \/ StealRead(t) \/ StealCas(t)
  BY <1>6, <1>7, <1>10 DEF Deque!DequeNext
<1> QED BY <1>2, <1>3, <1>4, <1>5, <1>8, <1>9, <1>10 DEF QueueNext

\* The indices fit the ring, the buffered stores are in order, the tasks in the
\* ring are fresh and every thief that will succeed holds the first of them.
THEOREM QueueInvariant == QueueSpec => []QueueIInv
<1>1. QueueInit => QueueIInv
  BY InitHolds
<1>2. QueueIInv /\ [QueueNext]_queueVars => QueueIInv'
  BY NextStep
<1> QED BY <1>1, <1>2, PTL DEF QueueSpec

\* The ring buffer is a deque: push appends, pop takes the newest task, steal
\* the oldest, each comes out once, however long the owner's stores of push()
\* and pop() take to reach the thieves.
THEOREM QueueIsDeque == QueueSpec => ImplementsDeque
<1>1. QueueInit => Deque!DequeInit
  BY InitHolds
<1>2. QueueIInv => QueueTypeOK
  BY DEF QueueIInv, QueueTypes
<1>3. QueueIInv /\ [QueueNext]_queueVars => [Deque!DequeNext]_<<Content, taken>>
  BY NextStep
<1> QED BY <1>1, <1>2, <1>3, QueueInvariant, PTL DEF QueueSpec, ImplementsDeque, Deque!DequeSpec

\* pop() returns nullptr only when the queue is empty.
THEOREM PopFailsOnlyWhenEmptyHolds == QueueSpec => PopFailsOnlyWhenEmpty
<1>1. QueueIInv /\ [QueueNext]_queueVars
        => [opc # "idle" /\ opc' = "idle" /\ taken' = taken => Content' = <<>>]_queueVars
  BY NextStep
<1> QED BY <1>1, QueueInvariant, PTL DEF QueueSpec, PopFailsOnlyWhenEmpty

-----------------------------------------------------------------------------
(* The shared work stack.                                                  *)

\* What a push is given: a chain of distinct Works, at least one.
LEMMA BatchIsChain ==
  ASSUME NEW S, NEW c \in Batches(S)
  PROVE  c \in Seq(S) /\ c # <<>> /\ IsInjective(c) /\ Range(c) \subseteq S
<1>1. PICK n \in 1..MaxBatch : c \in Injection(1..n, S)
  BY DEF Batches
<1>2. n \in Nat \ {0}
  BY <1>1, StackAssumption
<1>3. c \in [1..n -> S] /\ IsInjective(c)
  BY <1>1 DEF Injection
<1>4. c \in Seq(S) /\ Len(c) = n
  BY <1>2, <1>3
<1>5. c # <<>>
  BY <1>2, <1>4, EmptySeq
<1>6. Range(c) \subseteq S
  BY <1>3 DEF Range
<1> QED BY <1>3, <1>4, <1>5, <1>6

-----------------------------------------------------------------------------
(* The shared work stack.                                                  *)
(* The inductive invariant: what is in the chains and the hands, one place *)
(* per Work, and a size that counts them.  The size alone is not           *)
(* inductive: fetch_sub would take it below zero if the LOCKED bit did not *)
(* keep the hands apart.                                                   *)

StackIInv ==
  /\ m_state \in [locked : BOOLEAN, size : Int]
  /\ m_incoming \in Seq(Works)
  /\ m_head \in Seq(Works)
  /\ chain \in [Producers -> Seq(Works)]
  /\ place \in [Consumers -> {"idle", "lock", "take", "unlock", "done"}]
  /\ hand \in [Consumers -> Works \cup {NullWork}]
  /\ ExclusiveConsumer
  /\ OnePlace
  /\ SizeCounts

\* The stack starts empty and unlocked.
LEMMA StackInitIInv == StackInit => StackIInv
<1> SUFFICES ASSUME StackInit PROVE StackIInv
  OBVIOUS
<1> USE DEF StackInit
<1>1. Range(<<>>) = {} /\ IsInjective(<<>>) /\ <<>> \in Seq(Works)
  BY RangeOfEmpty
<1>2. Counted = {} /\ Published = {} /\ InHand = {}
  BY <1>1 DEF Counted, Published, InHand
<1>3. SizeCounts
  BY <1>2, FS_EmptySet DEF SizeCounts, Inside
<1>4. OnePlace
  BY <1>1, <1>2 DEF OnePlace
<1>5. ExclusiveConsumer
  BY StackAssumption DEF ExclusiveConsumer, Owners
<1> QED BY <1>1, <1>3, <1>4, <1>5 DEF StackIInv

\* Works is finite, so what the structures hold can be counted.
LEMMA InsideFinite ==
  ASSUME StackIInv
  PROVE  Inside \subseteq Works /\ IsFiniteSet(Inside)
<1>1. \A p \in Producers : Range(chain[p]) \subseteq Works
  BY RangeOfSeq DEF StackIInv
<1>2. Range(m_incoming) \subseteq Works /\ Range(m_head) \subseteq Works
  BY RangeOfSeq DEF StackIInv
<1>3. InHand \subseteq Works
  BY DEF StackIInv, InHand
<1>4. Inside \subseteq Works
  BY <1>1, <1>2, <1>3 DEF Inside, Counted, Published
<1> QED BY <1>4, FS_Subset, StackAssumption

-----------------------------------------------------------------------------
(* One lemma per action that moves Works.                                  *)

\* push announces its chain: the size runs ahead of the chains.
LEMMA PushCountIInv ==
  ASSUME StackIInv, NEW p \in Producers, PushCount(p)
  PROVE  StackIInv'
<1> USE DEF StackIInv, PushCount
<1>1. PICK c \in Batches(Outside) :
        /\ chain' = [chain EXCEPT ![p] = c]
        /\ m_state' = [m_state EXCEPT !.size = @ + Len(c)]
  OBVIOUS
<1>2. c \in Seq(Outside) /\ c # <<>> /\ IsInjective(c) /\ Range(c) \subseteq Outside
  BY <1>1, BatchIsChain
<1>3. c \in Seq(Works) /\ Len(c) \in Nat
  BY <1>2, SeqMonotonic, LenProperties DEF Outside
<1>4. chain' \in [Producers -> Seq(Works)]
  BY <1>1, <1>3
<1>5. Counted' = Counted \cup Range(c)
  <2>1. \A q \in Producers : chain'[q] = IF q = p THEN c ELSE chain[q]
    BY <1>1
  <2>2. Range(chain[p]) = {}
    BY RangeOfEmpty
  <2>3. ASSUME NEW x PROVE x \in Counted' <=> x \in Counted \cup Range(c)
    <3>1. x \in Counted' <=> \E q \in Producers : x \in Range(chain'[q])
      BY DEF Counted
    <3>2. x \in Counted <=> \E q \in Producers : x \in Range(chain[q])
      BY DEF Counted
    <3> QED BY <2>1, <2>2, <3>1, <3>2
  <2> QED BY <2>3
<1>6. Published' = Published /\ InHand' = InHand
  BY DEF Published, InHand
<1>7. Range(c) \cap Inside = {}
  BY <1>2 DEF Outside
<1>8. SizeCounts'
  <2>1. Inside' = Inside \cup Range(c)
    BY <1>5, <1>6 DEF Inside
  <2>2. IsFiniteSet(Range(c)) /\ Cardinality(Range(c)) = Len(c)
    BY <1>2, RangeCounted
  <2>4. Cardinality(Inside') = Cardinality(Inside) + Len(c)
    <3>1. Cardinality(Inside \cup Range(c))
            = Cardinality(Inside) + Cardinality(Range(c)) - Cardinality(Inside \cap Range(c))
      BY <2>2, InsideFinite, FS_Union
    <3>2. Cardinality(Inside \cap Range(c)) = 0
      <4>1. Inside \cap Range(c) = {}
        BY <1>7
      <4> QED BY <4>1, FS_EmptySet
    <3>3. Cardinality(Inside) \in Nat
      BY InsideFinite, FS_CardinalityType
    <3>4. Cardinality(Inside') = Cardinality(Inside \cup Range(c))
      BY <2>1
    <3> QED BY <1>3, <2>2, <3>1, <3>2, <3>3, <3>4
  <2>5. m_state'.size = m_state.size + Len(c)
    BY <1>1
  <2> QED BY <2>4, <2>5 DEF SizeCounts
<1>9. OnePlace'
  <2>1. \A q \in Producers : chain'[q] = IF q = p THEN c ELSE chain[q]
    BY <1>1
  <2>2. \A q \in Producers : Range(chain[q]) \subseteq Counted
    BY DEF Counted
  <2>3. Range(c) \cap Counted = {} /\ Range(c) \cap Published = {} /\ Range(c) \cap InHand = {}
    BY <1>7 DEF Inside
  <2>4. \A q, r \in Producers : q # r => Range(chain'[q]) \cap Range(chain'[r]) = {}
    BY <2>1, <2>2, <2>3 DEF OnePlace
  <2>5. \A q \in Producers : IsInjective(chain'[q])
    BY <1>2, <2>1 DEF OnePlace
  <2> QED BY <1>5, <1>6, <2>3, <2>4, <2>5 DEF OnePlace
<1>10. ExclusiveConsumer'
  BY <1>1 DEF ExclusiveConsumer, Owners
<1>11. m_state' \in [locked : BOOLEAN, size : Int]
  <2>1. m_state.size \in Int
    OBVIOUS
  <2>2. m_state.size + Len(c) \in Int
    BY <1>3, <2>1
  <2> QED BY <1>1, <2>2
<1> QED BY <1>4, <1>8, <1>9, <1>10, <1>11

\* push splices its chain in front of m_incoming.
LEMMA PushPublishIInv ==
  ASSUME StackIInv, NEW p \in Producers, PushPublish(p)
  PROVE  StackIInv'
<1> USE DEF StackIInv, PushPublish
<1> DEFINE c == chain[p]
<1>1. c \in Seq(Works) /\ IsInjective(c)
  BY DEF OnePlace
<1>2. m_incoming' \in Seq(Works) /\ Range(m_incoming') = Range(c) \cup Range(m_incoming)
  BY <1>1, ConcatProperties, RangeConcatenation
<1>3. \A q \in Producers : chain'[q] = IF q = p THEN <<>> ELSE chain[q]
  OBVIOUS
<1>4. chain' \in [Producers -> Seq(Works)]
  BY RangeOfEmpty
<1>5. Counted = Counted' \cup Range(c) /\ Counted' \cap Range(c) = {}
  <2>1. ASSUME NEW x
        PROVE  /\ x \in Counted <=> \E q \in Producers : x \in Range(chain[q])
               /\ x \in Counted' <=> \E q \in Producers : x \in Range(chain'[q])
    BY DEF Counted
  <2>2. Range(<<>>) = {}
    BY RangeOfEmpty
  <2>3. \A q \in Producers : q # p => Range(chain[q]) \cap Range(c) = {}
    BY DEF OnePlace
  <2>4. ASSUME NEW x
        PROVE  /\ x \in Counted <=> x \in Counted' \/ x \in Range(c)
               /\ x \in Counted' => x \notin Range(c)
    BY <1>3, <2>1, <2>2, <2>3
  <2> QED BY <2>4
<1>6. Published' = Published \cup Range(c)
  BY <1>2 DEF Published
<1>7. InHand' = InHand
  BY DEF InHand
<1>8. SizeCounts'
  <2>1. Inside' = Inside
    BY <1>5, <1>6, <1>7 DEF Inside
  <2> QED BY <2>1 DEF SizeCounts
<1>9. OnePlace'
  <2>1. Range(c) \cap Range(m_incoming) = {} /\ Range(c) \cap Range(m_head) = {}
    BY <1>5 DEF OnePlace, Published
  <2>2. IsInjective(m_incoming')
    BY <1>1, <2>1, InjectiveConcat DEF OnePlace
  <2>3. Range(m_incoming') \cap Range(m_head') = {}
    BY <1>2, <2>1 DEF OnePlace
  <2>4. \A q, r \in Producers : q # r => Range(chain'[q]) \cap Range(chain'[r]) = {}
    BY <1>3, RangeOfEmpty DEF OnePlace
  <2>5. \A q \in Producers : IsInjective(chain'[q])
    BY <1>3, RangeOfEmpty DEF OnePlace
  <2>6. Counted' \cap Published' = {} /\ InHand' \cap (Counted' \cup Published') = {}
    BY <1>5, <1>6, <1>7 DEF OnePlace
  <2> QED BY <2>2, <2>3, <2>4, <2>5, <2>6 DEF OnePlace
<1>10. ExclusiveConsumer'
  BY DEF ExclusiveConsumer, Owners
<1> QED BY <1>2, <1>4, <1>8, <1>9, <1>10

\* A thief that owns m_head takes the first node: of m_head, or of m_incoming
\* when m_head is used up.
LEMMA StealTakeIInv ==
  ASSUME StackIInv, NEW t \in Consumers, StealTake(t)
  PROVE  StackIInv'
<1> USE DEF StackIInv
<1>1. CASE m_head = <<>> /\ m_incoming = <<>>
  <2> USE <1>1 DEF StealTake, MoveTo
  <2>1. Counted' = Counted /\ Published' = Published /\ InHand' = InHand
    BY DEF Counted, Published, InHand
  <2>2. OnePlace' /\ SizeCounts'
    BY <2>1 DEF OnePlace, SizeCounts, Inside
  <2>3. ExclusiveConsumer'
    BY DEF ExclusiveConsumer, Owners
  <2> QED BY <2>2, <2>3
<1>2. CASE ~(m_head = <<>> /\ m_incoming = <<>>)
  <2> DEFINE source == IF m_head # <<>> THEN m_head ELSE m_incoming
             h == Head(source)
  <2>1. /\ place[t] = "take" /\ place' = [place EXCEPT ![t] = "done"]
        /\ hand' = [hand EXCEPT ![t] = h]
        /\ m_head' = Tail(source)
        /\ m_incoming' = IF m_head # <<>> THEN m_incoming ELSE <<>>
        /\ UNCHANGED <<m_state, chain>>
    BY <1>2 DEF StealTake, MoveTo
  <2>2. source \in Seq(Works) /\ source # <<>> /\ IsInjective(source)
    BY <1>2 DEF OnePlace
  <2>3. /\ h \in Works /\ Tail(source) \in Seq(Works)
        /\ Range(Tail(source)) = Range(source) \ {h}
        /\ h \in Range(source)
        /\ IsInjective(Tail(source))
    BY <2>2, HeadTailProperties, RangeOfTail
  <2>4. Range(m_head) \cap Range(m_incoming) = {} /\ Range(<<>>) = {} /\ IsInjective(<<>>)
    BY RangeOfEmpty DEF OnePlace
  <2> HIDE DEF h, source
  <2>5. Published' = Published \ {h} /\ h \in Published
    BY <2>1, <2>3, <2>4 DEF Published, source
  <2>6. Range(m_incoming') \cap Range(m_head') = {}
    BY <2>1, <2>3, <2>4 DEF source
  <2>7. Counted' = Counted
    BY <2>1 DEF Counted
  <2>8. h # NullWork
    BY <2>3, StackAssumption
  <2>9. \A u \in Consumers : hand[u] = NullWork
    <3>1. \A u \in Consumers : place[u] = "done" => u = t
      BY <2>1 DEF ExclusiveConsumer, Owners
    <3> QED BY <2>1, <3>1 DEF ExclusiveConsumer
  <2>10. InHand = {} /\ InHand' = {h}
    <3>1. \A u \in Consumers : hand'[u] = IF u = t THEN h ELSE NullWork
      BY <2>1, <2>9
    <3> QED BY <2>8, <2>9, <3>1 DEF InHand
  <2>11. SizeCounts'
    <3>1. Inside' = Inside
      BY <2>5, <2>7, <2>10 DEF Inside
    <3> QED BY <2>1, <3>1 DEF SizeCounts
  <2>12. OnePlace'
    <3>1. h \notin Counted
      BY <2>5 DEF OnePlace
    <3>2. IsInjective(m_incoming') /\ IsInjective(m_head')
      BY <2>1, <2>3, <2>4 DEF OnePlace
    <3>3. Counted' \cap Published' = {} /\ InHand' \cap (Counted' \cup Published') = {}
      BY <2>5, <2>7, <2>10, <3>1 DEF OnePlace
    <3> QED BY <2>1, <2>6, <3>2, <3>3 DEF OnePlace
  <2>13. ExclusiveConsumer'
    <3>1. \A u \in Consumers : place'[u] = IF u = t THEN "done" ELSE place[u]
      BY <2>1
    <3>2. Owners' = Owners
      BY <2>1, <3>1 DEF Owners
    <3>3. \A u \in Consumers : hand'[u] # NullWork <=> place'[u] = "done"
      BY <2>1, <2>8, <2>9, <3>1 DEF ExclusiveConsumer
    <3> QED BY <2>1, <3>2, <3>3 DEF ExclusiveConsumer
  <2>14. hand' \in [Consumers -> Works \cup {NullWork}]
    BY <2>1, <2>3
  <2>15. m_head' \in Seq(Works) /\ m_incoming' \in Seq(Works)
    BY <2>1, <2>3, RangeOfEmpty
  <2>16. place' \in [Consumers -> {"idle", "lock", "take", "unlock", "done"}]
    BY <2>1
  <2> QED BY <2>1, <2>11, <2>12, <2>13, <2>14, <2>15, <2>16
<1> QED BY <1>1, <1>2

\* The Work leaves the stack with the unit of size that counted it.
LEMMA StealDoneIInv ==
  ASSUME StackIInv, NEW t \in Consumers, StealDone(t)
  PROVE  StackIInv'
<1> USE DEF StackIInv, StealDone, MoveTo
<1>1. /\ Counted' = Counted /\ Published' = Published
  BY DEF Counted, Published
<1>2. \A u \in Consumers : u # t => hand[u] = NullWork /\ u \notin Owners
  <2>1. t \in Owners
    BY DEF Owners
  <2> QED BY <2>1 DEF ExclusiveConsumer, Owners
<1>3. hand[t] # NullWork /\ hand[t] \in Works
  BY DEF ExclusiveConsumer
<1>4. InHand = {hand[t]} /\ InHand' = {}
  BY <1>2, <1>3 DEF InHand
<1>5. SizeCounts'
  <2>1. Inside' = Inside \ {hand[t]} /\ hand[t] \in Inside
    BY <1>1, <1>4 DEF Inside, OnePlace
  <2>2. Cardinality(Inside \ {hand[t]}) = Cardinality(Inside) - 1
    BY <2>1, InsideFinite, FS_RemoveElement
  <2>3. m_state'.size = m_state.size - 1
    OBVIOUS
  <2> QED BY <2>1, <2>2, <2>3 DEF SizeCounts
<1>6. OnePlace'
  BY <1>1, <1>4 DEF OnePlace
<1>7. ExclusiveConsumer'
  <2>1. \A u \in Consumers : place'[u] = IF u = t THEN "idle" ELSE place[u]
    OBVIOUS
  <2>2. \A u \in Consumers : hand'[u] = IF u = t THEN NullWork ELSE hand[u]
    OBVIOUS
  <2>3. Owners' = {}
    BY <1>2, <2>1 DEF Owners
  <2>4. ~m_state'.locked
    OBVIOUS
  <2> QED BY <2>1, <2>2, <2>3, <2>4 DEF ExclusiveConsumer
<1>8. m_state' \in [locked : BOOLEAN, size : Int]
  <2>1. m_state.size - 1 \in Int
    OBVIOUS
  <2> QED BY <2>1
<1> QED BY <1>5, <1>6, <1>7, <1>8

\* The steps that only move the lock.
LEMMA StealLockingIInv ==
  ASSUME StackIInv, NEW t \in Consumers, StealCheck(t) \/ StealLock(t) \/ StealUnlock(t)
  PROVE  StackIInv'
<1> USE DEF StackIInv
<1> DEFINE Others == \A u \in Consumers : u # t => place'[u] = place[u]
<1>1. /\ UNCHANGED <<m_incoming, m_head, chain, hand>>
      /\ m_state'.size = m_state.size
      /\ m_state' \in [locked : BOOLEAN, size : Int]
      /\ place' \in [Consumers -> {"idle", "lock", "take", "unlock", "done"}]
      /\ Others
  BY DEF StealCheck, StealLock, StealUnlock, MoveTo
<1>2. Counted' = Counted /\ Published' = Published /\ InHand' = InHand
  BY <1>1 DEF Counted, Published, InHand
<1>3. OnePlace' /\ SizeCounts'
  BY <1>1, <1>2 DEF OnePlace, SizeCounts, Inside
<1>4. ExclusiveConsumer'
  <2>1. CASE StealCheck(t)
    BY <2>1 DEF StealCheck, MoveTo, ExclusiveConsumer, Owners
  <2>2. CASE StealLock(t) /\ m_state.locked
    BY <2>2 DEF StealLock, MoveTo, ExclusiveConsumer, Owners
  <2>3. CASE StealLock(t) /\ ~m_state.locked
    <3>1. Owners = {} /\ Owners' = {t}
      BY <2>3 DEF StealLock, MoveTo, ExclusiveConsumer, Owners
    <3> QED BY <2>3, <3>1 DEF StealLock, MoveTo, ExclusiveConsumer, Owners
  <2>4. CASE StealUnlock(t)
    <3>1. t \in Owners /\ Owners' = Owners \ {t}
      BY <2>4 DEF StealUnlock, MoveTo, Owners
    <3>2. Owners' = {}
      BY <3>1 DEF ExclusiveConsumer, Owners
    <3> QED BY <2>4, <3>2 DEF StealUnlock, MoveTo, ExclusiveConsumer, Owners
  <2> QED BY <2>1, <2>2, <2>3, <2>4
<1> QED BY <1>1, <1>3, <1>4

\* Every step of push and steal preserves the invariant.
LEMMA StackNextIInv == StackIInv /\ [StackNext]_stackVars => StackIInv'
<1> SUFFICES ASSUME StackIInv, [StackNext]_stackVars PROVE StackIInv'
  OBVIOUS
<1>1. CASE \E p \in Producers : PushCount(p) \/ PushPublish(p)
  BY <1>1, PushCountIInv, PushPublishIInv
<1>2. CASE \E t \in Consumers : StealStep(t)
  BY <1>2, StealTakeIInv, StealDoneIInv, StealLockingIInv DEF StealStep
<1>3. CASE UNCHANGED stackVars
  BY <1>3 DEF stackVars, StackIInv, ExclusiveConsumer, Owners, OnePlace, SizeCounts, Inside,
              Counted, Published, InHand
<1> QED BY <1>1, <1>2, <1>3 DEF StackNext

\* The invariant holds in every reachable state.
LEMMA StackInvariant == StackSpec => []StackIInv
  BY StackInitIInv, StackNextIInv, PTL DEF StackSpec

-----------------------------------------------------------------------------
(* Theorems.                                                               *)

\* The LOCKED bit of shared_work_stack.hpp is a lock on m_head.
THEOREM ExclusiveConsumerHolds == StackSpec => []ExclusiveConsumer
<1>1. StackIInv => ExclusiveConsumer
  BY DEF StackIInv
<1> QED BY <1>1, StackInvariant, PTL

\* PushTasks, takeover and steal neither lose nor repeat a Work.
THEOREM OnePlaceHolds == StackSpec => []OnePlace
<1>1. StackIInv => OnePlace
  BY DEF StackIInv
<1> QED BY <1>1, StackInvariant, PTL

\* The size field counts exactly the Works announced and not yet returned, and
\* empty() never answers true over a published Work.
THEOREM SizeIsHonestHolds == StackSpec => []SizeIsHonest
<1>1. StackIInv => SizeCounts
  BY DEF StackIInv
<1>2. StackIInv => EmptyMeansEmpty
  <2> SUFFICES ASSUME StackIInv, m_state.size = 0
               PROVE  m_incoming = <<>> /\ m_head = <<>>
    BY DEF EmptyMeansEmpty
  <2>1. Inside = {}
    BY InsideFinite, FS_EmptySet DEF StackIInv, SizeCounts
  <2>2. Range(m_incoming) = {} /\ Range(m_head) = {}
    BY <2>1 DEF Inside, Published
  <2>3. ASSUME NEW s \in Seq(Works), Range(s) = {}
        PROVE  s = <<>>
    <3>1. DOMAIN s = {}
      BY <2>3 DEF Range
    <3>2. Len(s) = 0
      BY <3>1, LenProperties
    <3> QED BY <3>2, EmptySeq
  <2> QED BY <2>2, <2>3 DEF StackIInv
<1>3. StackIInv => SizeIsHonest
  BY <1>1, <1>2 DEF SizeIsHonest
<1> QED BY <1>3, StackInvariant, PTL

\* Type correctness; the size stays between 0 and the number of Works.
THEOREM StackTypeCorrect == StackSpec => []StackTypeOK
<1>1. StackIInv => StackTypeOK
  <2> SUFFICES ASSUME StackIInv PROVE StackTypeOK
    OBVIOUS
  <2>1. Cardinality(Inside) \in 0..Cardinality(Works)
    BY InsideFinite, StackAssumption, FS_Subset, FS_CardinalityType
  <2> QED BY <2>1 DEF StackIInv, StackTypeOK, SizeCounts
<1> QED BY <1>1, StackInvariant, PTL
=============================================================================
