----------------------------- MODULE GraphRounds -----------------------------
(***************************************************************************)
(* What running a graph means (src/taskflowlite/core/executor.hpp), with   *)
(* no counters and no workers: rounds of a net in which strong edges carry *)
(* arrivals.                                                               *)
(*                                                                         *)
(* A node starts once per arrival on each of its strong in-edges, or       *)
(* because it is forced: the sources of the graph at the start of a round, *)
(* the target of a jump.  When its body ends it reaches the successors it  *)
(* chose, one by one.  A round is over when nothing runs and nothing can   *)
(* start; no round follows a stop request or a failure.                    *)
(***************************************************************************)
EXTENDS Integers

CONSTANTS
  Nodes,
  Invoker     \* what each kind of node does, see Invokers

VARIABLES
  graph,      \* [nodes, succ, kind], see GraphRun
  phase,      \* "new", "round" or "done"
  running,    \* nodes whose body runs
  owes,       \* successors a node has chosen and not yet reached
  tokens,     \* arrivals on each strong edge that no start has used
  forced,     \* nodes that start without arrivals
  stopped,
  failed      \* nodes whose body threw

grVars ==
  <<graph, phase, running, owes, tokens, forced, stopped, failed>>

Jumps == {n \in graph.nodes : ~Invoker[graph.kind[n]].strong}
Preds(n) == {m \in graph.nodes : n \in graph.succ[m]}
StrongPreds(n) == Preds(n) \ Jumps
Sources == {n \in graph.nodes : Preds(n) = {}}

\* The successors the body of a node may choose.
Choices(n) ==
  {S \in SUBSET graph.succ[n] :
     CASE Invoker[graph.kind[n]].selects = "all" -> S = graph.succ[n]
       [] Invoker[graph.kind[n]].selects = "one" -> \A m, k \in S : m = k
       [] OTHER -> TRUE}

Startable(n) ==
  \/ n \in forced
  \/ StrongPreds(n) # {} /\ \A m \in StrongPreds(n) : tokens[<<m, n>>] > 0

Quiet ==
  /\ running = {}
  /\ \A n \in graph.nodes : owes[n] = {} /\ ~Startable(n)

NoTokens == [e \in Nodes \X Nodes |-> 0]

GRInit ==
  /\ phase = "new"
  /\ running = {}
  /\ owes = [n \in Nodes |-> {}]
  /\ tokens = NoTokens
  /\ forced = {}
  /\ stopped = FALSE
  /\ failed = {}

\* Use what lets n start: the forcing, or one arrival of each predecessor.
Use(n) ==
  IF n \in forced
  THEN forced' = forced \ {n} /\ UNCHANGED tokens
  ELSE /\ tokens' = [e \in Nodes \X Nodes |->
                       IF e[2] = n /\ e[1] \in StrongPreds(n)
                       THEN tokens[e] - 1 ELSE tokens[e]]
       /\ UNCHANGED forced

Start(n) ==
  /\ phase = "round" /\ Startable(n)
  /\ n \notin running /\ owes[n] = {}
  /\ running' = running \cup {n}
  /\ Use(n)
  /\ UNCHANGED <<graph, phase, owes, stopped, failed>>

\* After a stop request nodes are skipped instead of run.
Drop(n) ==
  /\ stopped
  /\ phase = "round" /\ Startable(n)
  /\ Use(n)
  /\ UNCHANGED <<graph, phase, running, owes, stopped, failed>>

\* The body ends.  A node that has thrown reaches nobody.
Finished(n) ==
  /\ n \in running
  /\ running' = running \ {n}
  /\ \/ /\ n \notin failed
        /\ \E S \in Choices(n) : owes' = [owes EXCEPT ![n] = S]
        /\ UNCHANGED failed
     \/ /\ failed' = failed \cup {n}
        /\ UNCHANGED owes
  /\ UNCHANGED <<graph, phase, tokens, forced, stopped>>

Arrival(n, m) ==
  /\ m \in owes[n] /\ n \notin Jumps
  /\ owes' = [owes EXCEPT ![n] = @ \ {m}]
  /\ tokens' = [tokens EXCEPT ![<<n, m>>] = @ + 1]
  /\ UNCHANGED <<graph, phase, running, forced, stopped, failed>>

\* A jump starts its target afresh, whatever has arrived there.
Jump(n, m) ==
  /\ m \in owes[n] /\ n \in Jumps
  /\ m \notin forced
  /\ owes' = [owes EXCEPT ![n] = @ \ {m}]
  /\ forced' = forced \cup {m}
  /\ tokens' = [e \in Nodes \X Nodes |-> IF e[2] = m THEN 0 ELSE tokens[e]]
  /\ UNCHANGED <<graph, phase, running, stopped, failed>>

NewRound ==
  /\ phase \in {"new", "round"} /\ Quiet
  /\ ~stopped /\ failed = {}
  /\ phase' = "round"
  /\ forced' = Sources
  /\ tokens' = NoTokens
  /\ UNCHANGED <<graph, running, owes, stopped, failed>>

Finish ==
  /\ phase \in {"new", "round"} /\ Quiet
  /\ phase' = "done"
  /\ UNCHANGED <<graph, running, owes, tokens, forced, stopped, failed>>

Stop ==
  /\ stopped' = TRUE
  /\ UNCHANGED <<graph, phase, running, owes, tokens, forced, failed>>

GRNext ==
  \/ \E n \in Nodes : Start(n) \/ Drop(n) \/ Finished(n)
  \/ \E n, m \in Nodes : Arrival(n, m) \/ Jump(n, m)
  \/ NewRound \/ Finish \/ Stop

GRSpec == GRInit /\ [][GRNext]_grVars
=============================================================================
