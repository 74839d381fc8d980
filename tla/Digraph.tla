------------------------------- MODULE Digraph -------------------------------
(***************************************************************************)
(* What editing the graphs of src/taskflowlite/core means: a directed      *)
(* graph that both ends of an edge know.  A call that fails changes        *)
(* nothing.                                                                *)
(***************************************************************************)
CONSTANTS AllNodes

VARIABLES
  nodes,
  out,      \* edges <<u, v>> as their origins know them
  in        \* the same as their targets know them

DigraphInit == out = {} /\ in = {}

Touching(S) == {e \in AllNodes \X AllNodes : e[1] \in S \/ e[2] \in S}

AddNode(v) ==
  /\ v \notin nodes
  /\ nodes' = nodes \cup {v}
  /\ UNCHANGED <<out, in>>

AddEdge(u, v) ==
  /\ out' = out \cup {<<u, v>>}
  /\ in' = in \cup {<<u, v>>}
  /\ UNCHANGED nodes

DropEdges(E) ==
  /\ out' = out \ E
  /\ in' = in \ E
  /\ UNCHANGED nodes

DropNodes(S) ==
  /\ nodes' = nodes \ S
  /\ out' = out \ Touching(S)
  /\ in' = in \ Touching(S)

DigraphNext ==
  \/ \E v \in AllNodes : AddNode(v)
  \/ \E u, v \in nodes : AddEdge(u, v) \/ DropEdges({<<u, v>>})
  \/ \E v \in nodes : DropEdges(AllNodes \X {v}) \/ DropEdges({v} \X AllNodes)
  \/ \E S \in SUBSET nodes : DropNodes(S)

DigraphSpec == DigraphInit /\ [][DigraphNext]_<<nodes, out, in>>
=============================================================================
