------------------------------ MODULE MCGraphRun ------------------------------
(* The shapes that stress the counters, each with four or five nodes.      *)
EXTENDS GraphRun, TLC

CONSTANTS a, b, c, d, e, w1, w2, w3

Graph(succ, kind) ==
  [nodes |-> DOMAIN succ,
   succ  |-> [n \in Nodes |-> IF n \in DOMAIN succ THEN succ[n] ELSE {}],
   kind  |-> [n \in Nodes |-> IF n \in DOMAIN kind THEN kind[n] ELSE "basic"]]

\* Three nodes become ready at once, one without a callable, and join again.
Fork == Graph(a :> {b, c, d} @@ b :> {e} @@ c :> {e} @@ d :> {e} @@ e :> {},
              d :> "placeholder")

\* A branch leaves the join half way.
BranchJoin == Graph(a :> {b, c} @@ b :> {d} @@ c :> {d} @@ d :> {},
                    a :> "branch")

\* Two sources, one of them selecting several successors.
FanIn == Graph(a :> {c, d} @@ b :> {c, e} @@ c :> {} @@ d :> {e} @@ e :> {},
               a :> "multiBranch")

\* test_jump.cpp, "retry loop": a, then b until the jump c goes on to d.
RetryLoop == Graph(a :> {b} @@ b :> {c} @@ c :> {b, d} @@ d :> {},
                   c :> "jump")

\* A jump that starts the nodes it waits for again, and another one.
FanLoop == Graph(a :> {b, c} @@ b :> {d} @@ c :> {d} @@ d :> {b, c, e} @@ e :> {},
                 d :> "multiJump")

\* A step that has two strong edges: out of the loop, and to the jump.
ForkLoop == Graph(a :> {b} @@ b :> {c, d} @@ c :> {b} @@ d :> {},
                  c :> "jump")

MCGraphs == {Fork, BranchJoin, FanIn, RetryLoop, FanLoop}
==============================================================================
