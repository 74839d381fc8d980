CONSTANTS
  a = a
  b = b
  c = c
  d = d
  e = e
  Nil = Nil
  w1 = w1
  w2 = w2
  w3 = w3
  Nodes = {a, b, c, d, e}
  Workers = {w1, w2, w3}
  Graphs <- MCGraphs
  Thrower = {b}
  MaxRounds = 2
  MaxJumps = 3
SPECIFICATION FairSpec
INVARIANT ActivationsExact
PROPERTIES ImplementsGraphRounds RunEnds
CHECK_DEADLOCK FALSE
