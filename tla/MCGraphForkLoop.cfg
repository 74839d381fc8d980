CONSTANTS
  a = a
  b = b
  c = c
  d = d
  e = e
  Nil = Nil
  w1 = w1
  w2 = w2
  w3 = w3
  Nodes = {a, b, c, d, e}
  Workers = {w1, w2, w3}
  Graphs <- ForkLoopOnly
  Thrower = {}
  MaxRounds = 1
  MaxJumps = 3
SPECIFICATION Spec
INVARIANTS EarlyArrivalKept
CHECK_DEADLOCK FALSE
