CONSTANTS
  w1 = w1
  w2 = w2
  s1 = s1
  c1 = c1
  k1 = k1
  k2 = k2
  Nil = Nil
  Workers = {w1, w2}
  Stacks = {s1}
  Clients = {c1}
  Topologies = {k1, k2}
  QueueCap = 1
  MaxReady = 3
  MaxWorks = 4
SPECIFICATION FairSpec
INVARIANTS NoLostWakeup CountersExact ShutdownIsClean
PROPERTIES SubmittedCompletes ShutdownEnds
CHECK_DEADLOCK FALSE
