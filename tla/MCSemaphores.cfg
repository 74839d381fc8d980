CONSTANTS
  t1 = t1
  t2 = t2
  t3 = t3
  w1 = w1
  w2 = w2
  w3 = w3
  Nil = Nil
  Semaphores = {1, 2}
  Works = {t1, t2, t3}
  Workers = {w1, w2, w3}
  Settings <- MCSettings
  Capacities <- Capacity
  MaxRounds = 1
SPECIFICATION FairSpec
INVARIANTS WaiterIsShort OnePlace QuotaConserved
PROPERTIES WorkEnds
CHECK_DEADLOCK FALSE
