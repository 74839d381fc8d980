CONSTANTS
  t1 = t1
  t2 = t2
  t3 = t3
  c1 = c1
  c2 = c2
  w1 = w1
  w2 = w2
  Nil = Nil
  Tasks = {t1, t2, t3}
  Clients = {c1, c2}
  Workers = {w1, w2}
  MaxDeps = 2
  MaxFutures = 3
SPECIFICATION Spec
SYMMETRY Interchangeable
INVARIANTS NoUseAfterFree RefsExact ArrivalsExact WaiterNotified
PROPERTIES ImplementsDependentTasks
CHECK_DEADLOCK FALSE
