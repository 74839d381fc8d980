CONSTANTS
  w1 = w1
  w2 = w2
  n1 = n1
  Nil = Nil
  EpochModulus = 16
  StartEpoch = 15
  Waiters = {w1, w2}
  Notifiers = {n1}
  Budgets <- TwoEach
SPECIFICATION RelaxedSpec
INVARIANT RelaxedSuffices
CHECK_DEADLOCK FALSE
