CONSTANTS
  w1 = w1
  w2 = w2
  w3 = w3
  n1 = n1
  n2 = n2
  Nil = Nil
  EpochModulus = 16
  StartEpoch = 15
  Waiters = {w1, w2, w3}
  Notifiers = {n1, n2}
  Budgets <- TwiceOrThree
SPECIFICATION FairSpec
INVARIANTS SleepersAccounted TicketsConsecutive
PROPERTIES WaitersMove ImplementsEventCount
CHECK_DEADLOCK FALSE
