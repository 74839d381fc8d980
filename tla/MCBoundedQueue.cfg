CONSTANTS
  t1 = t1
  t2 = t2
  Thieves = {t1, t2}
  Cap = 2
  MaxTasks = 4
  MaxPops = 3
  MaxSteals = 2
SPECIFICATION QueueSpec
SYMMETRY ThiefSymmetry
PROPERTIES ImplementsDeque PopFailsOnlyWhenEmpty
CHECK_DEADLOCK FALSE
