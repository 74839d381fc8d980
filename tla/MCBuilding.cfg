CONSTANTS
  ta = ta
  tb = tb
  fa = fa
  ga = ga
  fb = fb
  None = None
  Threads <- MCThreads
  Buckets <- MCBuckets
  Slabs <- MCSlabs
  Flows <- MCFlows
  FlowsOf <- MCFlowsOf
  Semaphores = {1, 2, 3}
  N = 1
  HeapBlocks = {h1, h2, h3, h4}
  Default = 0
  Hollow = Hollow
  Absent = Absent
  Elements = {1, 2}
  Ranges <- MCRanges
  MaxLength = 3
  Plans <- MCPlans
SPECIFICATION Spec
CHECK_DEADLOCK FALSE
INVARIANTS WorksOwned OneOwner SearchIsExact NoStrictCycle RequestsOrdered ChoiceIsSound VectorsOwned ContentsKept
PROPERTIES ImplementsDigraph
